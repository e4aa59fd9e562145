------------------------------ MODULE Workforce ------------------------------
(***************************************************************************)
(* One employee: the shifts assigned to him, his attendance and his pay.   *)
(*                                                                         *)
(* ShiftAssignmentService, AttendanceService with AttendanceEngine, and    *)
(* EmployeeCompensationService.  A handler reads, decides and commits      *)
(* later, without a lock; only columns that differ from what was loaded    *)
(* are written.  Locking attendance commits one row at a time.             *)
(*                                                                         *)
(* The shift of a day is never found in Redis: resolve_shift_for_date      *)
(* passes a ttl that RedisManager.set does not take, and the error is      *)
(* caught and logged.  So there is no cache here to drop or to be stale.   *)
(***************************************************************************)
EXTENDS Integers, FiniteSets, FiniteSetsExt

CONSTANTS
  Tasks,        \* handlers in flight
  Shifts,
  Assignments,  \* ids of shift assignments
  Pays,         \* ids of compensations
  LastDay,      \* days are 1..LastDay
  Today,
  DayLength,    \* instants of a day
  Clock,        \* instants at which somebody may check in or out
  DaysOff,      \* weekends and holidays, with the status of each
  Rule,         \* [start, end, rest, grace, least] of a shift; "none": the HR default
  Scenarios     \* what is asked, and how many handlers overlap

Missing == "none"
Days == 1..LastDay
Ever == LastDay + 1        \* effective_to is NULL
ShiftOps == {"assign", "move", "loosen", "end", "delete", "default"}
DayOps   == {"in", "out", "correct", "lock"}
PayOps   == {"offer", "revise", "activate", "cancel", "redate", "remove", "restore"}
Ops      == ShiftOps \cup DayOps \cup PayOps
Scenario == [width: Nat \ {0}, ops: SUBSET Ops,
             clock: SUBSET Clock,         \* bound on the instants
             crashes: Nat]                \* bound on handlers lost

ASSUME WorkforceAssumption ==
  /\ IsFiniteSet(Tasks) /\ Missing \notin Pays
  /\ LastDay \in Nat \ {0} /\ Today \in Days /\ DayLength \in Nat \ {0}
  /\ Clock \subseteq 0..(LastDay * DayLength - 1)
  /\ \A d \in DOMAIN DaysOff : d \in Days /\ DaysOff[d] \in {"Holiday", "Weekend"}
  /\ Rule \in [Shifts \cup {Missing} -> [start: 0..(DayLength-1), end: 0..(DayLength-1),
                                         rest: Nat, grace: Nat, least: Nat]]
  /\ Scenarios \subseteq Scenario

VARIABLES
  assignment,  \* the shift assignments
  default,     \* Employee.shift_id
  attendance,  \* the row of each day
  pay,         \* the compensations
  task, crashes, scenario

rows == <<assignment, default, attendance, pay>>
vars == <<rows, task, crashes, scenario>>

----------------------------------------------------------------------------
(* Rows *)

Assignment == [shift: Shifts, from: Days, to: 1..Ever, active: BOOLEAN, deleted: BOOLEAN]
NoAssignment == [shift |-> Missing, from |-> 0, to |-> 0, active |-> FALSE, deleted |-> TRUE]
Pay == [status: {"Draft", "Active", "Expired", "Cancelled"}, from: Days, to: 1..Ever, deleted: BOOLEAN]
NoPay == [status |-> Missing, from |-> 0, to |-> 0, deleted |-> TRUE]

Never == -1                \* no check-in or no check-out
DayStatus == {"Absent", "Holiday", "Weekend", "Missing Check-out", "Missing Check-in",
              "Half Day", "Late", "Present"}
Row == [in: Clock \cup {Never}, out: Clock \cup {Never}, rest: {0, 1}, shift: Shifts \cup {Missing},
        status: DayStatus, worked: Nat, expected: Nat, late: Nat, early: Nat,
        corrected: BOOLEAN, locked: BOOLEAN]
NoRow == [in |-> Never]

\* A mistaken Merged: the row is written as it was loaded and changed.
WholeRow(loaded, new, current) == new

\* What a commit leaves: a column is written only when it differs from what
\* was loaded.
Merged(loaded, new, current) ==
  [f \in DOMAIN new |-> IF f \in DOMAIN loaded /\ new[f] = loaded[f] THEN current[f] ELSE new[f]]

Resting == [pc |-> "idle", day |-> 0, id |-> Missing, shift |-> Missing, loaded |-> NoRow,
            new |-> NoRow, other |-> Missing, until |-> 0, todo |-> {}]

Live(a) == ~ assignment[a].deleted
Owed(p) == ~ pay[p].deleted

TypeOK ==
  /\ assignment \in [Assignments -> Assignment \cup {NoAssignment}]
  /\ default \in Shifts \cup {Missing}
  /\ attendance \in [Days -> Row \cup {NoRow}] /\ pay \in [Pays -> Pay \cup {NoPay}]
  /\ \A t \in Tasks : task[t].day \in 0..LastDay /\ task[t].todo \subseteq Days
  /\ crashes \in 0..scenario.crashes /\ scenario \in Scenarios

Init ==
  /\ assignment = [a \in Assignments |-> NoAssignment]
  /\ default \in Shifts \cup {Missing}
  /\ attendance = [d \in Days |-> NoRow]
  /\ pay = [p \in Pays |-> NoPay]
  /\ task = [t \in Tasks |-> Resting]
  /\ crashes = 0 /\ scenario \in Scenarios

MayBegin(t, op) ==
  /\ task[t].pc = "idle" /\ op \in scenario.ops
  /\ Cardinality({u \in Tasks : task[u].pc # "idle"}) < scenario.width
Go(t, me) == task' = [task EXCEPT ![t] = me]
Stop(t) == Go(t, Resting)

----------------------------------------------------------------------------
(* Attendance engine *)

DayOf(time) == time \div DayLength + 1
DayStart(d) == (d - 1) * DayLength
Overnight(r) == r.end <= r.start
Length(r) == r.end - r.start + IF Overnight(r) THEN DayLength ELSE 0
ShiftStart(d, r) == DayStart(d) + r.start
ShiftEnd(d, r) == ShiftStart(d, r) + Length(r)

Worked(in, out, rest) ==
  IF Never \in {in, out} THEN 0 ELSE Max({0, Max({0, out - in}) - rest})
Expected(d, r) == IF d \in DOMAIN DaysOff THEN 0 ELSE Max({0, Length(r) - r.rest})
LateBy(d, in, r) ==
  IF in = Never \/ in <= ShiftStart(d, r) + r.grace THEN 0 ELSE in - ShiftStart(d, r)
EarlyBy(d, out, r) == IF out = Never \/ out >= ShiftEnd(d, r) THEN 0 ELSE ShiftEnd(d, r) - out

StatusOf(d, in, out, rest, r) ==
  CASE in = Never /\ out = Never -> IF d \in DOMAIN DaysOff THEN DaysOff[d] ELSE "Absent"
    [] in # Never /\ out = Never -> "Missing Check-out"
    [] in = Never /\ out # Never -> "Missing Check-in"
    [] OTHER -> IF Worked(in, out, rest) < r.least THEN "Half Day"
                ELSE IF LateBy(d, in, r) > 0 THEN "Late" ELSE "Present"

\* The row with the figures that calculate_attendance gives it under a shift.
Calculated(d, row, shift) ==
  LET r == Rule[shift] IN
  [row EXCEPT !.status = StatusOf(d, row.in, row.out, row.rest, r),
              !.worked = Worked(row.in, row.out, row.rest), !.expected = Expected(d, r),
              !.late = LateBy(d, row.in, r), !.early = EarlyBy(d, row.out, r)]

----------------------------------------------------------------------------
(* Which shift holds on a day *)

Holding(d) == {a \in Assignments : /\ Live(a) /\ assignment[a].active
                                   /\ assignment[a].from <= d /\ d <= assignment[a].to}

\* The latest start wins, then the latest row; the employee's own shift if
\* there is none.
Resolutions(d) ==
  IF Holding(d) = {} THEN {default}
  ELSE {assignment[a].shift : a \in
          {b \in Holding(d) : \A c \in Holding(d) : assignment[c].from <= assignment[b].from}}

\* resolve_shift_for_date.
Resolve(t, me, next) ==
  \E s \in Resolutions(me.day) : Go(t, [me EXCEPT !.shift = s, !.pc = next])

----------------------------------------------------------------------------
(* Attendance *)

\* The shift may be named by the request.
BeginCheckIn(t) ==
  /\ MayBegin(t, "in")
  /\ \E time \in scenario.clock, s \in Shifts \cup {Missing} :
       LET me == [Resting EXCEPT !.day = DayOf(time), !.new = [in |-> time]] IN
       IF s # Missing THEN Go(t, [me EXCEPT !.shift = s, !.pc = "find"]) ELSE Resolve(t, me, "find")
  /\ UNCHANGED <<rows, crashes, scenario>>

FirstRow(time, shift) ==
  [in |-> time, out |-> Never, rest |-> 0, shift |-> shift, corrected |-> FALSE, locked |-> FALSE,
   status |-> "Absent", worked |-> 0, expected |-> 0, late |-> 0, early |-> 0]

\* A second check-in of a day replaces the first, and the shift of the row
\* only if there is one now; the figures are those of the shift there is now.
CheckedIn(row, time, shift, day) ==
  IF row = NoRow THEN Calculated(day, FirstRow(time, shift), shift)
  ELSE Calculated(day, [row EXCEPT !.in = time, !.shift = IF shift = Missing THEN @ ELSE shift], shift)

FindRow(t) ==
  LET me == task[t]  row == attendance[me.day] IN
  /\ me.pc = "find"
  /\ IF row # NoRow /\ row.locked THEN Stop(t)
     ELSE Go(t, [me EXCEPT !.pc = "write", !.loaded = row,
                   !.new = CheckedIn(row, me.new.in, me.shift, me.day)])
  /\ UNCHANGED <<rows, crashes, scenario>>

\* The row of the check-out's day, or one of the day before that is open.
RowFor(time) ==
  LET d == DayOf(time) IN
  IF attendance[d] # NoRow THEN {d}
  ELSE IF d > 1 /\ attendance[d-1] # NoRow /\ attendance[d-1].out = Never THEN {d - 1} ELSE {}

\* With the shift of the row, or the one that holds on its day.
Rework(t, me) ==
  IF me.loaded.shift # Missing THEN Go(t, [me EXCEPT !.shift = me.loaded.shift, !.pc = "figure"])
  ELSE Resolve(t, me, "figure")

BeginCheckOut(t) ==
  /\ MayBegin(t, "out")
  /\ \E time \in scenario.clock, rest \in {0, 1} : \E d \in RowFor(time) :
       /\ ~ attendance[d].locked
       /\ Rework(t, [Resting EXCEPT !.day = d, !.loaded = attendance[d],
                       !.new = [attendance[d] EXCEPT !.out = time, !.rest = rest]])
  /\ UNCHANGED <<rows, crashes, scenario>>

\* The corrector may give times and a status of his own; what he leaves out
\* stays.
BeginCorrect(t) ==
  /\ MayBegin(t, "correct")
  /\ \E d \in Days, in, out \in scenario.clock \cup {Never}, s \in {Missing, "Present"} :
       /\ attendance[d] # NoRow /\ ~ attendance[d].locked
       /\ Never \in {in, out} \/ in <= out
       /\ Rework(t, [Resting EXCEPT !.day = d, !.loaded = attendance[d], !.id = s,
                       !.new = [attendance[d] EXCEPT !.in = IF in = Never THEN @ ELSE in,
                                  !.out = IF out = Never THEN @ ELSE out, !.corrected = TRUE]])
  /\ UNCHANGED <<rows, crashes, scenario>>

Figure(t) ==
  LET me == task[t]  new == Calculated(me.day, me.new, me.shift) IN
  /\ me.pc = "figure"
  /\ Go(t, [me EXCEPT !.pc = "write", !.new = IF me.id = Missing THEN new ELSE [new EXCEPT !.status = me.id]])
  /\ UNCHANGED <<rows, crashes, scenario>>

\* A row that another handler has inserted meanwhile is not inserted again
\* (uq_attendance_employee_date).
WriteRow(t) ==
  LET me == task[t]  row == attendance[me.day] IN
  /\ me.pc = "write"
  /\ attendance' = IF me.loaded # NoRow THEN [attendance EXCEPT ![me.day] = Merged(me.loaded, me.new, row)]
                   ELSE IF row = NoRow THEN [attendance EXCEPT ![me.day] = me.new] ELSE attendance
  /\ Stop(t)
  /\ UNCHANGED <<assignment, default, pay, crashes, scenario>>

BeginLock(t) ==
  /\ MayBegin(t, "lock")
  /\ \E S \in SUBSET {d \in Days : attendance[d] # NoRow} :
       /\ \E d \in S : ~ attendance[d].locked
       /\ Go(t, [Resting EXCEPT !.pc = "lock", !.todo = {d \in S : ~ attendance[d].locked}])
  /\ UNCHANGED <<rows, crashes, scenario>>

\* Every row is committed, and its audit record, before the next.
LockRow(t) ==
  /\ task[t].pc = "lock"
  /\ \E d \in task[t].todo :
       /\ attendance' = [attendance EXCEPT ![d].locked = TRUE]
       /\ IF task[t].todo = {d} THEN Stop(t) ELSE Go(t, [task[t] EXCEPT !.todo = @ \ {d}])
  /\ UNCHANGED <<assignment, default, pay, crashes, scenario>>

----------------------------------------------------------------------------
(* Shift assignments *)

Overlap(from, to, other) == from <= other.to /\ other.from <= to

\* A mistaken Overlaps: assignments that share one day only are let through.
OverlapsMore(from, to, except) ==
  \E a \in Assignments \ except :
    Live(a) /\ assignment[a].active /\ from < assignment[a].to /\ assignment[a].from < to

\* check_overlap
Overlaps(from, to, except) ==
  \E a \in Assignments \ except : Live(a) /\ assignment[a].active /\ Overlap(from, to, assignment[a])

\* has_locked_attendance_in_range
LockedIn(from, to) == \E d \in Days : from <= d /\ d <= to /\ attendance[d] # NoRow /\ attendance[d].locked

BeginAssign(t) ==
  /\ MayBegin(t, "assign")
  /\ \E s \in Shifts, from \in Days, to \in 1..Ever :
       /\ from <= to /\ ~ Overlaps(from, to, {}) /\ ~ LockedIn(from, to)
       /\ Go(t, [Resting EXCEPT !.pc = "insert", !.new =
            [shift |-> s, from |-> from, to |-> to, active |-> TRUE, deleted |-> FALSE]])
  /\ UNCHANGED <<rows, crashes, scenario>>

InsertAssignment(t) ==
  /\ task[t].pc = "insert"
  /\ \E a \in Assignments :
       /\ assignment[a] = NoAssignment
       /\ assignment' = [assignment EXCEPT ![a] = task[t].new]
  /\ Stop(t)
  /\ UNCHANGED <<default, attendance, pay, crashes, scenario>>

\* The locked days of the range it has are looked at, not those of the range it
\* gets; an end taken away is checked as if it had stayed.
BeginMove(t) ==
  /\ MayBegin(t, "move")
  /\ \E a \in Assignments, s \in Shifts, from \in Days, to \in 1..Ever, active \in BOOLEAN :
       LET old == assignment[a]
           checked == IF to = Ever THEN old.to ELSE to IN
       /\ Live(a) /\ from <= checked
       /\ ~ LockedIn(old.from, old.to) /\ ~ Overlaps(from, checked, {a})
       /\ to = Ever /\ old.to # Ever => "loosen" \in scenario.ops
       /\ Go(t, [Resting EXCEPT !.pc = "save", !.id = a, !.loaded = old,
                   !.new = [old EXCEPT !.shift = s, !.from = from, !.to = to, !.active = active]])
  /\ UNCHANGED <<rows, crashes, scenario>>

\* Nothing keeps the new end before the old one, nor looks at other
\* assignments; an assignment that ended in the past is made inactive.
BeginEnd(t) ==
  /\ MayBegin(t, "end")
  /\ \E a \in Assignments, day \in Days :
       LET old == assignment[a] IN
       /\ Live(a) /\ old.from <= day /\ ~ LockedIn(day, old.to)
       /\ day > old.to => "loosen" \in scenario.ops
       /\ Go(t, [Resting EXCEPT !.pc = "save", !.id = a, !.loaded = old,
                   !.new = [old EXCEPT !.to = day, !.active = @ /\ day >= Today]])
  /\ UNCHANGED <<rows, crashes, scenario>>

BeginDelete(t) ==
  /\ MayBegin(t, "delete")
  /\ \E a \in Assignments :
       /\ Live(a) /\ ~ LockedIn(assignment[a].from, assignment[a].to)
       /\ Go(t, [Resting EXCEPT !.pc = "save", !.id = a, !.loaded = assignment[a],
                   !.new = [assignment[a] EXCEPT !.deleted = TRUE]])
  /\ UNCHANGED <<rows, crashes, scenario>>

SaveAssignment(t) ==
  LET me == task[t] IN
  /\ me.pc = "save"
  /\ assignment' = [assignment EXCEPT ![me.id] = Merged(me.loaded, me.new, @)]
  /\ Stop(t)
  /\ UNCHANGED <<default, attendance, pay, crashes, scenario>>

\* update_employee.
ChangeDefault ==
  /\ "default" \in scenario.ops
  /\ \E s \in (Shifts \cup {Missing}) \ {default} : default' = s
  /\ UNCHANGED <<assignment, attendance, pay, task, crashes, scenario>>

----------------------------------------------------------------------------
(* Compensation *)

\* check_overlapping_effective_dates
OverlapsPay(from, to, except) ==
  \E p \in Pays \ except : Owed(p) /\ pay[p].status \in {"Draft", "Active"} /\ Overlap(from, to, pay[p])

Offer(t, except) ==
  \E from \in Days, to \in 1..Ever :
    /\ from <= to /\ ~ OverlapsPay(from, to, except)
    /\ Go(t, [Resting EXCEPT !.pc = "insertPay", !.new =
                [status |-> "Draft", from |-> from, to |-> to, deleted |-> FALSE]])

BeginOffer(t) ==
  /\ MayBegin(t, "offer") /\ Offer(t, {})
  /\ UNCHANGED <<rows, crashes, scenario>>

\* The new one may overlap the one it revises, whose status does not matter.
BeginRevise(t) ==
  /\ MayBegin(t, "revise") /\ \E p \in Pays : Owed(p) /\ Offer(t, {p})
  /\ UNCHANGED <<rows, crashes, scenario>>

InsertPay(t) ==
  /\ task[t].pc = "insertPay"
  /\ \E p \in Pays : pay[p] = NoPay /\ pay' = [pay EXCEPT ![p] = task[t].new]
  /\ Stop(t)
  /\ UNCHANGED <<assignment, default, attendance, crashes, scenario>>

\* get_active_compensation: the Active one that starts last
ActivePay == {p \in Pays : Owed(p) /\ pay[p].status = "Active"}
LatestActive == {p \in ActivePay : \A q \in ActivePay : pay[q].from <= pay[p].from}

BeginActivate(t) ==
  /\ MayBegin(t, "activate")
  /\ \E p \in Pays :
       /\ Owed(p) /\ pay[p].status = "Draft"
       /\ LET me == [Resting EXCEPT !.pc = "activate", !.id = p] IN
          \/ ActivePay = {} /\ Go(t, me)
          \/ \E q \in LatestActive :
               Go(t, [me EXCEPT !.other = q, !.until = Max({pay[p].from - 1, pay[q].from})])
  /\ UNCHANGED <<rows, crashes, scenario>>

\* A mistaken WithActive: the one that was Active is cut short and stays Active.
WithActiveCutShort(id, other, until) ==
  [p \in Pays |-> IF p = id THEN [pay[p] EXCEPT !.status = "Active"]
                  ELSE IF p = other THEN [pay[p] EXCEPT !.to = until] ELSE pay[p]]

WithActive(id, other, until) ==
  [p \in Pays |-> IF p = id THEN [pay[p] EXCEPT !.status = "Active"]
                  ELSE IF p = other THEN [pay[p] EXCEPT !.status = "Expired", !.to = until] ELSE pay[p]]

\* Both are written in one commit.
Activate(t) ==
  /\ task[t].pc = "activate"
  /\ pay' = WithActive(task[t].id, task[t].other, task[t].until)
  /\ Stop(t)
  /\ UNCHANGED <<assignment, default, attendance, crashes, scenario>>

Keep(t, p, new) == Go(t, [Resting EXCEPT !.pc = "keep", !.id = p, !.loaded = pay[p], !.new = new])

BeginCancel(t) ==
  /\ MayBegin(t, "cancel")
  /\ \E p \in Pays : Owed(p) /\ Keep(t, p, [pay[p] EXCEPT !.status = "Cancelled"])
  /\ UNCHANGED <<rows, crashes, scenario>>

\* Drafts and the Active one; other compensations are not looked at.
BeginRedate(t) ==
  /\ MayBegin(t, "redate")
  /\ \E p \in Pays, from \in Days, to \in 1..Ever :
       /\ Owed(p) /\ pay[p].status \in {"Draft", "Active"}
       /\ from <= (IF to = Ever THEN pay[p].to ELSE to)
       /\ Keep(t, p, [pay[p] EXCEPT !.from = from, !.to = to])
  /\ UNCHANGED <<rows, crashes, scenario>>

BeginRemove(t) ==
  /\ MayBegin(t, "remove")
  /\ \E p \in Pays : Owed(p) /\ Keep(t, p, [pay[p] EXCEPT !.deleted = TRUE])
  /\ UNCHANGED <<rows, crashes, scenario>>

\* With the status it had.
BeginRestore(t) ==
  /\ MayBegin(t, "restore")
  /\ \E p \in Pays : pay[p] # NoPay /\ pay[p].deleted /\ Keep(t, p, [pay[p] EXCEPT !.deleted = FALSE])
  /\ UNCHANGED <<rows, crashes, scenario>>

KeepPay(t) ==
  LET me == task[t] IN
  /\ me.pc = "keep"
  /\ pay' = [pay EXCEPT ![me.id] = Merged(me.loaded, me.new, @)]
  /\ Stop(t)
  /\ UNCHANGED <<assignment, default, attendance, crashes, scenario>>

----------------------------------------------------------------------------
\* A handler is lost: what it has committed stays, the rest is forgotten.
Crash(t) ==
  /\ task[t].pc # "idle" /\ crashes < scenario.crashes
  /\ crashes' = crashes + 1 /\ Stop(t)
  /\ UNCHANGED <<rows, scenario>>

ShiftStep(t) ==
  \/ BeginAssign(t) \/ InsertAssignment(t) \/ BeginMove(t) \/ BeginEnd(t) \/ BeginDelete(t)
  \/ SaveAssignment(t)
DayStep(t) ==
  \/ BeginCheckIn(t) \/ FindRow(t) \/ BeginCheckOut(t) \/ BeginCorrect(t) \/ Figure(t)
  \/ WriteRow(t) \/ BeginLock(t) \/ LockRow(t)
PayStep(t) ==
  \/ BeginOffer(t) \/ BeginRevise(t) \/ InsertPay(t) \/ BeginActivate(t) \/ Activate(t)
  \/ BeginCancel(t) \/ BeginRedate(t) \/ BeginRemove(t) \/ BeginRestore(t) \/ KeepPay(t)

Next ==
  \/ \E t \in Tasks : ShiftStep(t) \/ DayStep(t) \/ PayStep(t) \/ Crash(t)
  \/ ChangeDefault
Spec == Init /\ [][Next]_vars

----------------------------------------------------------------------------
(* Properties *)

OneAtATime == scenario.width = 1

\* While handlers do not overlap, the assignments that are in force never share
\* a day, whatever is moved, ended or deleted: check_overlap is asked before
\* each commit that could make them.  end_assignment with a later end, and an
\* update that takes the end away, are not checked ("loosen").
ShiftsDisjoint ==
  OneAtATime /\ "loosen" \notin scenario.ops =>
    \A a, b \in Assignments :
      a # b /\ Live(a) /\ Live(b) /\ assignment[a].active /\ assignment[b].active =>
        ~ Overlap(assignment[a].from, assignment[a].to, assignment[b])

\* Attendance that payroll has locked is never unlocked by a handler that loaded
\* the row before the lock, for a commit writes the columns it changed; and only
\* such a handler still changes the row.
LockedStaysLocked ==
  [][\A d \in Days : attendance[d] # NoRow /\ attendance[d].locked =>
       /\ attendance'[d].locked
       /\ attendance'[d] # attendance[d] =>
            \E t \in Tasks : task[t].pc = "write" /\ task[t].day = d /\ ~ task[t].loaded.locked]_vars

\* While handlers do not overlap, an employee has at most one Active
\* compensation: activation expires the other in the same commit, however
\* drafts were revised, cancelled or redated.  restore_compensation brings an
\* Active one back beside another ("restore").
OneActivePay == OneAtATime /\ "restore" \notin scenario.ops => Cardinality(ActivePay) <= 1

=============================================================================
