--------------------------- MODULE WorkforceProofs ---------------------------
(***************************************************************************)
(* Proofs about Workforce for any sets of handlers, shifts, assignments and *)
(* compensations, any calendar, clock and scenarios; then about what runs  *)
(* beside it, PayrollPeriod and MasterData.                                *)
(***************************************************************************)
EXTENDS WorkforceAndPayroll, FiniteSetTheorems, NaturalsInduction, TLAPS

Stages == {"idle", "find", "figure", "write", "lock", "insert", "save", "insertPay",
           "activate", "keep"}

\* What a handler holds between two awaits.
Load == Row \cup {NoRow} \cup Assignment \cup Pay \cup [in: Clock]
Me == [pc: Stages, day: 0..LastDay, id: Assignments \cup Pays \cup {Missing, "Present"},
       shift: Shifts \cup {Missing}, loaded: Load, new: Load, other: Pays \cup {Missing},
       until: 1..Ever \cup {0}, todo: SUBSET Days]

RowsTyped ==
  /\ assignment \in [Assignments -> Assignment \cup {NoAssignment}]
  /\ default \in Shifts \cup {Missing}
  /\ attendance \in [Days -> Row \cup {NoRow}]
  /\ pay \in [Pays -> Pay \cup {NoPay}]

\* What a handler knows of the rows it works on: the attendance it has loaded
\* was not locked, and no row it looked at goes away.
Known(me) ==
  /\ me.pc \in {"find", "figure", "write"} => me.day \in Days
  /\ me.pc = "find" => me.new \in [in: Clock]
  /\ me.pc = "figure" => me.id \in DayStatus \cup {Missing}
  /\ me.pc \in {"figure", "write"} =>
       /\ me.new \in Row /\ ~ me.new.locked
       /\ me.loaded \in Row \cup {NoRow}
       /\ me.loaded \in Row => ~ me.loaded.locked /\ attendance[me.day] \in Row
  /\ me.pc = "lock" => \A d \in me.todo : attendance[d] \in Row
  /\ me.pc = "insert" => me.new \in Assignment
  /\ me.pc = "save" =>
       /\ me.id \in Assignments /\ me.loaded \in Assignment /\ me.new \in Assignment
       /\ assignment[me.id] \in Assignment
  /\ me.pc = "insertPay" => me.new \in Pay /\ me.new.status = "Draft"
  /\ me.pc = "activate" =>
       /\ me.id \in Pays /\ pay[me.id] \in Pay
       /\ me.other # Missing => pay[me.other] \in Pay /\ me.until \in 1..Ever
  /\ me.pc = "keep" =>
       /\ me.id \in Pays /\ me.loaded \in Pay /\ me.new \in Pay /\ pay[me.id] \in Pay

\* A handler that runs alone finds the row it loaded as it loaded it.
Current(me) ==
  /\ me.pc = "save" => assignment[me.id] = me.loaded
  /\ me.pc = "keep" => pay[me.id] = me.loaded

InForce(a) == Live(a) /\ assignment[a].active
Apart(new, others) ==
  \A b \in others : InForce(b) => ~ Overlap(new.from, new.to, assignment[b])

\* What a handler is about to put in force shares no day with the others.
Clear(me) ==
  /\ me.pc = "insert" => Apart(me.new, Assignments)
  /\ me.pc = "save" /\ ~ me.new.deleted /\ me.new.active => Apart(me.new, Assignments \ {me.id})

OnePay == \A p, q \in ActivePay : p = q

\* What a handler is about to write leaves one Active compensation at most.
Single(me) ==
  /\ me.pc = "activate" => \A q \in ActivePay : q = me.other
  /\ me.pc = "keep" /\ ~ me.new.deleted /\ me.new.status = "Active" => me.id \in ActivePay

Strict == OneAtATime /\ "loosen" \notin scenario.ops
Firm   == OneAtATime /\ "restore" \notin scenario.ops

Ready(me) ==
  /\ Known(me)
  /\ OneAtATime => Current(me)
  /\ Strict => Clear(me)
  /\ Firm => Single(me)

Alone == OneAtATime => \A t, u \in Tasks : task[t].pc # "idle" /\ task[u].pc # "idle" => t = u

IInv ==
  /\ RowsTyped /\ scenario \in Scenarios /\ crashes \in 0..scenario.crashes
  /\ task \in [Tasks -> Me]
  /\ \A t \in Tasks : Ready(task[t])
  /\ Alone /\ ShiftsDisjoint /\ (Firm => OnePay)

----------------------------------------------------------------------------
(* Rows *)

\* The marks of a row that is not there are no rows.
LEMMA NoRows == NoRow \notin Row /\ NoPay \notin Pay /\ NoAssignment \notin Assignment
<1>1. NoRow \notin Row
  <2> SUFFICES ASSUME NoRow \in Row PROVE FALSE
    OBVIOUS
  <2>1. DOMAIN NoRow = {"in"} BY DEF NoRow
  <2>2. "out" \in DOMAIN NoRow BY DEF Row
  <2> QED BY <2>1, <2>2
<1>2. NoPay \notin Pay
  BY DEF NoPay, Pay, Missing
<1>3. NoAssignment \notin Assignment
  BY DEF NoAssignment, Assignment, Days
<1> QED
  BY <1>1, <1>2, <1>3

\* A commit of changed columns leaves an assignment (SQLAlchemy writes what
\* differs).
LEMMA MergedAssignment ==
  ASSUME NEW loaded \in Assignment, NEW new \in Assignment, NEW current \in Assignment
  PROVE  /\ Merged(loaded, new, current) \in Assignment
         /\ loaded = current => Merged(loaded, new, current) = new
<1> DEFINE F == {"shift", "from", "to", "active", "deleted"}
<1>1. DOMAIN new = F /\ DOMAIN loaded = F /\ DOMAIN current = F
  BY DEF Assignment
<1>2. Merged(loaded, new, current) =
        [f \in F |-> IF f \in F /\ new[f] = loaded[f] THEN current[f] ELSE new[f]]
  BY <1>1 DEF Merged
<1>3. Merged(loaded, new, current) \in Assignment
  BY <1>2 DEF Assignment
<1>4. ASSUME loaded = current PROVE Merged(loaded, new, current) = new
  <2>1. new = [f \in F |-> new[f]]
    BY <1>1 DEF Assignment
  <2> QED BY <1>1, <1>2, <1>4, <2>1
<1> QED
  BY <1>3, <1>4

\* A commit of changed columns leaves a compensation.
LEMMA MergedPay ==
  ASSUME NEW loaded \in Pay, NEW new \in Pay, NEW current \in Pay
  PROVE  /\ Merged(loaded, new, current) \in Pay
         /\ loaded = current => Merged(loaded, new, current) = new
<1> DEFINE F == {"status", "from", "to", "deleted"}
<1>1. DOMAIN new = F /\ DOMAIN loaded = F /\ DOMAIN current = F
  BY DEF Pay
<1>2. Merged(loaded, new, current) =
        [f \in F |-> IF f \in F /\ new[f] = loaded[f] THEN current[f] ELSE new[f]]
  BY <1>1 DEF Merged
<1>3. Merged(loaded, new, current) \in Pay
  BY <1>2 DEF Pay
<1>4. ASSUME loaded = current PROVE Merged(loaded, new, current) = new
  <2>1. new = [f \in F |-> new[f]]
    BY <1>1 DEF Pay
  <2> QED BY <1>1, <1>2, <1>4, <2>1
<1> QED
  BY <1>3, <1>4

\* A commit of changed columns leaves an attendance row, and the lock of the
\* stored one unless the handler itself changed the lock.
LEMMA MergedRow ==
  ASSUME NEW loaded \in Row, NEW new \in Row, NEW current \in Row
  PROVE  /\ Merged(loaded, new, current) \in Row
         /\ new.locked = loaded.locked => Merged(loaded, new, current).locked = current.locked
<1> DEFINE F == {"in", "out", "rest", "shift", "status", "worked", "expected", "late", "early",
                 "corrected", "locked"}
<1>1. DOMAIN new = F /\ DOMAIN loaded = F /\ DOMAIN current = F
  BY DEF Row
<1>2. Merged(loaded, new, current) =
        [f \in F |-> IF f \in F /\ new[f] = loaded[f] THEN current[f] ELSE new[f]]
  BY <1>1 DEF Merged
<1>3. Merged(loaded, new, current) \in Row
  BY <1>2 DEF Row
<1>4. new.locked = loaded.locked => Merged(loaded, new, current).locked = current.locked
  BY <1>2
<1> QED
  BY <1>3, <1>4

----------------------------------------------------------------------------
(* The attendance engine *)

\* An instant of the clock falls on one of the days.
LEMMA DayOfClock == \A time \in Clock : DayOf(time) \in Days
<1> SUFFICES ASSUME NEW time \in Clock PROVE DayOf(time) \in Days
  OBVIOUS
<1> DEFINE q == time \div DayLength
<1>1. /\ LastDay \in Nat \ {0} /\ DayLength \in Nat \ {0}
      /\ time \in Nat /\ time < LastDay * DayLength
  BY WorkforceAssumption
<1>2. q \in Nat /\ q * DayLength <= time
  BY <1>1
<1>3. q < LastDay
  <2> SUFFICES ASSUME q >= LastDay PROVE FALSE
    BY <1>1, <1>2
  <2>1. q * DayLength >= LastDay * DayLength
    BY <1>1, <1>2
  <2> HIDE DEF q
  <2> QED
    BY <1>1, <1>2, <2>1
<1> HIDE DEF q
<1>4. q + 1 \in 1..LastDay
  BY <1>1, <1>2, <1>3
<1> QED
  BY <1>4 DEF DayOf, Days, q

\* The largest of two numbers.
LEMMA MaxOfTwo ==
  ASSUME NEW a \in Int, NEW b \in Int
  PROVE  /\ Max({a, b}) \in {a, b} /\ Max({a, b}) >= a /\ Max({a, b}) >= b
<1>1. \E x \in {a, b} : \A y \in {a, b} : x >= y
  <2>1. CASE a >= b BY <2>1
  <2>2. CASE ~ (a >= b) BY <2>2
  <2> QED BY <2>1, <2>2
<1>2. Max({a, b}) \in {a, b} /\ \A y \in {a, b} : Max({a, b}) >= y
  BY <1>1 DEF Max
<1> QED
  BY <1>2

\* What is left of a number above zero (max(0, ...)).
LEMMA PositivePart == ASSUME NEW n \in Int PROVE Max({0, n}) \in Nat
<1>1. Max({0, n}) \in {0, n} /\ Max({0, n}) >= 0
  BY MaxOfTwo
<1> QED
  BY <1>1

\* The figures of a row are figures (calculate_attendance).
LEMMA CalculatedType ==
  ASSUME NEW d \in Days, NEW row \in Row, NEW shift \in Shifts \cup {Missing}
  PROVE  /\ Calculated(d, row, shift) \in Row
         /\ Calculated(d, row, shift).locked = row.locked
<1> DEFINE r == Rule[shift]
<1>1. /\ r.start \in Nat /\ r.start < DayLength /\ r.end \in Nat /\ r.end < DayLength
      /\ r.rest \in Nat /\ r.grace \in Nat /\ r.least \in Nat /\ DayLength \in Nat
  BY WorkforceAssumption
<1>2. row.in \in Int /\ row.out \in Int /\ row.rest \in Nat /\ d \in Int
  <2>1. \A time \in Clock : time \in Int
    BY WorkforceAssumption
  <2>2. d \in Int
    BY WorkforceAssumption DEF Days
  <2> QED BY <2>1, <2>2 DEF Row, Never
<1> HIDE DEF r
<1>3. Length(r) \in Nat
  BY <1>1 DEF Length, Overnight
<1>4. DayStart(d) \in Int
  BY <1>1, <1>2 DEF DayStart
<1>5. ShiftStart(d, r) \in Int /\ ShiftEnd(d, r) \in Int
  BY <1>1, <1>3, <1>4 DEF ShiftStart, ShiftEnd
<1>6. Worked(row.in, row.out, row.rest) \in Nat
  <2>1. row.out - row.in \in Int BY <1>2
  <2>2. Max({0, row.out - row.in}) \in Nat BY <2>1, PositivePart
  <2>3. Max({0, row.out - row.in}) - row.rest \in Int BY <1>2, <2>2
  <2>4. Max({0, Max({0, row.out - row.in}) - row.rest}) \in Nat BY <2>3, PositivePart
  <2> QED BY <2>4 DEF Worked
<1>7. Expected(d, r) \in Nat
  <2>1. Length(r) - r.rest \in Int BY <1>1, <1>3
  <2>2. Max({0, Length(r) - r.rest}) \in Nat BY <2>1, PositivePart
  <2> QED BY <2>2 DEF Expected
<1>8. LateBy(d, row.in, r) \in Nat /\ EarlyBy(d, row.out, r) \in Nat
  BY <1>1, <1>2, <1>5 DEF LateBy, EarlyBy
<1>9. StatusOf(d, row.in, row.out, row.rest, r) \in DayStatus
  <2>1. \A e \in DOMAIN DaysOff : DaysOff[e] \in DayStatus
    BY WorkforceAssumption DEF DayStatus
  <2> QED BY <2>1 DEF StatusOf, DayStatus
<1> QED
  BY <1>6, <1>7, <1>8, <1>9 DEF Calculated, Row, r

\* What a check-in leaves to be written is a row that is not locked.
LEMMA CheckedInType ==
  ASSUME NEW d \in Days, NEW row \in Row \cup {NoRow}, NEW time \in Clock,
         NEW shift \in Shifts \cup {Missing}, row \in Row => ~ row.locked
  PROVE  CheckedIn(row, time, shift, d) \in Row /\ ~ CheckedIn(row, time, shift, d).locked
<1>1. CASE row = NoRow
  <2>1. FirstRow(time, shift) \in Row /\ ~ FirstRow(time, shift).locked
    BY DEF FirstRow, Row, DayStatus
  <2> QED BY <1>1, <2>1, CalculatedType DEF CheckedIn
<1>2. CASE row \in Row
  <2> DEFINE new == [row EXCEPT !.in = time, !.shift = IF shift = Missing THEN @ ELSE shift]
  <2>1. new \in Row /\ ~ new.locked
    BY <1>2 DEF Row
  <2>2. CheckedIn(row, time, shift, d) = Calculated(d, new, shift)
    BY <1>2, NoRows DEF CheckedIn
  <2> HIDE DEF new
  <2> QED BY <2>1, <2>2, CalculatedType
<1> QED
  BY <1>1, <1>2

\* resolve_shift_for_date finds a shift or none.
LEMMA ResolutionsType ==
  ASSUME RowsTyped, NEW d PROVE Resolutions(d) \subseteq Shifts \cup {Missing}
<1>1. \A a \in Assignments : Live(a) => assignment[a].shift \in Shifts
  BY DEF RowsTyped, Live, NoAssignment, Assignment
<1> QED
  BY <1>1 DEF Resolutions, Holding, RowsTyped

----------------------------------------------------------------------------
(* A step of one handler *)

\* No row goes away.
RowsStay ==
  /\ \A a \in Assignments : assignment[a] \in Assignment => assignment'[a] \in Assignment
  /\ \A d \in Days : attendance[d] \in Row => attendance'[d] \in Row
  /\ \A p \in Pays : pay[p] \in Pay => pay'[p] \in Pay

OthersIdle(t) == \A u \in Tasks \ {t} : task[u].pc = "idle"

\* A handler at rest knows nothing.
LEMMA RestingReady == Resting \in Me /\ Ready(Resting) /\ Resting.pc = "idle"
BY WorkforceAssumption DEF Resting, Me, Stages, Load, Ready, Known, Current, Clear, Single, Ever

\* What one handler does leaves the others ready.
LEMMA Moves ==
  ASSUME IInv, NEW t \in Tasks, NEW me \in Me, Go(t, me), Ready(me)',
         RowsTyped', RowsStay, ShiftsDisjoint', (Firm => OnePay)',
         scenario' = scenario, crashes' \in 0..scenario.crashes,
         OneAtATime => OthersIdle(t)
  PROVE  IInv'
<1>1. task' = [task EXCEPT ![t] = me] /\ task \in [Tasks -> Me]
  BY DEF Go, IInv
<1>2. task' \in [Tasks -> Me] /\ task'[t] = me /\ \A u \in Tasks \ {t} : task'[u] = task[u]
  BY <1>1
<1>3. ASSUME NEW u \in Tasks \ {t} PROVE Ready(task[u])'
  <2>1. Ready(task[u]) /\ task'[u] = task[u] /\ task[u] \in Me
    BY <1>1, <1>2 DEF IInv
  <2> DEFINE you == task[u]
  <2>2. Known(you)'
    <3>1. Known(you) BY <2>1 DEF Ready
    <3>2. \A d \in you.todo : d \in Days BY <2>1 DEF Me
    <3>3. you.other # Missing => you.other \in Pays BY <2>1 DEF Me
    <3> QED BY <2>1, <3>1, <3>2, <3>3 DEF Known, RowsStay
  <2>3. OneAtATime => you.pc = "idle"
    BY DEF OthersIdle
  <2>4. (OneAtATime => Current(you))'
    BY <2>1, <2>3 DEF Current, OneAtATime
  <2>5. (Strict => Clear(you))'
    BY <2>1, <2>3 DEF Clear, OneAtATime, Strict
  <2>6. (Firm => Single(you))'
    BY <2>1, <2>3 DEF Single, OneAtATime, Firm
  <2> QED
    BY <2>2, <2>4, <2>5, <2>6 DEF Ready
<1>4. \A u \in Tasks : Ready(task[u])'
  <2>1. Ready(task[t])'
    BY <1>2 DEF Ready, Known, Current, Clear, Single
  <2> QED
    BY <1>3, <2>1
<1>5. Alone'
  BY <1>2 DEF Alone, OneAtATime, OthersIdle
<1> QED
  BY <1>2, <1>4, <1>5 DEF IInv

\* What one handler prepares leaves the rows and the others alone.
LEMMA Prepares ==
  ASSUME IInv, NEW t \in Tasks, NEW me \in Me, Go(t, me), Ready(me),
         UNCHANGED <<rows, crashes, scenario>>, OneAtATime => OthersIdle(t)
  PROVE  IInv'
<1>1. /\ assignment' = assignment /\ default' = default /\ attendance' = attendance
      /\ pay' = pay /\ crashes' = crashes /\ scenario' = scenario
  BY DEF rows
<1>2. RowsTyped' /\ RowsStay
  BY <1>1 DEF IInv, RowsTyped, RowsStay
<1>3. ShiftsDisjoint' /\ (Firm => OnePay)'
  BY <1>1 DEF IInv, ShiftsDisjoint, OneAtATime, Live, Firm, OnePay, ActivePay, Owed
<1>4. Ready(me)'
  BY <1>1 DEF Ready, Known, Current, Clear, Single, OneAtATime, Strict, Firm, Apart, InForce, Live,
              ActivePay, Owed
<1>5. crashes' \in 0..scenario.crashes
  BY <1>1 DEF IInv
<1> QED
  BY <1>1, <1>2, <1>3, <1>4, <1>5, Moves

\* A handler that begins alone is the only one.
LEMMA BeginsAlone ==
  ASSUME IInv, NEW t \in Tasks, NEW op, MayBegin(t, op)
  PROVE  (OneAtATime => OthersIdle(t)) /\ op \in scenario.ops
<1> DEFINE B == {u \in Tasks : task[u].pc # "idle"}
<1>1. ASSUME OneAtATime PROVE B = {}
  <2>1. IsFiniteSet(B)
    BY WorkforceAssumption, FS_Subset
  <2>2. Cardinality(B) < 1 /\ Cardinality(B) \in Nat
    BY <1>1, <2>1, FS_CardinalityType DEF MayBegin, OneAtATime
  <2> QED
    BY <2>1, <2>2, FS_EmptySet
<1> QED
  BY <1>1 DEF OthersIdle, MayBegin

\* A handler that goes on is the only one if one runs at a time.
LEMMA GoesOnAlone ==
  ASSUME IInv, NEW t \in Tasks, task[t].pc # "idle"
  PROVE  OneAtATime => OthersIdle(t)
BY DEF IInv, Alone, OthersIdle

\* Instants asked for are on the clock.
LEMMA ClockOfScenario == IInv => scenario.clock \subseteq Clock
BY WorkforceAssumption DEF IInv, Scenario

\* A handler that has found the shift to work with is ready to go on.
LEMMA Attends ==
  ASSUME IInv, NEW t \in Tasks, OneAtATime => OthersIdle(t), NEW me \in Me,
         NEW next \in {"find", "figure"}, Known([me EXCEPT !.pc = next]),
         \/ \E s \in Shifts : Go(t, [me EXCEPT !.shift = s, !.pc = next])
         \/ Resolve(t, me, next),
         UNCHANGED <<rows, crashes, scenario>>
  PROVE  IInv'
<1>1. PICK s \in Shifts \cup {Missing} : Go(t, [me EXCEPT !.shift = s, !.pc = next])
  <2>1. Resolutions(me.day) \subseteq Shifts \cup {Missing}
    BY ResolutionsType DEF IInv
  <2> QED BY <2>1 DEF Resolve
<1> DEFINE you == [me EXCEPT !.shift = s, !.pc = next]
<1>2. you \in Me
  BY DEF Me, Stages
<1>3. Ready(you)
  BY DEF Known, Ready, Current, Clear, Single, Me
<1> QED
  BY <1>1, <1>2, <1>3, Prepares

\* A check-in finds its shift (process_check_in).
LEMMA CheckInStep ==
  ASSUME IInv, NEW t \in Tasks, BeginCheckIn(t) PROVE IInv'
<1>1. OneAtATime => OthersIdle(t)
  <2>1. MayBegin(t, "in")
    BY DEF BeginCheckIn
  <2> QED
    BY <2>1, BeginsAlone
<1>2. PICK time \in scenario.clock, s \in Shifts \cup {Missing} :
        LET me == [Resting EXCEPT !.day = DayOf(time), !.new = [in |-> time]] IN
        IF s # Missing THEN Go(t, [me EXCEPT !.shift = s, !.pc = "find"]) ELSE Resolve(t, me, "find")
  BY DEF BeginCheckIn
<1> DEFINE me == [Resting EXCEPT !.day = DayOf(time), !.new = [in |-> time]]
<1>3. time \in Clock /\ DayOf(time) \in Days
  BY ClockOfScenario, DayOfClock
<1>4. me \in Me /\ Known([me EXCEPT !.pc = "find"])
  <2>1. [in |-> time] \in [in: Clock] /\ [in |-> time] \in Load
    BY <1>3 DEF Load
  <2>2. Resting \in Me
    BY RestingReady
  <2>3. DayOf(time) \in 0..LastDay
    BY <1>3 DEF Days
  <2>4. me \in Me
    BY <2>1, <2>2, <2>3 DEF Me
  <2> QED BY <1>3, <2>1, <2>4 DEF Resting, Known
<1>5. \/ \E z \in Shifts : Go(t, [me EXCEPT !.shift = z, !.pc = "find"])
      \/ Resolve(t, me, "find")
  BY <1>2
<1> HIDE DEF me
<1> QED
  BY <1>1, <1>4, <1>5, Attends DEF BeginCheckIn

\* Rework is one of the two ways of Attends.
LEMMA ReworkStep ==
  ASSUME IInv, NEW t \in Tasks, OneAtATime => OthersIdle(t), NEW me \in Me,
         Known([me EXCEPT !.pc = "figure"]), me.loaded \in Row, Rework(t, me),
         UNCHANGED <<rows, crashes, scenario>>
  PROVE  IInv'
<1>1. CASE me.loaded.shift # Missing
  <2>1. me.loaded.shift \in Shifts
    BY <1>1 DEF Row
  <2>2. \E s \in Shifts : Go(t, [me EXCEPT !.shift = s, !.pc = "figure"])
    BY <1>1, <2>1 DEF Rework
  <2> QED BY <2>2, Attends
<1>2. CASE me.loaded.shift = Missing
  BY <1>2, Attends DEF Rework
<1> QED
  BY <1>1, <1>2

\* A check-out loads a row that is not locked (process_check_out).
LEMMA CheckOutStep ==
  ASSUME IInv, NEW t \in Tasks, BeginCheckOut(t) PROVE IInv'
<1>1. OneAtATime => OthersIdle(t)
  BY BeginsAlone DEF BeginCheckOut
<1>2. PICK time \in scenario.clock, rest \in {0, 1} : \E d \in RowFor(time) :
        /\ ~ attendance[d].locked
        /\ Rework(t, [Resting EXCEPT !.day = d, !.loaded = attendance[d],
                        !.new = [attendance[d] EXCEPT !.out = time, !.rest = rest]])
  BY DEF BeginCheckOut
<1>3. PICK d \in RowFor(time) :
        /\ ~ attendance[d].locked
        /\ Rework(t, [Resting EXCEPT !.day = d, !.loaded = attendance[d],
                        !.new = [attendance[d] EXCEPT !.out = time, !.rest = rest]])
  BY <1>2
<1>4. time \in Clock /\ DayOf(time) \in Days
  BY ClockOfScenario, DayOfClock
<1>5. d \in Days /\ attendance[d] # NoRow
  <2>1. LastDay \in Nat BY WorkforceAssumption
  <2> QED BY <1>4, <2>1 DEF RowFor, Days
<1>6. attendance[d] \in Row
  BY <1>5 DEF IInv, RowsTyped
<1> DEFINE new == [attendance[d] EXCEPT !.out = time, !.rest = rest]
           me == [Resting EXCEPT !.day = d, !.loaded = attendance[d], !.new = new]
<1>7. new \in Row /\ ~ new.locked
  BY <1>3, <1>4, <1>6 DEF Row
<1> HIDE DEF new
<1>8. me \in Me /\ me.loaded \in Row
  <2>1. attendance[d] \in Load /\ new \in Load
    BY <1>6, <1>7 DEF Load
  <2>2. Resting \in Me /\ d \in 0..LastDay
    BY <1>5, RestingReady DEF Days
  <2>3. me \in Me
    BY <2>1, <2>2 DEF Me
  <2> QED BY <1>6, <2>3 DEF Resting
<1>9. Known([me EXCEPT !.pc = "figure"])
  BY <1>3, <1>5, <1>6, <1>7 DEF Resting, Known
<1>10. Rework(t, me)
  BY <1>3 DEF new
<1> HIDE DEF me
<1> QED
  BY <1>1, <1>8, <1>9, <1>10, ReworkStep DEF BeginCheckOut

\* A correction loads a row that is not locked (correct_attendance).
LEMMA CorrectStep ==
  ASSUME IInv, NEW t \in Tasks, BeginCorrect(t) PROVE IInv'
<1>1. OneAtATime => OthersIdle(t)
  <2>1. MayBegin(t, "correct")
    BY DEF BeginCorrect
  <2> QED
    BY <2>1, BeginsAlone
<1>2. PICK d \in Days, in, out \in scenario.clock \cup {Never}, s \in {Missing, "Present"} :
        /\ attendance[d] # NoRow /\ ~ attendance[d].locked
        /\ Never \in {in, out} \/ in <= out
        /\ Rework(t, [Resting EXCEPT !.day = d, !.loaded = attendance[d], !.id = s,
                        !.new = [attendance[d] EXCEPT !.in = IF in = Never THEN @ ELSE in,
                                   !.out = IF out = Never THEN @ ELSE out, !.corrected = TRUE]])
  BY Zenon DEF BeginCorrect
<1>3. in \in Clock \cup {Never} /\ out \in Clock \cup {Never}
  BY ClockOfScenario
<1>4. attendance[d] \in Row
  BY <1>2 DEF IInv, RowsTyped
<1> DEFINE new == [attendance[d] EXCEPT !.in = IF in = Never THEN @ ELSE in,
                     !.out = IF out = Never THEN @ ELSE out, !.corrected = TRUE]
           me == [Resting EXCEPT !.day = d, !.loaded = attendance[d], !.id = s, !.new = new]
<1>5. new \in Row /\ ~ new.locked
  BY <1>2, <1>3, <1>4 DEF Row
<1> HIDE DEF new
<1>6. me \in Me /\ me.loaded \in Row
  <2>1. attendance[d] \in Load /\ new \in Load
    BY <1>4, <1>5 DEF Load
  <2>2. Resting \in Me /\ d \in 0..LastDay
    BY RestingReady DEF Days
  <2>3. me \in Me
    BY <2>1, <2>2 DEF Me
  <2> QED BY <1>4, <2>3 DEF Resting
<1>7. Known([me EXCEPT !.pc = "figure"])
  BY <1>2, <1>4, <1>5 DEF Resting, Known, DayStatus
<1>8. Rework(t, me)
  BY <1>2 DEF new
<1> HIDE DEF me
<1> QED
  BY <1>1, <1>6, <1>7, <1>8, ReworkStep DEF BeginCorrect

\* A check-in finds its row, or a row that is locked and gives up.
LEMMA FindRowStep ==
  ASSUME IInv, NEW t \in Tasks, FindRow(t) PROVE IInv'
<1> DEFINE me == task[t]
           row == attendance[me.day]
           you == [me EXCEPT !.pc = "write", !.loaded = row,
                     !.new = CheckedIn(row, me.new.in, me.shift, me.day)]
<1>1. me \in Me /\ Known(me) /\ me.pc = "find"
  BY DEF IInv, Ready, FindRow
<1>2. OneAtATime => OthersIdle(t)
  BY <1>1, GoesOnAlone
<1>3. me.day \in Days /\ me.new.in \in Clock /\ me.shift \in Shifts \cup {Missing}
      /\ row \in Row \cup {NoRow}
  BY <1>1 DEF Known, Me, IInv, RowsTyped
<1>4. CASE row # NoRow /\ row.locked
  <2>1. Go(t, Resting)
    BY <1>4 DEF FindRow, Stop
  <2> QED BY <1>2, <2>1, RestingReady, Prepares DEF FindRow
<1>5. CASE ~ (row # NoRow /\ row.locked)
  <2> DEFINE new == CheckedIn(row, me.new.in, me.shift, me.day)
  <2>1. new \in Row /\ ~ new.locked
    <3>1. row \in Row => ~ row.locked
      BY <1>5, NoRows
    <3> QED BY <1>3, <3>1, CheckedInType
  <2>2. Go(t, you)
    BY <1>5 DEF FindRow
  <2>3. row \in Row => ~ row.locked
    BY <1>5, NoRows
  <2> HIDE DEF new, row
  <2>4. you \in Me
    BY <1>1, <1>3, <2>1 DEF Me, Stages, Load, new
  <2>5. Ready(you)
    <3>1. Known(you)
      BY <1>1, <1>3, <2>1, <2>3 DEF Me, Known, new, row
    <3> QED BY <1>1, <3>1 DEF Me, Ready, Current, Clear, Single
  <2> HIDE DEF you
  <2> QED BY <1>2, <2>2, <2>4, <2>5, Prepares DEF FindRow
<1> QED
  BY <1>4, <1>5

\* The figures are worked out, and the corrector's status put over them.
LEMMA FigureStep ==
  ASSUME IInv, NEW t \in Tasks, Figure(t) PROVE IInv'
<1> DEFINE me == task[t]
           new == Calculated(me.day, me.new, me.shift)
           final == IF me.id = Missing THEN new ELSE [new EXCEPT !.status = me.id]
           you == [me EXCEPT !.pc = "write", !.new = final]
<1>1. me \in Me /\ Known(me) /\ me.pc = "figure"
  BY DEF IInv, Ready, Figure
<1>2. OneAtATime => OthersIdle(t)
  BY <1>1, GoesOnAlone
<1>3. new \in Row /\ ~ new.locked
  BY <1>1, CalculatedType DEF Known, Me
<1> HIDE DEF new
<1>4. final \in Row /\ ~ final.locked
  BY <1>1, <1>3 DEF Known, Row
<1>5. Go(t, you)
  BY DEF Figure, new
<1> HIDE DEF final
<1>6. you \in Me
  BY <1>1, <1>4 DEF Me, Stages, Load
<1>7. Ready(you)
  <2>1. Known(you)
    BY <1>1, <1>4 DEF Me, Known
  <2> QED BY <1>1, <2>1 DEF Me, Ready, Current, Clear, Single
<1> HIDE DEF you
<1> QED
  BY <1>2, <1>5, <1>6, <1>7, Prepares DEF Figure

\* Attendance is all that a step changes besides the handler.
LEMMA Attended ==
  ASSUME IInv, NEW t \in Tasks, task[t].pc # "idle", NEW me \in Me, Go(t, me), Ready(me)',
         attendance' \in [Days -> Row \cup {NoRow}],
         \A d \in Days : attendance[d] \in Row => attendance'[d] \in Row,
         UNCHANGED <<assignment, default, pay, crashes, scenario>>
  PROVE  IInv'
<1>1. RowsTyped' /\ RowsStay
  BY DEF IInv, RowsTyped, RowsStay
<1>2. ShiftsDisjoint' /\ (Firm => OnePay)'
  BY DEF IInv, ShiftsDisjoint, OneAtATime, Live, Firm, OnePay, ActivePay, Owed
<1>3. crashes' \in 0..scenario.crashes /\ scenario' = scenario
  BY DEF IInv
<1> QED
  BY <1>1, <1>2, <1>3, GoesOnAlone, Moves

\* The commit of an attendance row: the row stays typed and there.
LEMMA WriteRowStep ==
  ASSUME IInv, NEW t \in Tasks, WriteRow(t) PROVE IInv'
<1> DEFINE me == task[t]
           row == attendance[me.day]
<1>1. Known(me) /\ me.pc = "write"
  BY DEF IInv, Ready, WriteRow
<1>2. /\ me.day \in Days /\ me.new \in Row /\ me.loaded \in Row \cup {NoRow}
      /\ me.loaded \in Row => row \in Row
      /\ row \in Row \cup {NoRow}
  BY <1>1 DEF Known, IInv, RowsTyped
<1>3. \E new \in Row \cup {NoRow} :
        /\ attendance' = [attendance EXCEPT ![me.day] = new]
        /\ row \in Row => new \in Row
  <2>1. CASE me.loaded # NoRow
    <3>1. Merged(me.loaded, me.new, row) \in Row
      BY <1>2, <2>1, MergedRow
    <3>2. attendance' = [attendance EXCEPT ![me.day] = Merged(me.loaded, me.new, row)]
      BY <2>1 DEF WriteRow
    <3> QED BY <3>1, <3>2
  <2>2. CASE me.loaded = NoRow /\ row = NoRow
    BY <1>2, <2>2 DEF WriteRow
  <2>3. CASE me.loaded = NoRow /\ row # NoRow
    <3>1. attendance' = attendance
      BY <2>3 DEF WriteRow
    <3>2. attendance' = [attendance EXCEPT ![me.day] = row]
      BY <3>1 DEF IInv, RowsTyped
    <3> QED BY <1>2, <3>2
  <2> QED BY <2>1, <2>2, <2>3
<1>4. /\ attendance' \in [Days -> Row \cup {NoRow}]
      /\ \A d \in Days : attendance[d] \in Row => attendance'[d] \in Row
  BY <1>2, <1>3 DEF IInv, RowsTyped
<1>5. Ready(Resting)'
  BY DEF Resting, Ready, Known, Current, Clear, Single
<1> QED
  BY <1>1, <1>4, <1>5, RestingReady, Attended DEF WriteRow, Stop

\* The rows that payroll is about to lock are there.
LEMMA BeginLockStep ==
  ASSUME IInv, NEW t \in Tasks, BeginLock(t) PROVE IInv'
<1>1. OneAtATime => OthersIdle(t)
  BY BeginsAlone DEF BeginLock
<1>2. PICK S \in SUBSET {d \in Days : attendance[d] # NoRow} :
        Go(t, [Resting EXCEPT !.pc = "lock", !.todo = {d \in S : ~ attendance[d].locked}])
  BY DEF BeginLock
<1> DEFINE T == {d \in S : ~ attendance[d].locked}
           me == [Resting EXCEPT !.pc = "lock", !.todo = T]
<1>3. T \subseteq Days /\ \A d \in T : attendance[d] \in Row
  BY DEF IInv, RowsTyped
<1>4. Go(t, me)
  BY <1>2
<1> HIDE DEF T
<1>5. me \in Me
  BY <1>3, RestingReady DEF Me, Resting, Stages
<1>6. Ready(me)
  BY <1>3 DEF Ready, Known, Current, Clear, Single, Resting
<1> HIDE DEF me
<1> QED
  BY <1>1, <1>4, <1>5, <1>6, Prepares DEF BeginLock

\* One row is locked and committed, the rest is still to do.
LEMMA LockRowStep ==
  ASSUME IInv, NEW t \in Tasks, LockRow(t) PROVE IInv'
<1> DEFINE me == task[t]
<1>1. me \in Me /\ Known(me) /\ me.pc = "lock"
  BY DEF IInv, Ready, LockRow
<1>2. PICK d \in me.todo :
        /\ attendance' = [attendance EXCEPT ![d].locked = TRUE]
        /\ IF me.todo = {d} THEN Stop(t) ELSE Go(t, [me EXCEPT !.todo = @ \ {d}])
  BY DEF LockRow
<1>3. d \in Days /\ attendance[d] \in Row
  BY <1>1 DEF Me, Known
<1>4. [attendance[d] EXCEPT !.locked = TRUE] \in Row
  BY <1>3 DEF Row
<1>5. /\ attendance' \in [Days -> Row \cup {NoRow}]
      /\ \A e \in Days : attendance[e] \in Row => attendance'[e] \in Row
  BY <1>2, <1>3, <1>4 DEF IInv, RowsTyped
<1>6. CASE me.todo = {d}
  <2>1. Ready(Resting)'
    BY DEF Resting, Ready, Known, Current, Clear, Single
  <2> QED
    BY <1>1, <1>2, <1>5, <1>6, <2>1, RestingReady, Attended DEF LockRow, Stop
<1>7. CASE me.todo # {d}
  <2>1. PICK you : you = [me EXCEPT !.todo = @ \ {d}]
    OBVIOUS
  <2>2. you \in Me /\ you.pc = "lock" /\ you.todo \subseteq me.todo /\ me.todo \subseteq Days
    BY <1>1, <2>1 DEF Me
  <2>3. \A e \in you.todo : attendance'[e] \in Row
    BY <1>1, <1>5, <2>2 DEF Known
  <2>4. Ready(you)'
    BY <2>2, <2>3 DEF Ready, Known, Current, Clear, Single
  <2>5. Go(t, you)
    BY <1>2, <1>7, <2>1
  <2>6. task[t].pc # "idle"
    BY <1>1
  <2> HIDE DEF me
  <2> QED
    BY <1>5, <2>2, <2>4, <2>5, <2>6, Attended DEF LockRow
<1> QED
  BY <1>6, <1>7

----------------------------------------------------------------------------
(* Shift assignments *)

\* Periods share days whichever is named first.
LEMMA OverlapSymmetric ==
  \A x, y : Overlap(x.from, x.to, y) <=> Overlap(y.from, y.to, x)
BY DEF Overlap

\* An assignment in force is there.
LEMMA LiveTyped == ASSUME RowsTyped, NEW a \in Assignments, Live(a) PROVE assignment[a] \in Assignment
BY DEF RowsTyped, Live, NoAssignment

\* Periods are compared after the last day too.
LEMMA DaysAndEver ==
  /\ Days \subseteq Nat /\ 1..Ever \subseteq Nat /\ Ever \in Nat
  /\ Days \subseteq 1..Ever /\ \A d \in Days : d < Ever /\ d >= 1
BY WorkforceAssumption DEF Days, Ever

\* An assignment that passed check_overlap is ready to be inserted.
LEMMA AssignStep ==
  ASSUME IInv, NEW t \in Tasks, BeginAssign(t) PROVE IInv'
<1>1. OneAtATime => OthersIdle(t)
  BY BeginsAlone DEF BeginAssign
<1>2. PICK s \in Shifts, from \in Days, to \in 1..Ever :
        /\ ~ Overlaps(from, to, {})
        /\ Go(t, [Resting EXCEPT !.pc = "insert", !.new =
             [shift |-> s, from |-> from, to |-> to, active |-> TRUE, deleted |-> FALSE]])
  BY DEF BeginAssign
<1> DEFINE new == [shift |-> s, from |-> from, to |-> to, active |-> TRUE, deleted |-> FALSE]
           me == [Resting EXCEPT !.pc = "insert", !.new = new]
<1>3. new \in Assignment /\ new \in Load
  BY DEF Assignment, Load
<1>4. Apart(new, Assignments)
  BY <1>2 DEF Apart, Overlaps, InForce
<1>5. Go(t, me)
  BY <1>2
<1> HIDE DEF new
<1>6. me \in Me
  <2>1. Resting \in Me /\ "insert" \in Stages BY RestingReady DEF Stages
  <2> QED BY <1>3, <2>1 DEF Me
<1>7. Ready(me)
  BY <1>3, <1>4 DEF Ready, Known, Current, Clear, Single, Resting
<1> HIDE DEF me
<1> QED
  BY <1>1, <1>5, <1>6, <1>7, Prepares DEF BeginAssign

\* A change of an assignment that is ready to be saved.
LEMMA Saves ==
  ASSUME IInv, NEW t \in Tasks, NEW a \in Assignments, NEW new \in Assignment, Live(a),
         Go(t, [Resting EXCEPT !.pc = "save", !.id = a, !.loaded = assignment[a], !.new = new]),
         Strict => (~ new.deleted /\ new.active => Apart(new, Assignments \ {a})),
         UNCHANGED <<rows, crashes, scenario>>, OneAtATime => OthersIdle(t)
  PROVE  IInv'
<1> DEFINE me == [Resting EXCEPT !.pc = "save", !.id = a, !.loaded = assignment[a], !.new = new]
<1>1. assignment[a] \in Assignment
  BY LiveTyped DEF IInv
<1>2. me \in Me
  <2>1. Resting \in Me /\ "save" \in Stages BY RestingReady DEF Stages
  <2>2. assignment[a] \in Load /\ new \in Load BY <1>1 DEF Load
  <2> QED BY <2>1, <2>2 DEF Me
<1>3. Ready(me)
  BY <1>1 DEF Ready, Known, Current, Clear, Single, Resting
<1> HIDE DEF me
<1> QED
  BY <1>2, <1>3, Prepares DEF me

\* A moved assignment is checked against the others, unless its end is taken away.
LEMMA MoveStep ==
  ASSUME IInv, NEW t \in Tasks, BeginMove(t) PROVE IInv'
<1>1. OneAtATime => OthersIdle(t)
  BY BeginsAlone DEF BeginMove
<1>2. PICK a \in Assignments, s \in Shifts, from \in Days, to \in 1..Ever, active \in BOOLEAN :
        LET old == assignment[a]
            checked == IF to = Ever THEN old.to ELSE to IN
        /\ Live(a) /\ from <= checked
        /\ ~ LockedIn(old.from, old.to) /\ ~ Overlaps(from, checked, {a})
        /\ to = Ever /\ old.to # Ever => "loosen" \in scenario.ops
        /\ Go(t, [Resting EXCEPT !.pc = "save", !.id = a, !.loaded = old,
                    !.new = [old EXCEPT !.shift = s, !.from = from, !.to = to, !.active = active]])
  BY Zenon DEF BeginMove
<1> DEFINE new == [assignment[a] EXCEPT !.shift = s, !.from = from, !.to = to, !.active = active]
<1>3. assignment[a] \in Assignment
  BY <1>2, LiveTyped DEF IInv
<1>4. new \in Assignment /\ new.from = from /\ new.to = to
  BY <1>3 DEF Assignment
<1>5. Strict => Apart(new, Assignments \ {a})
  <2>1. Strict => ~ Overlaps(from, to, {a})
    BY <1>2 DEF Strict
  <2> QED BY <1>4, <2>1 DEF Apart, Overlaps, InForce
<1>6. Go(t, [Resting EXCEPT !.pc = "save", !.id = a, !.loaded = assignment[a], !.new = new])
  BY <1>2
<1>7. Live(a) /\ UNCHANGED <<rows, crashes, scenario>>
  BY <1>2 DEF BeginMove
<1> HIDE DEF new
<1> QED
  BY <1>1, <1>4, <1>5, <1>6, <1>7, Saves

\* An earlier end keeps an assignment within the days it had.
LEMMA EndStep ==
  ASSUME IInv, NEW t \in Tasks, BeginEnd(t) PROVE IInv'
<1>1. OneAtATime => OthersIdle(t)
  BY BeginsAlone DEF BeginEnd
<1>2. PICK a \in Assignments, day \in Days :
        LET old == assignment[a] IN
        /\ Live(a) /\ old.from <= day
        /\ day > old.to => "loosen" \in scenario.ops
        /\ Go(t, [Resting EXCEPT !.pc = "save", !.id = a, !.loaded = old,
                    !.new = [old EXCEPT !.to = day, !.active = @ /\ day >= Today]])
  BY DEF BeginEnd
<1> DEFINE old == assignment[a]
           new == [old EXCEPT !.to = day, !.active = @ /\ day >= Today]
<1>3. old \in Assignment
  BY <1>2, LiveTyped DEF IInv
<1>4. day \in 1..Ever /\ day \in Nat /\ old.from \in Nat /\ old.to \in Nat
  BY <1>3, DaysAndEver DEF Assignment
<1>5. (old.active /\ day >= Today) \in BOOLEAN
  OBVIOUS
<1>6. /\ new \in Assignment /\ new.from = old.from /\ new.to = day
      /\ new.active => old.active
  BY <1>3, <1>4, <1>5 DEF Assignment
<1>7. ASSUME Strict, ~ new.deleted, new.active PROVE Apart(new, Assignments \ {a})
  <2>1. InForce(a) /\ day <= old.to
    BY <1>2, <1>4, <1>6, <1>7 DEF Strict, InForce
  <2> SUFFICES ASSUME NEW b \in Assignments \ {a}, InForce(b),
                      Overlap(new.from, new.to, assignment[b])
               PROVE  FALSE
    BY DEF Apart
  <2>2. ~ Overlap(old.from, old.to, assignment[b])
    BY <1>7, <2>1 DEF IInv, ShiftsDisjoint, Strict, InForce
  <2>3. assignment[b].from \in Nat
    BY LiveTyped, DaysAndEver DEF IInv, InForce, Assignment
  <2>4. assignment[b].from <= day
    BY <1>6 DEF Overlap
  <2>5. assignment[b].from <= old.to
    BY <1>4, <2>1, <2>3, <2>4
  <2> QED BY <1>6, <2>2, <2>5 DEF Overlap
<1>8. Go(t, [Resting EXCEPT !.pc = "save", !.id = a, !.loaded = assignment[a], !.new = new])
  BY <1>2
<1>9. Live(a) /\ UNCHANGED <<rows, crashes, scenario>>
  BY <1>2 DEF BeginEnd
<1> HIDE DEF new, old
<1> QED
  BY <1>1, <1>6, <1>7, <1>8, <1>9, Saves

\* A deleted assignment is in nobody's way.
LEMMA DeleteStep ==
  ASSUME IInv, NEW t \in Tasks, BeginDelete(t) PROVE IInv'
<1>1. OneAtATime => OthersIdle(t)
  BY BeginsAlone DEF BeginDelete
<1>2. PICK a \in Assignments :
        /\ Live(a)
        /\ Go(t, [Resting EXCEPT !.pc = "save", !.id = a, !.loaded = assignment[a],
                    !.new = [assignment[a] EXCEPT !.deleted = TRUE]])
  BY DEF BeginDelete
<1> DEFINE new == [assignment[a] EXCEPT !.deleted = TRUE]
<1>3. assignment[a] \in Assignment
  BY <1>2, LiveTyped DEF IInv
<1>4. new \in Assignment /\ new.deleted
  BY <1>3 DEF Assignment
<1>5. Go(t, [Resting EXCEPT !.pc = "save", !.id = a, !.loaded = assignment[a], !.new = new])
  BY <1>2
<1>6. UNCHANGED <<rows, crashes, scenario>>
  BY DEF BeginDelete
<1> HIDE DEF new
<1> QED
  BY <1>1, <1>2, <1>4, <1>5, <1>6, Saves

\* One assignment and the handler that wrote it change: the others in force
\* stay apart from it and from one another.
LEMMA Assigned ==
  ASSUME IInv, NEW t \in Tasks, task[t].pc # "idle", Stop(t),
         NEW a \in Assignments, NEW new \in Assignment,
         assignment' = [assignment EXCEPT ![a] = new],
         Strict => (~ new.deleted /\ new.active => Apart(new, Assignments \ {a})),
         UNCHANGED <<default, attendance, pay, crashes, scenario>>
  PROVE  IInv'
<1>1. /\ assignment' \in [Assignments -> Assignment \cup {NoAssignment}]
      /\ assignment'[a] = new /\ \A b \in Assignments \ {a} : assignment'[b] = assignment[b]
  BY DEF IInv, RowsTyped
<1>2. RowsTyped' /\ RowsStay
  BY <1>1 DEF IInv, RowsTyped, RowsStay
<1>3. ShiftsDisjoint'
  <2> SUFFICES ASSUME Strict, NEW b \in Assignments, NEW c \in Assignments, b # c,
                      InForce(b)', InForce(c)'
               PROVE  ~ Overlap(assignment'[b].from, assignment'[b].to, assignment'[c])
    BY DEF ShiftsDisjoint, Strict, OneAtATime, InForce
  <2>1. CASE b # a /\ c # a
    BY <1>1, <2>1 DEF IInv, ShiftsDisjoint, Strict, InForce, Live
  <2>2. CASE b = a
    <3>1. InForce(c) /\ assignment'[c] = assignment[c] /\ c \in Assignments \ {a}
      BY <1>1, <2>2 DEF InForce, Live
    <3>2. ~ new.deleted /\ new.active
      BY <1>1, <2>2 DEF InForce, Live
    <3> QED BY <1>1, <2>2, <3>1, <3>2 DEF Apart
  <2>3. CASE c = a
    <3>1. InForce(b) /\ assignment'[b] = assignment[b] /\ b \in Assignments \ {a}
      BY <1>1, <2>3 DEF InForce, Live
    <3>2. ~ new.deleted /\ new.active
      BY <1>1, <2>3 DEF InForce, Live
    <3>3. ~ Overlap(new.from, new.to, assignment[b])
      BY <3>1, <3>2 DEF Apart
    <3> QED BY <1>1, <2>3, <3>1, <3>3, OverlapSymmetric
  <2> QED BY <2>1, <2>2, <2>3
<1>4. (Firm => OnePay)' /\ crashes' \in 0..scenario.crashes /\ scenario' = scenario
  BY DEF IInv, OneAtATime, Firm, OnePay, ActivePay, Owed
<1>5. Ready(Resting)'
  BY DEF Resting, Ready, Known, Current, Clear, Single
<1> QED
  BY <1>2, <1>3, <1>4, <1>5, RestingReady, GoesOnAlone, Moves DEF Stop

\* The commit of a new assignment.
LEMMA InsertStep ==
  ASSUME IInv, NEW t \in Tasks, InsertAssignment(t) PROVE IInv'
<1> DEFINE new == task[t].new
<1>1. /\ task[t].pc = "insert" /\ Stop(t)
      /\ UNCHANGED <<default, attendance, pay, crashes, scenario>>
  BY DEF InsertAssignment
<1>2. PICK a \in Assignments : assignment' = [assignment EXCEPT ![a] = new]
  BY DEF InsertAssignment
<1>3. new \in Assignment /\ (Strict => Apart(new, Assignments))
  BY <1>1 DEF IInv, Ready, Known, Clear
<1>4. Strict => Apart(new, Assignments \ {a})
  BY <1>3 DEF Apart
<1>5. task[t].pc # "idle"
  BY <1>1
<1> HIDE DEF new
<1> QED
  BY <1>1, <1>2, <1>3, <1>4, <1>5, Assigned

\* The commit of a changed assignment: alone, the handler saves what it prepared.
LEMMA SaveStep ==
  ASSUME IInv, NEW t \in Tasks, SaveAssignment(t) PROVE IInv'
<1> DEFINE me == task[t]
           new == Merged(me.loaded, me.new, assignment[me.id])
<1>1. /\ me.pc = "save" /\ Stop(t)
      /\ UNCHANGED <<default, attendance, pay, crashes, scenario>>
      /\ assignment' = [assignment EXCEPT ![me.id] = new]
  BY DEF SaveAssignment
<1>2. /\ me.id \in Assignments /\ me.loaded \in Assignment /\ me.new \in Assignment
      /\ assignment[me.id] \in Assignment
      /\ OneAtATime => assignment[me.id] = me.loaded
      /\ Strict /\ ~ me.new.deleted /\ me.new.active => Apart(me.new, Assignments \ {me.id})
  BY <1>1 DEF IInv, Ready, Known, Clear, Current
<1>3. new \in Assignment /\ (OneAtATime => new = me.new)
  BY <1>2, MergedAssignment
<1> HIDE DEF new
<1>4. Strict => (~ new.deleted /\ new.active => Apart(new, Assignments \ {me.id}))
  BY <1>2, <1>3 DEF Strict
<1>5. task[t].pc # "idle"
  BY <1>1
<1> QED
  BY <1>1, <1>2, <1>3, <1>4, <1>5, Assigned

----------------------------------------------------------------------------
(* Compensation *)

\* A compensation that is not deleted is there.
LEMMA OwedTyped == ASSUME RowsTyped, NEW p \in Pays, Owed(p) PROVE pay[p] \in Pay
BY DEF RowsTyped, Owed, NoPay

\* A draft that is ready to be inserted.
LEMMA OfferStep ==
  ASSUME IInv, NEW t \in Tasks, NEW op, MayBegin(t, op), NEW except, Offer(t, except),
         UNCHANGED <<rows, crashes, scenario>>
  PROVE  IInv'
<1>1. OneAtATime => OthersIdle(t)
  BY BeginsAlone
<1>2. PICK from \in Days, to \in 1..Ever :
        Go(t, [Resting EXCEPT !.pc = "insertPay", !.new =
                 [status |-> "Draft", from |-> from, to |-> to, deleted |-> FALSE]])
  BY DEF Offer
<1> DEFINE new == [status |-> "Draft", from |-> from, to |-> to, deleted |-> FALSE]
           me == [Resting EXCEPT !.pc = "insertPay", !.new = new]
<1>3. new \in Pay /\ new \in Load /\ new.status = "Draft"
  BY DEF Pay, Load
<1>4. Go(t, me)
  BY <1>2
<1> HIDE DEF new
<1>5. me \in Me
  <2>1. Resting \in Me /\ "insertPay" \in Stages BY RestingReady DEF Stages
  <2> QED BY <1>3, <2>1 DEF Me
<1>6. Ready(me)
  BY <1>3 DEF Ready, Known, Current, Clear, Single, Resting
<1> HIDE DEF me
<1> QED
  BY <1>1, <1>4, <1>5, <1>6, Prepares

\* Offers and revisions prepare drafts.
LEMMA ReviseStep ==
  ASSUME IInv, NEW t \in Tasks, BeginOffer(t) \/ BeginRevise(t) PROVE IInv'
<1>1. CASE BeginOffer(t)
  BY <1>1, OfferStep DEF BeginOffer
<1>2. CASE BeginRevise(t)
  <2>1. PICK p \in Pays : Offer(t, {p})
    BY <1>2 DEF BeginRevise
  <2>2. MayBegin(t, "revise") /\ UNCHANGED <<rows, crashes, scenario>>
    BY <1>2 DEF BeginRevise
  <2> QED BY <2>1, <2>2, OfferStep
<1> QED
  BY <1>1, <1>2

\* An activation looks at the one that is Active, if there is one.
LEMMA BeginActivateStep ==
  ASSUME IInv, NEW t \in Tasks, BeginActivate(t) PROVE IInv'
<1>1. OneAtATime => OthersIdle(t)
  <2>1. MayBegin(t, "activate")
    BY DEF BeginActivate
  <2> QED
    BY <2>1, BeginsAlone
<1>2. PICK p \in Pays :
        /\ Owed(p)
        /\ LET me == [Resting EXCEPT !.pc = "activate", !.id = p] IN
           \/ ActivePay = {} /\ Go(t, me)
           \/ \E q \in LatestActive :
                Go(t, [me EXCEPT !.other = q, !.until = Max({pay[p].from - 1, pay[q].from})])
  BY DEF BeginActivate
<1>3. pay[p] \in Pay
  BY <1>2, OwedTyped DEF IInv
<1> DEFINE me == [Resting EXCEPT !.pc = "activate", !.id = p]
<1>4. me \in Me
  <2>1. Resting \in Me /\ "activate" \in Stages BY RestingReady DEF Stages
  <2> QED BY <2>1 DEF Me
<1>5. me.pc = "activate" /\ me.id = p /\ me.other = Missing
  BY DEF Resting
<1>6. UNCHANGED <<rows, crashes, scenario>>
  BY DEF BeginActivate
<1>7. CASE ActivePay = {} /\ Go(t, me)
  <2>1. Ready(me)
    BY <1>3, <1>5, <1>7 DEF Ready, Known, Current, Clear, Single
  <2> HIDE DEF me
  <2> QED BY <1>1, <1>4, <1>6, <1>7, <2>1, Prepares
<1>8. ASSUME NEW q \in LatestActive,
             Go(t, [me EXCEPT !.other = q, !.until = Max({pay[p].from - 1, pay[q].from})])
      PROVE  IInv'
  <2> DEFINE until == Max({pay[p].from - 1, pay[q].from})
             you == [me EXCEPT !.other = q, !.until = until]
  <2>1. q \in Pays /\ q \in ActivePay /\ pay[q] \in Pay
    BY OwedTyped DEF LatestActive, ActivePay, IInv
  <2>2. until \in 1..Ever
    <3>1. pay[p].from \in Days /\ pay[q].from \in Days
      BY <1>3, <2>1 DEF Pay
    <3>2. /\ pay[p].from - 1 \in Int /\ pay[q].from \in Int
          /\ pay[p].from - 1 <= Ever /\ pay[q].from <= Ever /\ pay[q].from >= 1 /\ Ever \in Nat
      BY <3>1, WorkforceAssumption DEF Days, Ever
    <3>3. until \in {pay[p].from - 1, pay[q].from} /\ until >= pay[q].from
      BY <3>2, MaxOfTwo
    <3> QED BY <3>2, <3>3
  <2> HIDE DEF until, me
  <2>3. you \in Me
    BY <1>4, <2>1, <2>2 DEF Me
  <2>4. you.pc = "activate" /\ you.id = p /\ you.other = q /\ you.until = until
    BY <1>4, <1>5 DEF Me
  <2>5. Firm => \A z \in ActivePay : z = q
    BY <2>1 DEF IInv, OnePay
  <2>6. Ready(you)
    <3>1. Known(you)
      BY <1>3, <2>1, <2>2, <2>4 DEF Known
    <3> QED BY <2>4, <2>5, <3>1 DEF Ready, Current, Clear, Single
  <2>7. Go(t, you)
    BY <1>8 DEF until
  <2> HIDE DEF you
  <2> QED BY <1>1, <1>6, <2>3, <2>6, <2>7, Prepares
<1> HIDE DEF me
<1>9. (ActivePay = {} /\ Go(t, me)) \/ \E q \in LatestActive :
        Go(t, [me EXCEPT !.other = q, !.until = Max({pay[p].from - 1, pay[q].from})])
  BY <1>2 DEF me
<1> QED
  BY <1>7, <1>8, <1>9

\* Compensations and the handler that wrote them change.
LEMMA Paid ==
  ASSUME IInv, NEW t \in Tasks, task[t].pc # "idle", Stop(t),
         pay' \in [Pays -> Pay \cup {NoPay}],
         \A p \in Pays : pay[p] \in Pay => pay'[p] \in Pay,
         Firm => OnePay',
         UNCHANGED <<assignment, default, attendance, crashes, scenario>>
  PROVE  IInv'
<1>1. RowsTyped' /\ RowsStay
  BY DEF IInv, RowsTyped, RowsStay
<1>2. /\ ShiftsDisjoint' /\ (Firm => OnePay)'
      /\ crashes' \in 0..scenario.crashes /\ scenario' = scenario
  BY DEF IInv, ShiftsDisjoint, OneAtATime, Live, Firm
<1>3. Ready(Resting)'
  BY DEF Resting, Ready, Known, Current, Clear, Single
<1> QED
  BY <1>1, <1>2, <1>3, RestingReady, GoesOnAlone, Moves DEF Stop

\* The commit of a draft makes nothing Active.
LEMMA InsertPayStep ==
  ASSUME IInv, NEW t \in Tasks, InsertPay(t) PROVE IInv'
<1> DEFINE new == task[t].new
<1>1. /\ task[t].pc = "insertPay" /\ Stop(t)
      /\ UNCHANGED <<assignment, default, attendance, crashes, scenario>>
  BY DEF InsertPay
<1>2. PICK p \in Pays : pay[p] = NoPay /\ pay' = [pay EXCEPT ![p] = new]
  BY DEF InsertPay
<1>3. new \in Pay /\ new.status = "Draft"
  BY <1>1 DEF IInv, Ready, Known
<1> HIDE DEF new
<1>4. pay' \in [Pays -> Pay \cup {NoPay}] /\ \A q \in Pays : pay[q] \in Pay => pay'[q] \in Pay
  BY <1>2, <1>3 DEF IInv, RowsTyped
<1>5. Firm => OnePay'
  <2>1. pay'[p] = new /\ \A q \in Pays \ {p} : pay'[q] = pay[q]
    BY <1>2 DEF IInv, RowsTyped
  <2> QED BY <1>3, <2>1 DEF IInv, OnePay, ActivePay, Owed
<1>6. task[t].pc # "idle"
  BY <1>1
<1> QED
  BY <1>1, <1>4, <1>5, <1>6, Paid

\* The commit of an activation expires the only other Active compensation.
LEMMA ActivateStep ==
  ASSUME IInv, NEW t \in Tasks, Activate(t) PROVE IInv'
<1> DEFINE me == task[t]
<1>1. /\ me.pc = "activate" /\ Stop(t) /\ me \in Me
      /\ pay' = WithActive(me.id, me.other, me.until)
      /\ UNCHANGED <<assignment, default, attendance, crashes, scenario>>
  BY DEF Activate, IInv
<1>2. /\ me.id \in Pays /\ pay[me.id] \in Pay
      /\ me.other # Missing => pay[me.other] \in Pay /\ me.until \in 1..Ever
      /\ Firm => \A q \in ActivePay : q = me.other
  BY <1>1 DEF IInv, Ready, Known, Single
<1> HIDE DEF me
<1>3. \A p \in Pays : pay'[p] =
        IF p = me.id THEN [pay[p] EXCEPT !.status = "Active"]
        ELSE IF p = me.other THEN [pay[p] EXCEPT !.status = "Expired", !.to = me.until] ELSE pay[p]
  BY <1>1 DEF WithActive
<1>4. ASSUME NEW p \in Pays
      PROVE  /\ pay'[p] \in Pay \cup {NoPay} /\ (pay[p] \in Pay => pay'[p] \in Pay)
             /\ p # me.id /\ p # me.other => pay'[p] = pay[p]
             /\ p # me.id /\ p = me.other => pay'[p].status = "Expired"
  <2>1. CASE p = me.id
    <3>1. [pay[p] EXCEPT !.status = "Active"] \in Pay
      BY <1>2, <2>1 DEF Pay
    <3> QED BY <1>3, <2>1, <3>1
  <2>2. CASE p # me.id /\ p = me.other
    <3>1. pay[p] \in Pay /\ me.until \in 1..Ever
      BY <1>2, <2>2, WorkforceAssumption
    <3>2. LET z == [pay[p] EXCEPT !.status = "Expired", !.to = me.until]
          IN  z \in Pay /\ z.status = "Expired"
      BY <3>1 DEF Pay
    <3> QED BY <1>3, <2>2, <3>2
  <2>3. CASE p # me.id /\ p # me.other
    BY <1>3, <2>3 DEF IInv, RowsTyped
  <2> QED BY <2>1, <2>2, <2>3
<1>5. pay' \in [Pays -> Pay \cup {NoPay}]
  BY <1>1, <1>4 DEF WithActive
<1>6. Firm => OnePay'
  <2> SUFFICES ASSUME Firm, NEW p \in ActivePay' PROVE p = me.id
    BY DEF OnePay
  <2>1. p \in Pays /\ ~ pay'[p].deleted /\ pay'[p].status = "Active"
    BY DEF ActivePay, Owed
  <2>2. p # me.id => p \in ActivePay /\ p # me.other
    BY <1>4, <2>1 DEF ActivePay, Owed
  <2> QED BY <1>2, <2>2
<1>7. task[t].pc # "idle"
  BY <1>1 DEF me
<1> QED
  BY <1>1, <1>4, <1>5, <1>6, <1>7, Paid

\* A change of a compensation that is ready to be kept.
LEMMA Keeps ==
  ASSUME IInv, NEW t \in Tasks, NEW op, MayBegin(t, op), NEW p \in Pays, NEW new \in Pay,
         pay[p] \in Pay, Keep(t, p, new),
         Firm => (~ new.deleted /\ new.status = "Active" => p \in ActivePay),
         UNCHANGED <<rows, crashes, scenario>>
  PROVE  IInv'
<1> DEFINE me == [Resting EXCEPT !.pc = "keep", !.id = p, !.loaded = pay[p], !.new = new]
<1>1. me \in Me
  <2>1. Resting \in Me /\ "keep" \in Stages BY RestingReady DEF Stages
  <2>2. pay[p] \in Load /\ new \in Load BY DEF Load
  <2> QED BY <2>1, <2>2 DEF Me
<1>2. Ready(me)
  BY DEF Ready, Known, Current, Clear, Single, Resting
<1>3. Go(t, me)
  BY DEF Keep
<1> HIDE DEF me
<1> QED
  BY <1>1, <1>2, <1>3, BeginsAlone, Prepares

\* Cancelling, dating and removing make nothing Active; restoring may.
LEMMA KeepSteps ==
  ASSUME IInv, NEW t \in Tasks,
         BeginCancel(t) \/ BeginRedate(t) \/ BeginRemove(t) \/ BeginRestore(t)
  PROVE  IInv'
<1>1. CASE BeginCancel(t)
  <2>1. PICK p \in Pays : Owed(p) /\ Keep(t, p, [pay[p] EXCEPT !.status = "Cancelled"])
    BY <1>1 DEF BeginCancel
  <2>2. PICK new : new = [pay[p] EXCEPT !.status = "Cancelled"]
    OBVIOUS
  <2>3. pay[p] \in Pay
    BY <2>1, OwedTyped DEF IInv
  <2>4. new \in Pay /\ new.status # "Active" /\ Keep(t, p, new)
    BY <2>1, <2>2, <2>3 DEF Pay
  <2>5. MayBegin(t, "cancel") /\ UNCHANGED <<rows, crashes, scenario>>
    BY <1>1 DEF BeginCancel
  <2> QED BY <2>3, <2>4, <2>5, Keeps
<1>2. CASE BeginRedate(t)
  <2>1. PICK p \in Pays, from \in Days, to \in 1..Ever :
          Owed(p) /\ Keep(t, p, [pay[p] EXCEPT !.from = from, !.to = to])
    BY <1>2 DEF BeginRedate
  <2>2. PICK new : new = [pay[p] EXCEPT !.from = from, !.to = to]
    OBVIOUS
  <2>3. pay[p] \in Pay
    BY <2>1, OwedTyped DEF IInv
  <2>4. new \in Pay /\ new.status = pay[p].status /\ new.deleted = pay[p].deleted /\ Keep(t, p, new)
    BY <2>1, <2>2, <2>3 DEF Pay
  <2>5. ~ new.deleted /\ new.status = "Active" => p \in ActivePay
    BY <2>4 DEF ActivePay, Owed
  <2>6. MayBegin(t, "redate") /\ UNCHANGED <<rows, crashes, scenario>>
    BY <1>2 DEF BeginRedate
  <2> QED BY <2>3, <2>4, <2>5, <2>6, Keeps
<1>3. CASE BeginRemove(t)
  <2>1. PICK p \in Pays : Owed(p) /\ Keep(t, p, [pay[p] EXCEPT !.deleted = TRUE])
    BY <1>3 DEF BeginRemove
  <2>2. PICK new : new = [pay[p] EXCEPT !.deleted = TRUE]
    OBVIOUS
  <2>3. pay[p] \in Pay
    BY <2>1, OwedTyped DEF IInv
  <2>4. new \in Pay /\ new.deleted /\ Keep(t, p, new)
    BY <2>1, <2>2, <2>3 DEF Pay
  <2>5. MayBegin(t, "remove") /\ UNCHANGED <<rows, crashes, scenario>>
    BY <1>3 DEF BeginRemove
  <2> QED BY <2>3, <2>4, <2>5, Keeps
<1>4. CASE BeginRestore(t)
  <2>1. PICK p \in Pays : pay[p] # NoPay /\ Keep(t, p, [pay[p] EXCEPT !.deleted = FALSE])
    BY <1>4 DEF BeginRestore
  <2>2. PICK new : new = [pay[p] EXCEPT !.deleted = FALSE]
    OBVIOUS
  <2>3. pay[p] \in Pay
    BY <2>1 DEF IInv, RowsTyped
  <2>4. new \in Pay /\ Keep(t, p, new)
    BY <2>1, <2>2, <2>3 DEF Pay
  <2>5. MayBegin(t, "restore") /\ UNCHANGED <<rows, crashes, scenario>>
    BY <1>4 DEF BeginRestore
  <2>6. ~ Firm
    BY <2>5, BeginsAlone DEF Firm
  <2> QED BY <2>3, <2>4, <2>5, <2>6, Keeps
<1> QED
  BY <1>1, <1>2, <1>3, <1>4

\* The commit of a change: alone, the handler keeps what it prepared.
LEMMA KeepPayStep ==
  ASSUME IInv, NEW t \in Tasks, KeepPay(t) PROVE IInv'
<1> DEFINE me == task[t]
           new == Merged(me.loaded, me.new, pay[me.id])
<1>1. /\ me.pc = "keep" /\ Stop(t) /\ pay' = [pay EXCEPT ![me.id] = new]
      /\ UNCHANGED <<assignment, default, attendance, crashes, scenario>>
  BY DEF KeepPay
<1>2. /\ me.id \in Pays /\ me.loaded \in Pay /\ me.new \in Pay /\ pay[me.id] \in Pay
      /\ OneAtATime => pay[me.id] = me.loaded
      /\ Firm /\ ~ me.new.deleted /\ me.new.status = "Active" => me.id \in ActivePay
  BY <1>1 DEF IInv, Ready, Known, Current, Single
<1>3. new \in Pay /\ (OneAtATime => new = me.new)
  BY <1>2, MergedPay
<1> HIDE DEF new
<1>4. /\ pay' \in [Pays -> Pay \cup {NoPay}]
      /\ \A q \in Pays : pay[q] \in Pay => pay'[q] \in Pay
      /\ pay'[me.id] = new /\ \A q \in Pays \ {me.id} : pay'[q] = pay[q]
  BY <1>1, <1>2, <1>3 DEF IInv, RowsTyped
<1>5. Firm => OnePay'
  <2> SUFFICES ASSUME Firm, NEW q \in ActivePay' PROVE q \in ActivePay
    BY DEF OnePay, IInv
  <2>1. q \in Pays /\ ~ pay'[q].deleted /\ pay'[q].status = "Active"
    BY DEF ActivePay, Owed
  <2>2. CASE q = me.id
    BY <1>2, <1>3, <1>4, <2>1, <2>2 DEF Firm
  <2>3. CASE q # me.id
    BY <1>4, <2>1, <2>3 DEF ActivePay, Owed
  <2> QED BY <2>2, <2>3
<1>6. task[t].pc # "idle"
  BY <1>1
<1> QED
  BY <1>1, <1>4, <1>5, <1>6, Paid

----------------------------------------------------------------------------
(* Every step *)

\* A lost handler leaves the rows as they are committed.
LEMMA CrashStep ==
  ASSUME IInv, NEW t \in Tasks, Crash(t) PROVE IInv'
<1>1. /\ assignment' = assignment /\ default' = default /\ attendance' = attendance
      /\ pay' = pay /\ crashes' = crashes + 1 /\ scenario' = scenario
      /\ crashes < scenario.crashes /\ task[t].pc # "idle" /\ Go(t, Resting)
  BY DEF Crash, rows, Stop
<1>2. RowsTyped' /\ RowsStay
  BY <1>1 DEF IInv, RowsTyped, RowsStay
<1>3. ShiftsDisjoint' /\ (Firm => OnePay)'
  BY <1>1 DEF IInv, ShiftsDisjoint, OneAtATime, Live, Firm, OnePay, ActivePay, Owed
<1>4. crashes' \in 0..scenario.crashes
  <2>1. scenario.crashes \in Nat
    BY WorkforceAssumption DEF IInv, Scenario
  <2> QED BY <1>1, <2>1 DEF IInv
<1>5. Ready(Resting)'
  BY DEF Resting, Ready, Known, Current, Clear, Single
<1> QED
  BY <1>1, <1>2, <1>3, <1>4, <1>5, RestingReady, GoesOnAlone, Moves

\* The employee's own shift concerns no handler.
LEMMA DefaultStep == ASSUME IInv, ChangeDefault PROVE IInv'
<1>1. /\ default' \in Shifts \cup {Missing}
      /\ assignment' = assignment /\ attendance' = attendance
      /\ pay' = pay /\ task' = task /\ crashes' = crashes /\ scenario' = scenario
  BY DEF ChangeDefault
<1>2. RowsTyped'
  BY <1>1 DEF IInv, RowsTyped
<1>3. ShiftsDisjoint' /\ (Firm => OnePay)' /\ Alone'
  BY <1>1 DEF IInv, ShiftsDisjoint, OneAtATime, Live, Firm, OnePay, ActivePay, Owed, Alone
<1>4. \A t \in Tasks : Ready(task[t])'
  BY <1>1 DEF IInv, Ready, Known, Current, Clear, Single, OneAtATime, Strict, Firm, Apart, InForce,
              Live, ActivePay, Owed
<1> QED
  BY <1>1, <1>2, <1>3, <1>4 DEF IInv

\* There are no rows and no handlers at first.
LEMMA InitInv == Init => IInv
<1> SUFFICES ASSUME Init PROVE IInv
  OBVIOUS
<1>1. RowsTyped
  BY DEF Init, RowsTyped
<1>2. task \in [Tasks -> Me] /\ \A t \in Tasks : Ready(task[t])
  BY RestingReady DEF Init
<1>3. Alone
  BY RestingReady DEF Init, Alone
<1>4. ShiftsDisjoint /\ OnePay
  BY DEF Init, ShiftsDisjoint, Live, NoAssignment, OnePay, ActivePay, Owed, NoPay
<1>5. scenario \in Scenarios /\ crashes \in 0..scenario.crashes
  BY WorkforceAssumption DEF Init, Scenario
<1> QED
  BY <1>1, <1>2, <1>3, <1>4, <1>5 DEF IInv

\* A step of nobody changes nothing.
LEMMA StutterStep == IInv /\ UNCHANGED vars => IInv'
<1> SUFFICES ASSUME IInv, UNCHANGED vars PROVE IInv'
  OBVIOUS
<1>1. /\ assignment' = assignment /\ default' = default /\ attendance' = attendance
      /\ pay' = pay /\ task' = task /\ crashes' = crashes /\ scenario' = scenario
  BY DEF vars, rows
<1>2. \A t \in Tasks : Ready(task[t])'
  BY <1>1 DEF IInv, Ready, Known, Current, Clear, Single, OneAtATime, Strict, Firm, Apart, InForce,
              Live, ActivePay, Owed
<1> QED
  BY <1>1, <1>2 DEF IInv, RowsTyped, ShiftsDisjoint, OneAtATime, Live, Firm, OnePay, ActivePay,
                    Owed, Alone

\* Every step keeps the invariant.
LEMMA StepInv == IInv /\ [Next]_vars => IInv'
<1> SUFFICES ASSUME IInv, [Next]_vars PROVE IInv'
  OBVIOUS
<1>1. ASSUME NEW t \in Tasks, ShiftStep(t) PROVE IInv'
  BY <1>1, AssignStep, InsertStep, MoveStep, EndStep, DeleteStep, SaveStep DEF ShiftStep
<1>2. ASSUME NEW t \in Tasks, DayStep(t) PROVE IInv'
  BY <1>2, CheckInStep, FindRowStep, CheckOutStep, CorrectStep, FigureStep, WriteRowStep,
     BeginLockStep, LockRowStep DEF DayStep
<1>3. ASSUME NEW t \in Tasks, PayStep(t) PROVE IInv'
  BY <1>3, ReviseStep, InsertPayStep, BeginActivateStep, ActivateStep, KeepSteps, KeepPayStep
     DEF PayStep
<1> QED
  BY <1>1, <1>2, <1>3, CrashStep, DefaultStep, StutterStep DEF Next

\* The inductive invariant holds of every behaviour.
THEOREM Inductive == Spec => []IInv
BY InitInv, StepInv, PTL DEF Spec

\* Rows and handlers hold what the columns and the code give them.
THEOREM TypeCorrect == Spec => []TypeOK
<1>1. IInv => TypeOK
  BY DEF IInv, RowsTyped, TypeOK, Me
<1> QED
  BY <1>1, Inductive, PTL

\* The assignments in force never share a day while handlers do not overlap and
\* no end is loosened (check_overlap).
THEOREM ShiftsApart == Spec => []ShiftsDisjoint
<1>1. IInv => ShiftsDisjoint
  BY DEF IInv
<1> QED
  BY <1>1, Inductive, PTL

\* At most one compensation is Active while handlers do not overlap and nothing
\* is restored (activate_compensation).
THEOREM OneActive == Spec => []OneActivePay
<1>1. IInv => OneActivePay
  <2> SUFFICES ASSUME IInv, OneAtATime, "restore" \notin scenario.ops
               PROVE  Cardinality(ActivePay) <= 1
    BY DEF OneActivePay
  <2>1. \A p, q \in ActivePay : p = q
    BY DEF IInv, Firm, OnePay
  <2>2. CASE ActivePay = {}
    BY <2>2, FS_EmptySet
  <2>3. CASE ActivePay # {}
    <3>1. PICK p \in ActivePay : TRUE
      BY <2>3
    <3>2. ActivePay = {p}
      BY <2>1, <3>1
    <3>3. Cardinality({p}) = 1
      BY FS_Singleton
    <3> QED BY <3>2, <3>3
  <2> QED BY <2>2, <2>3
<1> QED
  BY <1>1, Inductive, PTL

\* Attendance that was locked stays locked, and only a handler that loaded it
\* before still changes it (attendance that payroll has locked).
THEOREM LockHolds == Spec => LockedStaysLocked
<1> DEFINE Kept ==
      \A d \in Days : attendance[d] # NoRow /\ attendance[d].locked =>
        /\ attendance'[d].locked
        /\ attendance'[d] # attendance[d] =>
             \E t \in Tasks : task[t].pc = "write" /\ task[t].day = d /\ ~ task[t].loaded.locked
<1>1. ASSUME NEW t \in Tasks, IInv, WriteRow(t) PROVE Kept
  <2> DEFINE me == task[t]
             row == attendance[me.day]
  <2>1. /\ me.pc = "write" /\ me.day \in Days /\ me.new \in Row /\ ~ me.new.locked
        /\ me.loaded \in Row \cup {NoRow}
        /\ me.loaded \in Row => ~ me.loaded.locked /\ row \in Row
    BY <1>1 DEF IInv, Ready, Known, WriteRow
  <2>2. CASE me.loaded # NoRow
    <3> DEFINE new == Merged(me.loaded, me.new, row)
    <3>1. attendance' = [attendance EXCEPT ![me.day] = new]
      BY <1>1, <2>2 DEF WriteRow
    <3>2. me.new.locked \in BOOLEAN /\ me.loaded.locked \in BOOLEAN
      BY <2>1, <2>2 DEF Row
    <3>3. new.locked = row.locked
      BY <2>1, <2>2, <3>2, MergedRow
    <3> HIDE DEF new
    <3> QED BY <1>1, <2>1, <2>2, <3>1, <3>3 DEF IInv, RowsTyped
  <2>3. CASE me.loaded = NoRow
    <3>1. \A d \in Days : attendance[d] # NoRow => attendance'[d] = attendance[d]
      <4>1. CASE row = NoRow
        <5>1. attendance' = [attendance EXCEPT ![me.day] = me.new]
          BY <2>3, <4>1, <1>1 DEF WriteRow
        <5> QED BY <4>1, <5>1, <1>1 DEF IInv, RowsTyped
      <4>2. CASE row # NoRow
        BY <2>3, <4>2, <1>1 DEF WriteRow
      <4> QED BY <4>1, <4>2
    <3> QED BY <3>1
  <2> QED BY <2>2, <2>3
<1>2. ASSUME NEW t \in Tasks, IInv, LockRow(t) PROVE Kept
  <2>1. PICK e \in task[t].todo : attendance' = [attendance EXCEPT ![e].locked = TRUE]
    BY <1>2 DEF LockRow
  <2>2. e \in Days /\ attendance[e] \in Row
    BY <1>2 DEF LockRow, IInv, Ready, Known, Me
  <2>3. attendance[e].locked => [attendance[e] EXCEPT !.locked = TRUE] = attendance[e]
    BY <2>2 DEF Row
  <2> QED BY <1>2, <2>1, <2>2, <2>3 DEF IInv, RowsTyped
<1>3. ASSUME attendance' = attendance PROVE Kept
  BY <1>3
<1>4. IInv /\ [Next]_vars => Kept
  <2> SUFFICES ASSUME IInv, [Next]_vars PROVE Kept
    OBVIOUS
  <2>1. ASSUME NEW t \in Tasks, ShiftStep(t) PROVE attendance' = attendance
    <3>1. BeginAssign(t) => UNCHANGED rows
      BY DEF BeginAssign
    <3>2. InsertAssignment(t) => attendance' = attendance
      BY DEF InsertAssignment
    <3>3. BeginMove(t) => UNCHANGED rows
      BY Zenon DEF BeginMove
    <3>4. BeginEnd(t) => UNCHANGED rows
      BY DEF BeginEnd
    <3>5. BeginDelete(t) => UNCHANGED rows
      BY DEF BeginDelete
    <3>6. SaveAssignment(t) => attendance' = attendance
      BY DEF SaveAssignment
    <3> QED
      BY <2>1, <3>1, <3>2, <3>3, <3>4, <3>5, <3>6 DEF ShiftStep, rows
  <2>2. ASSUME NEW t \in Tasks, DayStep(t) PROVE WriteRow(t) \/ LockRow(t) \/ attendance' = attendance
    <3>1. BeginCheckIn(t) \/ FindRow(t) => UNCHANGED rows
      BY DEF BeginCheckIn, FindRow
    <3>2. BeginCheckOut(t) => UNCHANGED rows
      BY DEF BeginCheckOut
    <3>3. BeginCorrect(t) => UNCHANGED rows
      BY Zenon DEF BeginCorrect
    <3>4. Figure(t) \/ BeginLock(t) => UNCHANGED rows
      BY DEF Figure, BeginLock
    <3> QED
      BY <2>2, <3>1, <3>2, <3>3, <3>4 DEF DayStep, rows
  <2>3. ASSUME NEW t \in Tasks, PayStep(t) PROVE attendance' = attendance
    BY <2>3 DEF PayStep, BeginOffer, BeginRevise, InsertPay, BeginActivate, Activate, BeginCancel,
                BeginRedate, BeginRemove, BeginRestore, KeepPay, rows
  <2>4. ASSUME NEW t \in Tasks, Crash(t) PROVE attendance' = attendance
    BY <2>4 DEF Crash, rows
  <2>5. ChangeDefault \/ UNCHANGED vars => attendance' = attendance
    BY DEF ChangeDefault, vars, rows
  <2> HIDE DEF Kept
  <2> QED
    BY <1>1, <1>2, <1>3, <2>1, <2>2, <2>3, <2>4, <2>5 DEF Next
<1>5. IInv /\ [Next]_vars => [Kept]_vars
  BY <1>4
<1> QED
  BY <1>5, Inductive, PTL DEF Spec, LockedStaysLocked

----------------------------------------------------------------------------
(* Payroll, which runs beside it: PayrollPeriod with rows of its own and the *)
(* same handlers, for any staff, run types and orders.                     *)

Generating == {"mark", "calculate", "write"}
Closing    == {"closing", "close", "reopen", "archive"}
RunMoves   == {"Processing", "Completed", "Locked"}

\* What a handler has found, with any number of them: a period that was not
\* locked, a run that may be moved, of a type that is asked for.
PayKnown(me) ==
  /\ me.pc # "idle" => period # "none"
  /\ me.pc \in Generating \cup {"approve"} => me.period # "Locked"
  /\ me.pc = "run" => me.run \notin {"none", "Locked"} /\ me.to \in RunMoves
  /\ me.pc = "adjust" => me.to \in Payroll!AdjustmentStatus
  /\ me.pc \in {"run", "payslips", "publish"} => me.of \in RunTypes /\ me.of \in ordered.types
  /\ me.pc \in Closing => "close" \in ordered.ops

\* A handler that is alone finds the rows as it loaded them.
PayCurrent(me) ==
  /\ me.pc \in Generating \cup {"approve"} => me.records = record
  /\ me.pc \in {"mark", "approve", "lock"} => me.period = period
  /\ me.pc \in {"calculate", "write"} => period = "Processing"
  /\ me.pc = "run" => run[me.of] = me.run
  /\ me.pc \in {"payslips", "publish"} => run[me.of] \notin {"none", "Locked"}

PayAlone == \A t, u \in Tasks : desk[t].pc # "idle" /\ desk[u].pc # "idle" => t = u

PayInv ==
  /\ Payroll!TypeOK
  /\ \A t \in Tasks : PayKnown(desk[t])
  /\ \A y \in RunTypes : run[y] # "none" => y \in ordered.types
  /\ Payroll!OneAtATime => PayAlone /\ \A t \in Tasks : PayCurrent(desk[t])
  /\ Payroll!ApprovedAsSeen

\* A handler at rest has loaded nothing, and so has one that just began.
LEMMA PayResting ==
  ASSUME Payroll!PayrollAssumption
  PROVE  Payroll!Resting \in Payroll!Task /\ Payroll!Resting.pc = "idle"
<1> 0 \in 0..MaxPay /\ Payroll!Blank \in Payroll!Record
  BY DEF Payroll!PayrollAssumption, Payroll!Blank, Payroll!Record, Payroll!Pay, Payroll!Missing
<1> QED
  BY DEF Payroll!Resting, Payroll!Task, Payroll!Pay, Payroll!PeriodStatus, Payroll!AdjustmentStatus,
         Payroll!RunStatus, Payroll!Missing

\* What a handler loads with the period.
LEMMA PayLoaded ==
  ASSUME Payroll!PayrollAssumption, PayInv
  PROVE  LET l == Payroll!Loaded IN
         /\ l \in Payroll!Task
         /\ l.period = period /\ l.records = record /\ l.closing = closing
<1> DEFINE r == Payroll!Resting
           l == [r EXCEPT !.period = period, !.records = record, !.closing = closing]
<1>1. r \in Payroll!Task
  BY PayResting
<1>2. /\ period \in Payroll!PeriodStatus /\ record \in [Staff -> Payroll!Record]
      /\ closing \in {"none", "Closed", "Open", "Archived"}
  BY DEF PayInv, Payroll!TypeOK, Payroll!Missing
<1> HIDE DEF r
<1>3. /\ l \in Payroll!Task
      /\ l.period = period /\ l.records = record /\ l.closing = closing
  BY <1>1, <1>2 DEF Payroll!Task, Payroll!Missing
<1>4. Payroll!Loaded = l
  BY DEF Payroll!Loaded, r
<1> QED
  BY <1>3, <1>4

\* When handlers do not overlap, one that begins is the only one.
LEMMA PayNobody ==
  ASSUME PayInv, Payroll!OneAtATime, NEW t, NEW op, Payroll!MayBegin(t, op)
  PROVE  \A u \in Tasks : desk[u].pc = "idle"
<1> DEFINE busy == {u \in Tasks : desk[u].pc # "idle"}
<1>1. IsFiniteSet(busy)
  BY WorkforceAssumption, FS_Subset
<1>2. Payroll!Cardinality(busy) = Cardinality(busy)
  BY DEF Payroll!Cardinality, Cardinality
<1>3. Cardinality(busy) < 1
  BY <1>2 DEF Payroll!MayBegin, Payroll!OneAtATime
<1>4. Cardinality(busy) \in Nat
  BY <1>1, FS_CardinalityType
<1>5. busy = {}
  BY <1>1, <1>3, <1>4, FS_EmptySet
<1> QED
  BY <1>5

\* The rows of the period, typed.
PayRows ==
  /\ period \in Payroll!PeriodStatus /\ due \in [Staff -> Payroll!Pay]
  /\ record \in [Staff -> Payroll!Record] /\ run \in [RunTypes -> Payroll!RunStatus \cup {"none"}]
  /\ payslip \in [Staff -> Payroll!Payslip]
  /\ closing \in {"none", "Closed", "Open", "Archived"} /\ adjustment \in Payroll!AdjustmentStatus
  /\ agreed \in [Staff -> Payroll!Pay]
  /\ changes \in 0..ordered.changes /\ lost \in 0..ordered.crashes /\ ordered \in Orders

\* A step of one handler: what it holds afterwards is right for it, the other
\* handlers know what they knew, and rest if handlers do not overlap.
LEMMA PayHandled ==
  ASSUME PayInv, NEW t \in Tasks,
         desk' = [desk EXCEPT ![t] = desk'[t]], desk'[t] \in Payroll!Task,
         ordered' = ordered, PayRows',
         Payroll!OneAtATime => \A u \in Tasks \ {t} : desk[u].pc = "idle",
         period # "none" => period' # "none",
         \A y \in RunTypes : run'[y] # "none" => y \in ordered.types,
         PayKnown(desk[t])', Payroll!OneAtATime => PayCurrent(desk[t])',
         Payroll!ApprovedAsSeen'
  PROVE  PayInv'
<1>1. desk \in [Tasks -> Payroll!Task]
  BY DEF PayInv, Payroll!TypeOK
<1>2. desk' \in [Tasks -> Payroll!Task] /\ \A u \in Tasks \ {t} : desk'[u] = desk[u]
  BY <1>1
<1>3. Payroll!TypeOK'
  BY <1>2 DEF PayRows, Payroll!TypeOK, Payroll!Missing
<1>4. ASSUME NEW u \in Tasks PROVE PayKnown(desk[u])'
  <2>1. CASE u = t
    BY <2>1
  <2>2. CASE u # t
    <3>1. PayKnown(desk[u]) /\ desk'[u] = desk[u]
      BY <1>2, <2>2 DEF PayInv
    <3> QED
      BY <3>1 DEF PayKnown
  <2> QED
    BY <2>1, <2>2
<1>5. Payroll!OneAtATime' = Payroll!OneAtATime
  BY DEF Payroll!OneAtATime
<1>6. ASSUME Payroll!OneAtATime PROVE PayAlone' /\ \A u \in Tasks : PayCurrent(desk[u])'
  <2>1. \A u \in Tasks \ {t} : desk'[u].pc = "idle"
    BY <1>2, <1>6
  <2>2. PayAlone'
    BY <2>1 DEF PayAlone
  <2>3. ASSUME NEW u \in Tasks PROVE PayCurrent(desk[u])'
    <3>1. CASE u = t
      BY <1>6, <3>1
    <3>2. CASE u # t
      BY <2>1, <3>2 DEF PayCurrent, Generating
    <3> QED
      BY <3>1, <3>2
  <2> QED
    BY <2>2, <2>3
<1> QED
  BY <1>3, <1>4, <1>5, <1>6 DEF PayInv

\* A handler at work is the only one if handlers do not overlap.
LEMMA PayOthers ==
  ASSUME PayInv, NEW t \in Tasks, desk[t].pc # "idle"
  PROVE  Payroll!OneAtATime => \A u \in Tasks \ {t} : desk[u].pc = "idle"
BY DEF PayInv, PayAlone

\* A handler that begins loads and writes no row.
LEMMA PayBegins ==
  ASSUME PayInv, NEW t \in Tasks, NEW op, Payroll!MayBegin(t, op),
         desk' = [desk EXCEPT ![t] = desk'[t]], desk'[t] \in Payroll!Task,
         period' = period, record' = record, run' = run, payslip' = payslip,
         closing' = closing, adjustment' = adjustment, due' = due, agreed' = agreed,
         changes' = changes, lost' = lost, ordered' = ordered,
         PayKnown(desk[t])', Payroll!OneAtATime => PayCurrent(desk[t])'
  PROVE  PayInv'
<1>1. Payroll!OneAtATime => \A u \in Tasks \ {t} : desk[u].pc = "idle"
  BY PayNobody
<1>2. PayRows'
  BY DEF PayInv, Payroll!TypeOK, PayRows, Payroll!Missing
<1>3. Payroll!ApprovedAsSeen'
  BY DEF PayInv, Payroll!ApprovedAsSeen, Payroll!OneAtATime
<1>4. \A y \in RunTypes : run'[y] # "none" => y \in ordered.types
  BY DEF PayInv
<1> QED
  BY <1>1, <1>2, <1>3, <1>4, PayHandled

\* A handler that ends, whatever it has committed.
LEMMA PayEnds ==
  ASSUME Payroll!PayrollAssumption, PayInv, NEW t \in Tasks, desk[t].pc # "idle", Payroll!Stop(t),
         ordered' = ordered, PayRows', period' # "none",
         \A y \in RunTypes : run'[y] # "none" => y \in ordered.types,
         Payroll!ApprovedAsSeen'
  PROVE  PayInv'
<1>1. Payroll!Resting \in Payroll!Task /\ Payroll!Resting.pc = "idle"
  BY PayResting
<1>2. desk' = [desk EXCEPT ![t] = Payroll!Resting]
  BY DEF Payroll!Stop, Payroll!Go
<1>3. desk'[t] = Payroll!Resting /\ desk' = [desk EXCEPT ![t] = desk'[t]]
  BY <1>2 DEF PayInv, Payroll!TypeOK
<1>4. PayKnown(desk[t])' /\ PayCurrent(desk[t])'
  BY <1>1, <1>3 DEF PayKnown, PayCurrent, Generating, Closing
<1>5. Payroll!OneAtATime => \A u \in Tasks \ {t} : desk[u].pc = "idle"
  BY PayOthers
<1> QED
  BY <1>1, <1>3, <1>4, <1>5, PayHandled

----------------------------------------------------------------------------
(* Payroll: the first period, and the engine *)

\* No period yet, and every handler rests.
LEMMA PayInit == ASSUME Payroll!PayrollAssumption, Payroll!Init PROVE PayInv
<1>1. Payroll!Resting \in Payroll!Task /\ Payroll!Resting.pc = "idle"
  BY PayResting
<1>2. \A t \in Tasks : desk[t] = Payroll!Resting
  BY DEF Payroll!Init
<1>3. 0 \in Payroll!Pay /\ Payroll!Blank \in Payroll!Record /\ Payroll!Blank \in Payroll!Payslip
  BY DEF Payroll!PayrollAssumption, Payroll!Blank, Payroll!Record, Payroll!Payslip, Payroll!Pay,
         Payroll!Missing
<1>4. ordered \in Orders /\ 0 \in 0..ordered.changes /\ 0 \in 0..ordered.crashes
  BY DEF Payroll!Init, Payroll!PayrollAssumption, Payroll!Scenario
<1>5. Payroll!TypeOK
  BY <1>1, <1>3, <1>4
     DEF Payroll!Init, Payroll!TypeOK, Payroll!PeriodStatus, Payroll!AdjustmentStatus,
         Payroll!RunStatus, Payroll!Missing
<1>6. \A t \in Tasks : PayKnown(desk[t]) /\ PayCurrent(desk[t])
  BY <1>1, <1>2 DEF PayKnown, PayCurrent, Generating, Closing
<1>7. PayAlone
  BY <1>1, <1>2 DEF PayAlone
<1>8. \A y \in RunTypes : run[y] = "none"
  BY DEF Payroll!Init, Payroll!Missing
<1>9. Payroll!ApprovedAsSeen
  BY DEF Payroll!Init, Payroll!ApprovedAsSeen, Payroll!Blank, Payroll!Missing
<1> QED
  BY <1>5, <1>6, <1>7, <1>8, <1>9 DEF PayInv

\* create_payroll_period, and a change of what an employee is due.
LEMMA PayOutside ==
  ASSUME Payroll!PayrollAssumption, PayInv,
         Payroll!CreatePeriod \/ \E e \in Staff : Payroll!Change(e)
  PROVE  PayInv'
<1>1. /\ record' = record /\ run' = run /\ payslip' = payslip /\ closing' = closing
      /\ adjustment' = adjustment /\ agreed' = agreed /\ desk' = desk /\ lost' = lost
      /\ ordered' = ordered
      /\ period' = period \/ (period = "none" /\ period' = "Draft")
  <2>1. CASE Payroll!CreatePeriod
    BY <2>1 DEF Payroll!CreatePeriod, Payroll!Missing
  <2>2. ASSUME NEW e \in Staff, Payroll!Change(e)
        PROVE  /\ UNCHANGED <<record, run, payslip, closing, adjustment, agreed, desk, lost>>
               /\ UNCHANGED <<ordered, period>>
    BY <2>2 DEF Payroll!Change, Payroll!rows
  <2> QED
    BY <2>1, <2>2
<1>2. /\ due' \in [Staff -> Payroll!Pay] /\ changes' \in 0..ordered.changes
  <2>1. CASE Payroll!CreatePeriod
    BY <2>1 DEF Payroll!CreatePeriod, PayInv, Payroll!TypeOK
  <2>2. ASSUME NEW e \in Staff, Payroll!Change(e)
        PROVE  due' \in [Staff -> Payroll!Pay] /\ changes' \in 0..ordered.changes
    <3>1. changes \in 0..ordered.changes /\ due \in [Staff -> Payroll!Pay] /\ ordered.changes \in Nat
      BY DEF PayInv, Payroll!TypeOK, Payroll!PayrollAssumption, Payroll!Scenario
    <3>2. changes' \in 0..ordered.changes
      BY <2>2, <3>1 DEF Payroll!Change
    <3>3. due' \in [Staff -> Payroll!Pay]
      BY <2>2, <3>1 DEF Payroll!Change
    <3> QED
      BY <3>2, <3>3
  <2> QED
    BY <2>1, <2>2
<1>3. Payroll!TypeOK'
  BY <1>1, <1>2 DEF PayInv, Payroll!TypeOK, Payroll!PeriodStatus
<1>4. ASSUME NEW t \in Tasks PROVE PayKnown(desk[t])'
  BY <1>1 DEF PayInv, PayKnown, Generating, Closing
<1>5. ASSUME NEW t \in Tasks, PayCurrent(desk[t]) PROVE PayCurrent(desk[t])'
  <2>1. PayKnown(desk[t])
    BY DEF PayInv
  <2> QED
    BY <1>1, <1>5, <2>1 DEF PayKnown, PayCurrent, Generating, Closing
<1>6. Payroll!OneAtATime' = Payroll!OneAtATime /\ PayAlone' = PayAlone
  BY <1>1 DEF Payroll!OneAtATime, PayAlone
<1>7. Payroll!ApprovedAsSeen'
  BY <1>1, <1>6 DEF PayInv, Payroll!ApprovedAsSeen
<1> QED
  BY <1>1, <1>3, <1>4, <1>5, <1>6, <1>7 DEF PayInv

\* What a handler that has loaded the period holds when it begins.
LEMMA PayLoading ==
  ASSUME Payroll!PayrollAssumption, PayInv, NEW p \in Generating \cup Closing \cup {"approve", "lock"}
  PROVE  LET l == [Payroll!Loaded EXCEPT !.pc = p] IN
         /\ l \in Payroll!Task /\ l.pc = p
         /\ l.period = period /\ l.records = record /\ l.closing = closing
<1> DEFINE l == Payroll!Loaded
<1>1. l \in Payroll!Task /\ l.period = period /\ l.records = record /\ l.closing = closing
  BY PayLoaded
<1> HIDE DEF l
<1> DEFINE m == [l EXCEPT !.pc = p]
<1>2. /\ m \in Payroll!Task /\ m.pc = p
      /\ m.period = period /\ m.records = record /\ m.closing = closing
  BY <1>1 DEF Payroll!Task, Generating, Closing
<1>3. m = [Payroll!Loaded EXCEPT !.pc = p]
  BY DEF l
<1> HIDE DEF m
<1> QED
  BY <1>2, <1>3

\* generate_payroll, approve_payroll, lock_payroll_period and the operations
\* of closing, as they begin.
LEMMA PayBeginPeriod ==
  ASSUME Payroll!PayrollAssumption, PayInv, NEW t \in Tasks,
         \/ Payroll!BeginGenerate(t) \/ Payroll!BeginApprove(t) \/ Payroll!BeginLock(t)
         \/ Payroll!BeginClose(t) \/ Payroll!BeginReopen(t)
  PROVE  PayInv'
<1>1. PICK p \in {"mark", "approve", "lock", "closing", "reopen", "archive"},
           op \in {"generate", "approve", "lock", "close"} :
        /\ Payroll!MayBegin(t, op) /\ Payroll!Go(t, [Payroll!Loaded EXCEPT !.pc = p])
        /\ p \in {"mark", "approve"} => period # "Locked"
        /\ p \in {"closing", "reopen", "archive"} => op = "close"
  BY DEF Payroll!BeginGenerate, Payroll!BeginApprove, Payroll!BeginLock, Payroll!BeginClose,
         Payroll!BeginReopen
<1>2. /\ period' = period /\ record' = record /\ run' = run /\ payslip' = payslip
      /\ closing' = closing /\ adjustment' = adjustment /\ due' = due /\ agreed' = agreed
      /\ changes' = changes /\ lost' = lost /\ ordered' = ordered
  BY DEF Payroll!BeginGenerate, Payroll!BeginApprove, Payroll!BeginLock, Payroll!BeginClose,
         Payroll!BeginReopen, Payroll!rows
<1> DEFINE l == [Payroll!Loaded EXCEPT !.pc = p]
<1>3. /\ l \in Payroll!Task /\ l.pc = p
      /\ l.period = period /\ l.records = record /\ l.closing = closing
  BY PayLoading DEF Generating, Closing
<1>4. desk' = [desk EXCEPT ![t] = l]
  BY <1>1 DEF Payroll!Go
<1> HIDE DEF l
<1>5. desk'[t] = l /\ desk' = [desk EXCEPT ![t] = desk'[t]]
  BY <1>4 DEF PayInv, Payroll!TypeOK
<1>6. period # "none" /\ op \in ordered.ops
  BY <1>1 DEF Payroll!MayBegin, Payroll!Missing
<1>7. PayKnown(desk[t])'
  BY <1>1, <1>2, <1>3, <1>5, <1>6 DEF PayKnown, Generating, Closing
<1>8. PayCurrent(desk[t])'
  BY <1>1, <1>2, <1>3, <1>5 DEF PayCurrent, Generating
<1>9. desk'[t] \in Payroll!Task
  BY <1>3, <1>5
<1> QED
  BY <1>1, <1>2, <1>5, <1>7, <1>8, <1>9, PayBegins

\* The rows stay typed when none changes.
LEMMA PayTyped == ASSUME PayInv PROVE PayRows /\ desk \in [Tasks -> Payroll!Task]
BY DEF PayInv, Payroll!TypeOK, PayRows, Payroll!Missing

\* A handler that goes on with what it holds.
LEMMA PayWorks ==
  ASSUME PayInv, NEW t \in Tasks, desk[t].pc # "idle",
         desk' = [desk EXCEPT ![t] = desk'[t]], desk'[t] \in Payroll!Task,
         ordered' = ordered, run' = run, record' = record, agreed' = agreed, PayRows',
         period' # "none", PayKnown(desk[t])', Payroll!OneAtATime => PayCurrent(desk[t])'
  PROVE  PayInv'
<1>1. Payroll!OneAtATime => \A u \in Tasks \ {t} : desk[u].pc = "idle"
  BY PayOthers
<1>2. Payroll!ApprovedAsSeen'
  BY DEF PayInv, Payroll!ApprovedAsSeen, Payroll!OneAtATime
<1>3. \A y \in RunTypes : run'[y] # "none" => y \in ordered.types
  BY DEF PayInv
<1> QED
  BY <1>1, <1>2, <1>3, PayHandled

\* The commit that marks the period as Processing.
LEMMA PayMark ==
  ASSUME PayInv, NEW t \in Tasks, Payroll!MarkProcessing(t)
  PROVE  PayInv'
<1> DEFINE me == desk[t]
           new == [me EXCEPT !.pc = "calculate"]
<1>1. me \in Payroll!Task /\ me.pc = "mark" /\ PayKnown(me) /\ PayRows
      /\ (Payroll!OneAtATime => PayCurrent(me))
  BY PayTyped DEF PayInv, Payroll!MarkProcessing
<1>2. desk' = [desk EXCEPT ![t] = new]
  BY DEF Payroll!MarkProcessing, Payroll!Go
<1>3. /\ period' = IF "Processing" = me.period THEN period ELSE "Processing"
      /\ record' = record /\ run' = run /\ payslip' = payslip /\ closing' = closing
      /\ adjustment' = adjustment /\ due' = due /\ agreed' = agreed /\ changes' = changes
      /\ lost' = lost /\ ordered' = ordered
  BY DEF Payroll!MarkProcessing, Payroll!Assigned
<1> HIDE DEF me
<1>4. /\ new \in Payroll!Task /\ new.pc = "calculate"
      /\ new.period = me.period /\ new.records = me.records
  BY <1>1 DEF Payroll!Task
<1> HIDE DEF new
<1>5. desk'[t] = new /\ desk' = [desk EXCEPT ![t] = desk'[t]]
  BY <1>2, PayTyped
<1>6. period # "none" /\ me.period # "Locked"
  BY <1>1 DEF PayKnown, Generating
<1>7. period' \in Payroll!PeriodStatus /\ period' # "none"
  BY <1>1, <1>3, <1>6 DEF PayRows, Payroll!PeriodStatus
<1>8. PayRows'
  BY <1>1, <1>3, <1>7 DEF PayRows
<1>9. PayKnown(desk[t])'
  BY <1>3, <1>4, <1>5, <1>6, <1>7 DEF PayKnown, Generating, Closing
<1>10. ASSUME Payroll!OneAtATime PROVE PayCurrent(desk[t])'
  <2>1. me.records = record /\ me.period = period
    BY <1>1, <1>10 DEF PayCurrent, Generating
  <2>2. period' = "Processing"
    BY <1>3, <2>1
  <2> QED
    BY <1>3, <1>4, <1>5, <2>1, <2>2 DEF PayCurrent, Generating
<1> QED
  BY <1>1, <1>3, <1>4, <1>5, <1>7, <1>8, <1>9, <1>10, PayWorks DEF me

\* calculate_payroll for every employee.
LEMMA PayCalculate ==
  ASSUME PayInv, NEW t \in Tasks, Payroll!Calculate(t)
  PROVE  PayInv'
<1> DEFINE me == desk[t]
           found == [e \in Staff |-> IF me.records[e] = Payroll!Blank THEN record[e] ELSE me.records[e]]
           new == [me EXCEPT !.pc = "write", !.pay = due, !.records = found]
<1>1. me \in Payroll!Task /\ me.pc = "calculate" /\ PayKnown(me) /\ PayRows
      /\ (Payroll!OneAtATime => PayCurrent(me))
  BY PayTyped DEF PayInv, Payroll!Calculate
<1>2. desk' = [desk EXCEPT ![t] = new]
  BY DEF Payroll!Calculate, Payroll!Go
<1>3. /\ period' = period
      /\ record' = record /\ run' = run /\ payslip' = payslip /\ closing' = closing
      /\ adjustment' = adjustment /\ due' = due /\ agreed' = agreed /\ changes' = changes
      /\ lost' = lost /\ ordered' = ordered
  BY DEF Payroll!Calculate, Payroll!rows
<1>4. me.records \in [Staff -> Payroll!Record] /\ record \in [Staff -> Payroll!Record]
      /\ due \in [Staff -> Payroll!Pay]
  BY <1>1 DEF Payroll!Task, PayRows
<1> HIDE DEF me
<1>5. found \in [Staff -> Payroll!Record]
  BY <1>4
<1>6. me.records = record => found = record
  BY <1>4
<1> HIDE DEF found
<1>7. /\ new \in Payroll!Task /\ new.pc = "write"
      /\ new.period = me.period /\ new.records = found
  BY <1>1, <1>4, <1>5 DEF Payroll!Task
<1> HIDE DEF new
<1>8. desk'[t] = new /\ desk' = [desk EXCEPT ![t] = desk'[t]]
  BY <1>2, PayTyped
<1>9. period # "none" /\ me.period # "Locked"
  BY <1>1 DEF PayKnown, Generating
<1>10. PayRows'
  BY <1>1, <1>3 DEF PayRows
<1>11. PayKnown(desk[t])'
  BY <1>3, <1>7, <1>8, <1>9 DEF PayKnown, Generating, Closing
<1>12. ASSUME Payroll!OneAtATime PROVE PayCurrent(desk[t])'
  <2>1. me.records = record /\ period = "Processing"
    BY <1>1, <1>12 DEF PayCurrent, Generating
  <2> QED
    BY <1>3, <1>6, <1>7, <1>8, <2>1 DEF PayCurrent, Generating
<1> QED
  BY <1>1, <1>3, <1>7, <1>8, <1>9, <1>10, <1>11, <1>12, PayWorks DEF me

\* The commit of the calculated records: alone, all of them are Calculated.
LEMMA PayFinishGenerate ==
  ASSUME Payroll!PayrollAssumption, PayInv, NEW t \in Tasks, Payroll!FinishGenerate(t)
  PROVE  PayInv'
<1> DEFINE me == desk[t]
           paid(e) == Payroll!Calculated(me, e)
<1>1. me \in Payroll!Task /\ me.pc = "write" /\ PayKnown(me) /\ PayRows
      /\ (Payroll!OneAtATime => PayCurrent(me))
  BY PayTyped DEF PayInv, Payroll!FinishGenerate
<1>2. /\ record' = [e \in Staff |-> IF e \in Payroll!Paid(me) THEN paid(e) ELSE record[e]]
      /\ period' = "Completed" /\ Payroll!Stop(t)
      /\ run' = run /\ payslip' = payslip /\ closing' = closing
      /\ adjustment' = adjustment /\ due' = due /\ agreed' = agreed /\ changes' = changes
      /\ lost' = lost /\ ordered' = ordered
  BY DEF Payroll!FinishGenerate
<1>3. /\ me.records \in [Staff -> Payroll!Record] /\ record \in [Staff -> Payroll!Record]
      /\ me.pay \in [Staff -> Payroll!Pay]
  BY <1>1 DEF Payroll!Task, PayRows
<1> HIDE DEF me
<1>4. ASSUME NEW e \in Staff
      PROVE  /\ paid(e) \in Payroll!Record
             /\ me.records[e] = record[e] => paid(e).status = "Calculated"
  <2>1. /\ me.records[e] \in Payroll!Record /\ record[e] \in Payroll!Record
        /\ me.pay[e] \in Payroll!Pay
    BY <1>3
  <2>2. paid(e) = [status |-> IF "Calculated" = me.records[e].status THEN record[e].status
                               ELSE "Calculated",
                   pay |-> IF me.pay[e] = me.records[e].pay THEN record[e].pay ELSE me.pay[e]]
    BY DEF Payroll!Calculated, Payroll!Assigned
  <2>3. paid(e) \in Payroll!Record
    BY <2>1, <2>2 DEF Payroll!Record
  <2> QED
    BY <2>2, <2>3
<1> HIDE DEF paid
<1>5. record' \in [Staff -> Payroll!Record]
  BY <1>2, <1>3, <1>4
<1>6. PayRows'
  BY <1>1, <1>2, <1>5 DEF PayRows, Payroll!PeriodStatus
<1>7. Payroll!ApprovedAsSeen'
  <2> SUFFICES ASSUME Payroll!OneAtATime, NEW e \in Staff, record'[e].status = "Approved"
               PROVE  record'[e].pay = agreed[e]
    BY <1>2 DEF Payroll!ApprovedAsSeen, Payroll!OneAtATime
  <2>1. me.records = record
    BY <1>1 DEF PayCurrent, Generating
  <2>2. record'[e] = record[e]
    BY <1>2, <1>4, <2>1
  <2> QED
    BY <2>2 DEF PayInv, Payroll!ApprovedAsSeen
<1>8. \A y \in RunTypes : run'[y] # "none" => y \in ordered.types
  BY <1>2 DEF PayInv
<1> QED
  BY <1>1, <1>2, <1>6, <1>7, <1>8, PayEnds DEF me

\* approve_payroll: alone, it approves the pay that it has loaded.
LEMMA PayFinishApprove ==
  ASSUME Payroll!PayrollAssumption, PayInv, NEW t \in Tasks, Payroll!FinishApprove(t)
  PROVE  PayInv'
<1> DEFINE me == desk[t]
           held == {e \in Staff : me.records[e] # Payroll!Blank}
           status(e) == IF "Approved" = me.records[e].status THEN record[e].status ELSE "Approved"
<1>1. me \in Payroll!Task /\ me.pc = "approve" /\ PayKnown(me) /\ PayRows
      /\ (Payroll!OneAtATime => PayCurrent(me))
  BY PayTyped DEF PayInv, Payroll!FinishApprove
<1>2. /\ record' = [e \in Staff |-> IF e \in held THEN [record[e] EXCEPT !.status = status(e)]
                                    ELSE record[e]]
      /\ agreed' = [e \in Staff |-> IF e \in held THEN me.records[e].pay ELSE agreed[e]]
      /\ period' = period /\ Payroll!Stop(t)
      /\ run' = run /\ payslip' = payslip /\ closing' = closing
      /\ adjustment' = adjustment /\ due' = due /\ changes' = changes
      /\ lost' = lost /\ ordered' = ordered
  BY <1>1 DEF Payroll!FinishApprove, Payroll!Assigned
<1>3. /\ me.records \in [Staff -> Payroll!Record] /\ record \in [Staff -> Payroll!Record]
      /\ agreed \in [Staff -> Payroll!Pay]
  BY <1>1 DEF Payroll!Task, PayRows
<1> HIDE DEF me
<1>4. ASSUME NEW e \in Staff
      PROVE  /\ [record[e] EXCEPT !.status = status(e)] \in Payroll!Record
             /\ [record[e] EXCEPT !.status = status(e)].pay = record[e].pay
             /\ me.records[e].pay \in Payroll!Pay
  <2>1. record[e] \in Payroll!Record /\ me.records[e] \in Payroll!Record
    BY <1>3
  <2>2. status(e) \in {"none", "Calculated", "Approved"}
    BY <2>1 DEF Payroll!Record, Payroll!Missing
  <2> HIDE DEF status
  <2> QED
    BY <2>1, <2>2 DEF Payroll!Record, Payroll!Missing
<1> HIDE DEF status
<1>5. record' \in [Staff -> Payroll!Record]
  BY <1>2, <1>3, <1>4
<1>6. agreed' \in [Staff -> Payroll!Pay]
  BY <1>2, <1>3, <1>4
<1>7. period # "none"
  BY <1>1 DEF PayKnown
<1>8. PayRows'
  BY <1>1, <1>2, <1>5, <1>6 DEF PayRows
<1>9. Payroll!ApprovedAsSeen'
  <2> SUFFICES ASSUME Payroll!OneAtATime, NEW e \in Staff, record'[e].status = "Approved"
               PROVE  record'[e].pay = agreed'[e]
    BY <1>2 DEF Payroll!ApprovedAsSeen, Payroll!OneAtATime
  <2>1. me.records = record
    BY <1>1 DEF PayCurrent
  <2>2. CASE e \in held
    BY <1>2, <1>4, <2>1, <2>2
  <2>3. CASE e \notin held
    <3>1. record'[e] = record[e] /\ agreed'[e] = agreed[e]
      BY <1>2, <2>3
    <3> QED
      BY <3>1 DEF PayInv, Payroll!ApprovedAsSeen
  <2> QED
    BY <2>2, <2>3
<1>10. \A y \in RunTypes : run'[y] # "none" => y \in ordered.types
  BY <1>2 DEF PayInv
<1> QED
  BY <1>1, <1>2, <1>7, <1>8, <1>9, <1>10, PayEnds DEF me

\* What ends without a change of records, runs or what was approved.
LEMMA PayLeaves ==
  ASSUME Payroll!PayrollAssumption, PayInv, NEW t \in Tasks, desk[t].pc # "idle", Payroll!Stop(t),
         ordered' = ordered, run' = run, record' = record, agreed' = agreed, PayRows',
         period' # "none"
  PROVE  PayInv'
<1>1. Payroll!ApprovedAsSeen'
  BY DEF PayInv, Payroll!ApprovedAsSeen, Payroll!OneAtATime
<1>2. \A y \in RunTypes : run'[y] # "none" => y \in ordered.types
  BY DEF PayInv
<1> QED
  BY <1>1, <1>2, PayEnds

\* A generation that met the unique key of a record, and a request that is lost.
LEMMA PayRefuse ==
  ASSUME Payroll!PayrollAssumption, PayInv, NEW t \in Tasks,
         Payroll!RefuseGenerate(t) \/ Payroll!Crash(t)
  PROVE  PayInv'
<1>1. /\ desk[t].pc # "idle" /\ Payroll!Stop(t) /\ ordered' = ordered
      /\ period' = period /\ record' = record /\ run' = run /\ payslip' = payslip
      /\ closing' = closing /\ adjustment' = adjustment /\ due' = due /\ agreed' = agreed
      /\ changes' = changes
  BY DEF Payroll!RefuseGenerate, Payroll!Crash, Payroll!rows
<1>2. lost' \in 0..ordered.crashes
  <2>1. lost \in 0..ordered.crashes /\ ordered.crashes \in Nat
    BY DEF PayInv, Payroll!TypeOK, Payroll!PayrollAssumption, Payroll!Scenario
  <2> QED
    BY <2>1 DEF Payroll!RefuseGenerate, Payroll!Crash
<1>3. PayRows'
  BY <1>1, <1>2, PayTyped DEF PayRows
<1>4. period # "none"
  BY <1>1 DEF PayInv, PayKnown
<1> QED
  BY <1>1, <1>3, <1>4, PayLeaves

\* lock_payroll_period, and the last commit of closing: the status of the period.
LEMMA PayFinishPeriod ==
  ASSUME Payroll!PayrollAssumption, PayInv, NEW t \in Tasks,
         Payroll!FinishLock(t) \/ Payroll!ClosePeriod(t) \/ Payroll!FinishReopen(t)
  PROVE  PayInv'
<1>1. /\ desk[t].pc # "idle" /\ Payroll!Stop(t) /\ ordered' = ordered
      /\ record' = record /\ run' = run /\ payslip' = payslip
      /\ adjustment' = adjustment /\ due' = due /\ agreed' = agreed
      /\ changes' = changes /\ lost' = lost
      /\ closing' \in {closing, "Open", "Archived"}
      /\ period' \in {period, "Locked", "Closed", "Open", "Archived"}
  BY DEF Payroll!FinishLock, Payroll!ClosePeriod, Payroll!FinishReopen, Payroll!Assigned
<1>2. period # "none"
  BY <1>1 DEF PayInv, PayKnown
<1>3. period' \in Payroll!PeriodStatus /\ period' # "none"
  BY <1>1, <1>2, PayTyped DEF PayRows, Payroll!PeriodStatus
<1>4. PayRows'
  BY <1>1, <1>3, PayTyped DEF PayRows
<1> QED
  BY <1>1, <1>3, <1>4, PayLeaves

\* The repository's commit of the closing row.
LEMMA PayCommitClosing ==
  ASSUME Payroll!PayrollAssumption, PayInv, NEW t \in Tasks, Payroll!CommitClosing(t)
  PROVE  PayInv'
<1> DEFINE me == desk[t]
           new == [me EXCEPT !.pc = "close"]
<1>1. me \in Payroll!Task /\ me.pc = "closing" /\ PayKnown(me) /\ PayRows
  BY PayTyped DEF PayInv, Payroll!CommitClosing
<1>2. /\ period' = period
      /\ record' = record /\ run' = run /\ payslip' = payslip
      /\ adjustment' = adjustment /\ due' = due /\ agreed' = agreed /\ changes' = changes
      /\ lost' = lost /\ ordered' = ordered
  BY DEF Payroll!CommitClosing
<1>3. \/ Payroll!Stop(t) /\ closing' = closing
      \/ desk' = [desk EXCEPT ![t] = new] /\ closing' = "Closed"
  BY DEF Payroll!CommitClosing, Payroll!Go
<1>4. PayRows'
  BY <1>1, <1>2, <1>3 DEF PayRows
<1>5. period # "none" /\ "close" \in ordered.ops
  BY <1>1 DEF PayKnown, Closing
<1>6. CASE Payroll!Stop(t)
  BY <1>1, <1>2, <1>4, <1>5, <1>6, PayLeaves
<1>7. CASE desk' = [desk EXCEPT ![t] = new]
  <2> HIDE DEF me
  <2>1. new \in Payroll!Task /\ new.pc = "close"
    BY <1>1 DEF Payroll!Task
  <2> HIDE DEF new
  <2>2. desk'[t] = new /\ desk' = [desk EXCEPT ![t] = desk'[t]]
    BY <1>7, PayTyped
  <2>3. PayKnown(desk[t])' /\ PayCurrent(desk[t])'
    BY <1>2, <1>5, <2>1, <2>2 DEF PayKnown, PayCurrent, Generating, Closing
  <2> QED
    BY <1>1, <1>2, <1>4, <1>5, <2>1, <2>2, <2>3, PayWorks DEF me
<1> HIDE DEF me, new
<1> QED
  BY <1>3, <1>6, <1>7

----------------------------------------------------------------------------
(* Payroll: runs, payslips and adjustments *)

\* create_payroll_run: a run of a type that is asked for.
LEMMA PayCreateRun ==
  ASSUME Payroll!PayrollAssumption, PayInv, NEW t \in Tasks, Payroll!CreateRun(t)
  PROVE  PayInv'
<1>1. PICK y \in ordered.types : run[y] = "none" /\ run' = [run EXCEPT ![y] = "Draft"]
  BY DEF Payroll!CreateRun, Payroll!Missing
<1>2. /\ Payroll!MayBegin(t, "run") /\ desk' = desk
      /\ period' = period /\ record' = record /\ payslip' = payslip /\ closing' = closing
      /\ adjustment' = adjustment /\ due' = due /\ agreed' = agreed
      /\ changes' = changes /\ lost' = lost /\ ordered' = ordered
  BY DEF Payroll!CreateRun
<1>3. run \in [RunTypes -> Payroll!RunStatus \cup {"none"}] /\ PayRows
  BY PayTyped DEF PayRows
<1>4. run' \in [RunTypes -> Payroll!RunStatus \cup {"none"}]
  BY <1>1, <1>3 DEF Payroll!RunStatus
<1>5. PayRows'
  BY <1>2, <1>3, <1>4 DEF PayRows
<1>6. desk' = [desk EXCEPT ![t] = desk'[t]] /\ desk'[t] \in Payroll!Task /\ desk[t].pc = "idle"
  BY <1>2, PayTyped DEF Payroll!MayBegin
<1>7. PayKnown(desk[t])' /\ PayCurrent(desk[t])'
  BY <1>2, <1>6 DEF PayKnown, PayCurrent, Generating, Closing
<1>8. \A z \in RunTypes : run'[z] # "none" => z \in ordered.types
  BY <1>1, <1>3 DEF PayInv
<1>9. Payroll!ApprovedAsSeen'
  BY <1>2 DEF PayInv, Payroll!ApprovedAsSeen, Payroll!OneAtATime
<1>10. Payroll!OneAtATime => \A u \in Tasks \ {t} : desk[u].pc = "idle"
  BY <1>2, PayNobody
<1> QED
  BY <1>2, <1>5, <1>6, <1>7, <1>8, <1>9, <1>10, PayHandled

\* start_payroll_run, complete_payroll_run, lock_payroll_run, as they begin.
LEMMA PayBeginRun ==
  ASSUME Payroll!PayrollAssumption, PayInv, NEW t \in Tasks, Payroll!BeginRun(t)
  PROVE  PayInv'
<1>1. PICK y \in RunTypes, s \in {"Processing", "Completed", "Locked"} :
        /\ Payroll!MayMove(run[y], s)
        /\ Payroll!Go(t, [Payroll!Resting EXCEPT !.pc = "run", !.of = y, !.run = run[y], !.to = s])
  BY DEF Payroll!BeginRun
<1>2. /\ Payroll!MayBegin(t, "run")
      /\ period' = period /\ record' = record /\ run' = run /\ payslip' = payslip
      /\ closing' = closing /\ adjustment' = adjustment /\ due' = due /\ agreed' = agreed
      /\ changes' = changes /\ lost' = lost /\ ordered' = ordered
  BY DEF Payroll!BeginRun, Payroll!rows
<1>3. run[y] \in Payroll!RunStatus /\ run[y] # "Locked"
  <2>1. run[y] \in Payroll!RunStatus \cup {"none"}
    BY PayTyped DEF PayRows
  <2> QED
    BY <1>1, <2>1 DEF Payroll!MayMove, Payroll!Missing
<1>4. y \in ordered.types /\ run[y] # "none"
  BY <1>3 DEF PayInv, Payroll!RunStatus
<1> DEFINE r == Payroll!Resting
           new == [r EXCEPT !.pc = "run", !.of = y, !.run = run[y], !.to = s]
<1>5. desk' = [desk EXCEPT ![t] = new]
  BY <1>1 DEF Payroll!Go
<1>6. r \in Payroll!Task
  BY PayResting
<1> HIDE DEF r
<1>7. new \in Payroll!Task /\ new.pc = "run" /\ new.of = y /\ new.run = run[y] /\ new.to = s
  BY <1>3, <1>6 DEF Payroll!Task, Payroll!RunStatus
<1> HIDE DEF new
<1>8. desk'[t] = new /\ desk' = [desk EXCEPT ![t] = desk'[t]]
  BY <1>5, PayTyped
<1>9. period # "none"
  BY <1>2 DEF Payroll!MayBegin, Payroll!Missing
<1>10. PayKnown(desk[t])' /\ PayCurrent(desk[t])'
  BY <1>2, <1>3, <1>4, <1>7, <1>8, <1>9 DEF PayKnown, PayCurrent, Generating, Closing, RunMoves
<1>11. desk'[t] \in Payroll!Task
  BY <1>7, <1>8
<1>12. /\ Payroll!MayBegin(t, "run")
       /\ period' = period /\ record' = record /\ run' = run /\ payslip' = payslip
       /\ closing' = closing /\ adjustment' = adjustment /\ due' = due /\ agreed' = agreed
       /\ changes' = changes /\ lost' = lost /\ ordered' = ordered
  BY <1>2
<1> QED
  BY <1>8, <1>10, <1>11, <1>12, PayBegins

\* The commit of the run's status.
LEMMA PayFinishRun ==
  ASSUME Payroll!PayrollAssumption, PayInv, NEW t \in Tasks, Payroll!FinishRun(t)
  PROVE  PayInv'
<1> DEFINE me == desk[t]
           new == IF me.to = me.run THEN run[me.of] ELSE me.to
<1>1. me \in Payroll!Task /\ me.pc = "run" /\ PayKnown(me) /\ PayRows
  BY PayTyped DEF PayInv, Payroll!FinishRun
<1>2. /\ run' = [run EXCEPT ![me.of] = new] /\ Payroll!Stop(t)
      /\ period' = period /\ record' = record /\ payslip' = payslip
      /\ closing' = closing /\ adjustment' = adjustment /\ due' = due /\ agreed' = agreed
      /\ changes' = changes /\ lost' = lost /\ ordered' = ordered
  BY DEF Payroll!FinishRun, Payroll!Assigned
<1>3. /\ me.of \in RunTypes /\ me.of \in ordered.types /\ period # "none"
      /\ me.to \in RunMoves
  BY <1>1 DEF PayKnown
<1>4. run \in [RunTypes -> Payroll!RunStatus \cup {"none"}]
  BY <1>1 DEF PayRows
<1> HIDE DEF me
<1>5. new \in Payroll!RunStatus \cup {"none"}
  BY <1>3, <1>4 DEF Payroll!RunStatus, RunMoves
<1> HIDE DEF new
<1>6. run' \in [RunTypes -> Payroll!RunStatus \cup {"none"}]
  BY <1>2, <1>4, <1>5
<1>7. PayRows'
  BY <1>1, <1>2, <1>6 DEF PayRows
<1>8. \A y \in RunTypes : run'[y] # "none" => y \in ordered.types
  BY <1>2, <1>3, <1>4 DEF PayInv
<1>9. Payroll!ApprovedAsSeen'
  BY <1>2 DEF PayInv, Payroll!ApprovedAsSeen, Payroll!OneAtATime
<1> QED
  BY <1>1, <1>2, <1>3, <1>7, <1>8, <1>9, PayEnds DEF me

\* generate_payslips and publish_payslips, as they begin.
LEMMA PayBeginPayslips ==
  ASSUME Payroll!PayrollAssumption, PayInv, NEW t \in Tasks,
         Payroll!BeginPayslips(t) \/ Payroll!BeginPublish(t)
  PROVE  PayInv'
<1>1. PICK y \in RunTypes, p \in {"payslips", "publish"}, w \in SUBSET Staff,
           op \in {"payslips", "publish"} :
        /\ Payroll!MayBegin(t, op) /\ run[y] \notin {"none", "Locked"}
        /\ Payroll!Go(t, [Payroll!Loaded EXCEPT !.pc = p, !.of = y, !.todo = w])
  <2>1. CASE Payroll!BeginPayslips(t)
    <3>1. {e \in Staff : record[e] # Payroll!Blank} \in SUBSET Staff
      OBVIOUS
    <3>2. PICK y \in RunTypes :
            /\ run[y] \notin {"none", "Locked"}
            /\ Payroll!Go(t, [Payroll!Loaded EXCEPT !.pc = "payslips", !.of = y,
                               !.todo = {e \in Staff : record[e] # Payroll!Blank}])
      BY <2>1 DEF Payroll!BeginPayslips, Payroll!Missing
    <3>3. Payroll!MayBegin(t, "payslips")
      BY <2>1 DEF Payroll!BeginPayslips
    <3> QED
      BY <3>1, <3>2, <3>3
  <2>2. CASE Payroll!BeginPublish(t)
    <3> DEFINE w == {e \in {e \in Staff : payslip[e] # Payroll!Blank} : payslip[e].status # "Published"}
    <3>1. w \in SUBSET Staff
      OBVIOUS
    <3>2. PICK y \in RunTypes :
            /\ run[y] \notin {"none", "Locked"}
            /\ Payroll!Go(t, [Payroll!Loaded EXCEPT !.pc = "publish", !.of = y, !.todo = w])
      BY <2>2 DEF Payroll!BeginPublish, Payroll!Missing
    <3>3. Payroll!MayBegin(t, "publish")
      BY <2>2 DEF Payroll!BeginPublish
    <3> HIDE DEF w
    <3> QED
      BY <3>1, <3>2, <3>3
  <2> QED
    BY <2>1, <2>2
<1>2. /\ period' = period /\ record' = record /\ run' = run /\ payslip' = payslip
      /\ closing' = closing /\ adjustment' = adjustment /\ due' = due /\ agreed' = agreed
      /\ changes' = changes /\ lost' = lost /\ ordered' = ordered
  BY DEF Payroll!BeginPayslips, Payroll!BeginPublish, Payroll!rows
<1>3. y \in ordered.types
  BY <1>1 DEF PayInv
<1> DEFINE r == Payroll!Loaded
           new == [r EXCEPT !.pc = p, !.of = y, !.todo = w]
<1>4. desk' = [desk EXCEPT ![t] = new]
  BY <1>1 DEF Payroll!Go
<1>5. r \in Payroll!Task
  BY PayLoaded
<1> HIDE DEF r
<1>6. new \in Payroll!Task /\ new.pc = p /\ new.of = y
  BY <1>5 DEF Payroll!Task
<1> HIDE DEF new
<1>7. desk'[t] = new /\ desk' = [desk EXCEPT ![t] = desk'[t]]
  BY <1>4, PayTyped
<1>8. period # "none"
  BY <1>1 DEF Payroll!MayBegin, Payroll!Missing
<1>9. PayKnown(desk[t])' /\ PayCurrent(desk[t])'
  BY <1>1, <1>2, <1>3, <1>6, <1>7, <1>8 DEF PayKnown, PayCurrent, Generating, Closing
<1>10. desk'[t] \in Payroll!Task
  BY <1>6, <1>7
<1> QED
  BY <1>1, <1>2, <1>7, <1>9, <1>10, PayBegins

\* One payslip more is committed.
LEMMA PayWritePayslip ==
  ASSUME Payroll!PayrollAssumption, PayInv, NEW t \in Tasks, Payroll!WritePayslip(t)
  PROVE  PayInv'
<1> DEFINE me == desk[t]
<1>1. /\ me \in Payroll!Task /\ me.pc = "payslips" /\ PayKnown(me) /\ PayRows
      /\ (Payroll!OneAtATime => PayCurrent(me))
  BY PayTyped DEF PayInv, Payroll!WritePayslip
<1>2. /\ period' = period
      /\ record' = record /\ run' = run /\ closing' = closing
      /\ adjustment' = adjustment /\ due' = due /\ agreed' = agreed /\ changes' = changes
      /\ lost' = lost /\ ordered' = ordered
  BY DEF Payroll!WritePayslip
<1>3. PICK e \in me.todo :
        /\ payslip' = [payslip EXCEPT ![e] = [status |-> "Generated", pay |-> me.records[e].pay]]
        /\ Payroll!Stop(t) \/ Payroll!Go(t, [me EXCEPT !.todo = @ \ {e}])
  BY DEF Payroll!WritePayslip
<1> DEFINE new == [me EXCEPT !.todo = @ \ {e}]
<1>4. Payroll!Stop(t) \/ desk' = [desk EXCEPT ![t] = new]
  BY <1>3 DEF Payroll!Go
<1>5. payslip' \in [Staff -> Payroll!Payslip]
  <2>1. e \in Staff /\ me.records[e] \in Payroll!Record
    BY <1>1 DEF Payroll!Task
  <2>2. me.records[e].pay \in Payroll!Pay
    BY <2>1 DEF Payroll!Record
  <2>3. payslip \in [Staff -> Payroll!Payslip]
    BY <1>1 DEF PayRows
  <2>4. [status |-> "Generated", pay |-> me.records[e].pay] \in Payroll!Payslip
    BY <2>2 DEF Payroll!Payslip
  <2> QED
    BY <1>3, <2>3, <2>4
<1>6. PayRows'
  BY <1>1, <1>2, <1>5 DEF PayRows
<1>7. period # "none"
  BY <1>1 DEF PayKnown
<1>8. CASE Payroll!Stop(t)
  BY <1>1, <1>2, <1>6, <1>7, <1>8, PayLeaves
<1>9. CASE desk' = [desk EXCEPT ![t] = new]
  <2> HIDE DEF me
  <2>1. new \in Payroll!Task /\ new.pc = "payslips" /\ new.of = me.of
    BY <1>1 DEF Payroll!Task
  <2> HIDE DEF new
  <2>2. desk'[t] = new /\ desk' = [desk EXCEPT ![t] = desk'[t]]
    BY <1>9, PayTyped
  <2>3. PayKnown(desk[t])'
    BY <1>1, <1>2, <1>7, <2>1, <2>2 DEF PayKnown, Generating, Closing
  <2>4. Payroll!OneAtATime => PayCurrent(desk[t])'
    BY <1>1, <1>2, <2>1, <2>2 DEF PayCurrent, Generating
  <2> QED
    BY <1>1, <1>2, <1>6, <1>7, <2>1, <2>2, <2>3, <2>4, PayWorks DEF me
<1> HIDE DEF me, new
<1> QED
  BY <1>4, <1>8, <1>9

\* publish_payslips, and the commit of an adjustment.
LEMMA PayFinishRows ==
  ASSUME Payroll!PayrollAssumption, PayInv, NEW t \in Tasks,
         Payroll!FinishPublish(t) \/ Payroll!FinishAdjust(t)
  PROVE  PayInv'
<1>1. /\ desk[t].pc \in {"publish", "adjust"} /\ Payroll!Stop(t) /\ ordered' = ordered
      /\ period' = period /\ record' = record /\ run' = run
      /\ closing' = closing /\ due' = due /\ agreed' = agreed
      /\ changes' = changes /\ lost' = lost
  BY DEF Payroll!FinishPublish, Payroll!FinishAdjust
<1>2. payslip' \in [Staff -> Payroll!Payslip]
  <2>1. payslip \in [Staff -> Payroll!Payslip]
    BY PayTyped DEF PayRows
  <2>2. CASE Payroll!FinishPublish(t)
    <3>1. \A e \in Staff : [payslip[e] EXCEPT !.status = "Published"] \in Payroll!Payslip
      BY <2>1 DEF Payroll!Payslip
    <3> QED
      BY <2>1, <2>2, <3>1 DEF Payroll!FinishPublish
  <2> QED
    BY <2>1, <2>2 DEF Payroll!FinishAdjust, Payroll!FinishPublish
<1>3. adjustment' \in Payroll!AdjustmentStatus
  <2>1. adjustment \in Payroll!AdjustmentStatus /\ PayKnown(desk[t])
    BY PayTyped DEF PayRows, PayInv
  <2> QED
    BY <1>1, <2>1 DEF Payroll!FinishPublish, Payroll!FinishAdjust, PayKnown
<1>4. PayRows'
  BY <1>1, <1>2, <1>3, PayTyped DEF PayRows
<1>5. period # "none" /\ desk[t].pc # "idle"
  BY <1>1 DEF PayInv, PayKnown
<1> QED
  BY <1>1, <1>4, <1>5, PayLeaves

\* The operations of adjustments, as they begin.
LEMMA PayBeginAdjust ==
  ASSUME Payroll!PayrollAssumption, PayInv, NEW t \in Tasks, Payroll!BeginAdjust(t)
  PROVE  PayInv'
<1>1. PICK s \in Payroll!AdjustmentStatus :
        Payroll!Go(t, [Payroll!Resting EXCEPT !.pc = "adjust", !.to = s])
  BY DEF Payroll!BeginAdjust, Payroll!AdjustmentStatus
<1>2. /\ Payroll!MayBegin(t, "adjust")
      /\ period' = period /\ record' = record /\ run' = run /\ payslip' = payslip
      /\ closing' = closing /\ adjustment' = adjustment /\ due' = due /\ agreed' = agreed
      /\ changes' = changes /\ lost' = lost /\ ordered' = ordered
  BY DEF Payroll!BeginAdjust, Payroll!rows
<1> DEFINE r == Payroll!Resting
           new == [r EXCEPT !.pc = "adjust", !.to = s]
<1>3. desk' = [desk EXCEPT ![t] = new]
  BY <1>1 DEF Payroll!Go
<1>4. r \in Payroll!Task
  BY PayResting
<1> HIDE DEF r
<1>5. new \in Payroll!Task /\ new.pc = "adjust" /\ new.to = s
  BY <1>4 DEF Payroll!Task
<1> HIDE DEF new
<1>6. desk'[t] = new /\ desk' = [desk EXCEPT ![t] = desk'[t]]
  BY <1>3, PayTyped
<1>7. period # "none"
  BY <1>2 DEF Payroll!MayBegin, Payroll!Missing
<1>8. PayKnown(desk[t])' /\ PayCurrent(desk[t])'
  BY <1>2, <1>5, <1>6, <1>7 DEF PayKnown, PayCurrent, Generating, Closing
<1>9. desk'[t] \in Payroll!Task
  BY <1>5, <1>6
<1> QED
  BY <1>2, <1>6, <1>8, <1>9, PayBegins

----------------------------------------------------------------------------
(* Payroll: the theorems *)

\* Every step of payroll keeps the invariant.
LEMMA PayNext ==
  ASSUME Payroll!PayrollAssumption, PayInv, [Payroll!Next]_(Payroll!vars)
  PROVE  PayInv'
<1>1. CASE UNCHANGED Payroll!vars
  BY <1>1 DEF Payroll!vars, Payroll!rows, PayInv, Payroll!TypeOK, PayAlone, PayKnown, PayCurrent,
              Payroll!OneAtATime, Payroll!ApprovedAsSeen
<1>2. CASE Payroll!CreatePeriod \/ \E e \in Staff : Payroll!Change(e)
  BY <1>2, PayOutside
<1>3. ASSUME NEW t \in Tasks, Payroll!Step(t) PROVE PayInv'
  BY <1>3, PayBeginPeriod, PayMark, PayCalculate, PayFinishGenerate, PayRefuse, PayFinishApprove,
     PayFinishPeriod, PayCommitClosing, PayCreateRun, PayBeginRun, PayFinishRun, PayBeginPayslips,
     PayWritePayslip, PayFinishRows, PayBeginAdjust
     DEF Payroll!Step
<1> QED
  BY <1>1, <1>2, <1>3 DEF Payroll!Next

\* The invariant holds in every state of a payroll period.
THEOREM PayrollInvariance ==
  ASSUME Payroll!PayrollAssumption
  PROVE  Payroll!Spec => []PayInv
<1>1. Payroll!Init => PayInv
  BY PayInit
<1>2. PayInv /\ [Payroll!Next]_(Payroll!vars) => PayInv'
  BY PayNext
<1> QED
  BY <1>1, <1>2, PTL DEF Payroll!Spec

\* One request at a time, a record that is Approved has the pay that its
\* approval saw, whatever is generated again and whatever request is lost
\* (generate_payroll, approve_payroll).
THEOREM ApprovedPayAsSeen ==
  ASSUME Payroll!PayrollAssumption
  PROVE  Payroll!Spec => []ApprovedAsSeen
<1>1. PayInv => ApprovedAsSeen
  BY DEF PayInv, ApprovedAsSeen
<1> QED
  BY <1>1, PayrollInvariance, PTL

\* The records change in the commits of a generation and of an approval.
LEMMA PayRecords ==
  ASSUME Payroll!PayrollAssumption, PayInv, Payroll!Next, record' # record
  PROVE  \E t \in Tasks : Payroll!FinishGenerate(t) \/ Payroll!FinishApprove(t)
<1>1. ASSUME NEW t \in Tasks, Payroll!Step(t)
      PROVE  Payroll!FinishGenerate(t) \/ Payroll!FinishApprove(t)
  BY <1>1 DEF Payroll!Step, Payroll!BeginGenerate, Payroll!MarkProcessing, Payroll!Calculate,
     Payroll!RefuseGenerate, Payroll!BeginApprove, Payroll!BeginLock, Payroll!FinishLock,
     Payroll!CreateRun, Payroll!BeginRun, Payroll!FinishRun, Payroll!BeginPayslips,
     Payroll!WritePayslip, Payroll!BeginPublish, Payroll!FinishPublish, Payroll!BeginClose,
     Payroll!CommitClosing, Payroll!ClosePeriod, Payroll!BeginReopen, Payroll!FinishReopen,
     Payroll!BeginAdjust, Payroll!FinishAdjust, Payroll!Crash, Payroll!rows
<1> QED
  BY <1>1, Zenon DEF Payroll!Next, Payroll!CreatePeriod, Payroll!Change, Payroll!rows

\* The status of the period changes in the commits of generation, lock and
\* closing, and when the period is created.
LEMMA PayPeriods ==
  ASSUME Payroll!PayrollAssumption, PayInv, Payroll!Next, period' # period
  PROVE  \/ Payroll!CreatePeriod
         \/ \E t \in Tasks : \/ Payroll!MarkProcessing(t) \/ Payroll!FinishGenerate(t)
                             \/ Payroll!FinishLock(t) \/ desk[t].pc \in Closing
<1>1. ASSUME NEW t \in Tasks, Payroll!Step(t)
      PROVE  \/ Payroll!MarkProcessing(t) \/ Payroll!FinishGenerate(t)
             \/ Payroll!FinishLock(t) \/ desk[t].pc \in Closing
  BY <1>1 DEF Payroll!Step, Payroll!BeginGenerate, Payroll!Calculate, Payroll!FinishApprove,
     Payroll!RefuseGenerate, Payroll!BeginApprove, Payroll!BeginLock,
     Payroll!CreateRun, Payroll!BeginRun, Payroll!FinishRun, Payroll!BeginPayslips,
     Payroll!WritePayslip, Payroll!BeginPublish, Payroll!FinishPublish, Payroll!BeginClose,
     Payroll!CommitClosing, Payroll!ClosePeriod, Payroll!BeginReopen, Payroll!FinishReopen,
     Payroll!BeginAdjust, Payroll!FinishAdjust, Payroll!Crash, Payroll!rows, Closing
<1> QED
  BY <1>1, Zenon DEF Payroll!Next, Payroll!CreatePeriod, Payroll!Change, Payroll!rows

\* Runs and payslips change in the commits of their own operations.
LEMMA PayRuns ==
  ASSUME Payroll!PayrollAssumption, PayInv, Payroll!Next, ~ (run' = run /\ payslip' = payslip)
  PROVE  \E t \in Tasks : \/ Payroll!CreateRun(t) \/ Payroll!FinishRun(t)
                          \/ Payroll!WritePayslip(t) \/ Payroll!FinishPublish(t)
<1>1. ASSUME NEW t \in Tasks, Payroll!Step(t)
      PROVE  \/ Payroll!CreateRun(t) \/ Payroll!FinishRun(t)
             \/ Payroll!WritePayslip(t) \/ Payroll!FinishPublish(t)
  BY <1>1 DEF Payroll!Step, Payroll!BeginGenerate, Payroll!MarkProcessing, Payroll!Calculate,
     Payroll!FinishGenerate, Payroll!FinishApprove,
     Payroll!RefuseGenerate, Payroll!BeginApprove, Payroll!BeginLock, Payroll!FinishLock,
     Payroll!BeginRun, Payroll!BeginPayslips, Payroll!BeginPublish, Payroll!BeginClose,
     Payroll!CommitClosing, Payroll!ClosePeriod, Payroll!BeginReopen, Payroll!FinishReopen,
     Payroll!BeginAdjust, Payroll!FinishAdjust, Payroll!Crash, Payroll!rows
<1> QED
  BY <1>1, Zenon DEF Payroll!Next, Payroll!CreatePeriod, Payroll!Change, Payroll!rows

\* What a step may not do to a Locked period and to Locked runs.
LEMMA PayFrozen ==
  ASSUME Payroll!PayrollAssumption, PayInv, Payroll!Next
  PROVE  /\ period = "Locked" /\ record' # record =>
              \E t \in Tasks : desk[t].pc \in {"write", "approve"} /\ desk[t].period # "Locked"
         /\ Payroll!OneAtATime /\ "close" \notin ordered.ops /\ period = "Locked"
              => period' = period /\ record' = record
         /\ Payroll!OneAtATime /\ (\A y \in ordered.types : run[y] = "Locked")
              => run' = run /\ payslip' = payslip
<1>1. ASSUME NEW t \in Tasks, Payroll!FinishGenerate(t) \/ Payroll!FinishApprove(t)
      PROVE  /\ desk[t].pc \in {"write", "approve"} /\ desk[t].period # "Locked"
             /\ ~ (Payroll!OneAtATime /\ period = "Locked")
  <2>1. desk[t].pc \in {"write", "approve"}
    BY <1>1 DEF Payroll!FinishGenerate, Payroll!FinishApprove
  <2>2. desk[t].period # "Locked"
    BY <2>1 DEF PayInv, PayKnown, Generating
  <2>3. ASSUME Payroll!OneAtATime PROVE period # "Locked"
    BY <2>1, <2>2, <2>3 DEF PayInv, PayCurrent
  <2> QED
    BY <2>1, <2>2, <2>3
<1>2. ASSUME Payroll!OneAtATime, "close" \notin ordered.ops, period = "Locked" PROVE period' = period
  <2> SUFFICES ASSUME period' # period PROVE FALSE
    OBVIOUS
  <2>1. CASE Payroll!CreatePeriod
    BY <1>2, <2>1 DEF Payroll!CreatePeriod, Payroll!Missing
  <2>2. ASSUME NEW t \in Tasks, desk[t].pc \in Closing PROVE FALSE
    BY <1>2, <2>2 DEF PayInv, PayKnown
  <2>3. ASSUME NEW t \in Tasks, Payroll!MarkProcessing(t) \/ Payroll!FinishGenerate(t) PROVE FALSE
    <3>1. desk[t].pc \in {"mark", "write"}
      BY <2>3 DEF Payroll!MarkProcessing, Payroll!FinishGenerate
    <3>2. PayKnown(desk[t]) /\ PayCurrent(desk[t])
      BY <1>2 DEF PayInv
    <3> QED
      BY <1>2, <3>1, <3>2 DEF PayKnown, PayCurrent, Generating
  <2>4. ASSUME NEW t \in Tasks, Payroll!FinishLock(t) PROVE FALSE
    BY <1>2, <2>4 DEF Payroll!FinishLock, Payroll!Assigned
  <2> QED
    BY <2>1, <2>2, <2>3, <2>4, PayPeriods
<1>3. ASSUME Payroll!OneAtATime, \A y \in ordered.types : run[y] = "Locked"
      PROVE  run' = run /\ payslip' = payslip
  <2> SUFFICES ASSUME ~ (run' = run /\ payslip' = payslip) PROVE FALSE
    OBVIOUS
  <2>1. PICK t \in Tasks : \/ Payroll!CreateRun(t) \/ Payroll!FinishRun(t)
                           \/ Payroll!WritePayslip(t) \/ Payroll!FinishPublish(t)
    BY PayRuns
  <2>2. CASE Payroll!CreateRun(t)
    BY <1>3, <2>2 DEF Payroll!CreateRun, Payroll!Missing
  <2>3. CASE desk[t].pc \in {"run", "payslips", "publish"}
    <3>1. PayKnown(desk[t]) /\ PayCurrent(desk[t])
      BY <1>3 DEF PayInv
    <3> QED
      BY <1>3, <2>3, <3>1 DEF PayKnown, PayCurrent
  <2> QED
    BY <2>1, <2>2, <2>3 DEF Payroll!FinishRun, Payroll!WritePayslip, Payroll!FinishPublish
<1>4. period = "Locked" /\ record' # record =>
        \E t \in Tasks : desk[t].pc \in {"write", "approve"} /\ desk[t].period # "Locked"
  BY <1>1, PayRecords
<1>5. Payroll!OneAtATime /\ "close" \notin ordered.ops /\ period = "Locked"
        => period' = period /\ record' = record
  <2>1. Payroll!OneAtATime /\ period = "Locked" => record' = record
    BY <1>1, PayRecords
  <2> QED
    BY <1>2, <2>1
<1>6. Payroll!OneAtATime /\ (\A y \in ordered.types : run[y] = "Locked")
        => run' = run /\ payslip' = payslip
  BY <1>3
<1> QED
  BY <1>4, <1>5, <1>6

\* The records of a Locked period change only through a request that loaded
\* the period before.  One request at a time, where periods are not closed, a
\* Locked period and its records stay; and once the runs that are asked for
\* are Locked, no run and no payslip changes.
THEOREM LockedPeriodIsFrozen ==
  ASSUME Payroll!PayrollAssumption
  PROVE  Payroll!Spec => LockedIsFrozen
<1>1. /\ PayInv /\ [Payroll!Next]_(Payroll!vars)
      => [/\ period = "Locked" /\ record' # record =>
               \E t \in Tasks : desk[t].pc \in {"write", "approve"} /\ desk[t].period # "Locked"
          /\ Payroll!OneAtATime /\ "close" \notin ordered.ops /\ period = "Locked"
               => period' = period /\ record' = record
          /\ Payroll!OneAtATime /\ (\A y \in ordered.types : run[y] = "Locked")
               => run' = run /\ payslip' = payslip]_(Payroll!vars)
  BY PayFrozen
<1>2. Payroll!Spec => Payroll!LockedIsFrozen
  BY <1>1, PayrollInvariance, PTL DEF Payroll!Spec, Payroll!LockedIsFrozen
<1> QED
  BY <1>2 DEF LockedIsFrozen

----------------------------------------------------------------------------
(* Master data, which runs beside it too: MasterData with rows of its own,   *)
(* for any tables, limits and wishes.                                        *)

Rows == Master!Units
Places == Positions \cup {"none"}

MasterTyped ==
  /\ unit \in [Rows -> [state: {"absent", "live", "deleted"}, parent: Rows \cup {"none"}]]
  /\ seat \in [Employees -> Places]
  /\ post \in [Positions -> [head: Nat, limit: Limits \cup {0}, active: BOOLEAN]]
  /\ job \in [what: {"idle", "hire", "change", "dismiss", "rehire"},
              who: Employees \cup {"none"}, seat: Places, parent: Rows \cup {"none"},
              joins: Places, leaves: Places, touched: BOOLEAN]
  /\ slips \in 0..wanted.slips /\ wanted \in Wishes

\* What the handler at work has yet to count: it joins the position that it
\* gives, and leaves the one that a live employee holds.
JobKnown ==
  /\ job.what = "idle" => job = Master!Idle
  /\ job.what # "idle" => job.who \in Employees
  /\ job.joins # "none" => job.joins = job.seat /\ Master!Live(job.joins) /\ ~ job.touched
  /\ job.leaves # "none" => /\ Master!Live(job.who) /\ seat[job.who] = job.leaves
                            /\ job.what = "dismiss" \/ job.seat # job.leaves

\* Who holds a position when the handler at work has finished.
HeldAfter(p) ==
  IF job.what = "idle" THEN Master!HeldBy(p)
  ELSE (Master!HeldBy(p) \ {job.who})
       \cup IF job.what # "dismiss" /\ job.seat = p THEN {job.who} ELSE {}

\* The headcount of a position when it has counted.
HeadAfter(p) ==
  post[p].head + (IF job.joins = p THEN 1 ELSE 0) - (IF job.leaves = p THEN 1 ELSE 0)

Counts(p) ==
  /\ ~ Master!Live(p) => post[p].head = 0
  /\ HeadAfter(p) - Cardinality(HeldAfter(p)) \in -slips..slips
  /\ Cardinality(Master!HeldBy(p)) <= post[p].limit + slips
  /\ Cardinality(HeldAfter(p)) <= post[p].limit + slips

MasterInv == MasterTyped /\ JobKnown /\ \A p \in Positions : Counts(p)

\* The tables have no row in common, and the rows are finitely many.
LEMMA MasterTables ==
  ASSUME Master!MasterDataAssumption
  PROVE  /\ Employees \subseteq Rows /\ Positions \subseteq Rows /\ Departments \subseteq Rows
         /\ Categories \subseteq Rows /\ Locations \subseteq Rows
         /\ Employees \cap (Departments \cup Positions \cup Categories \cup Locations) = {}
         /\ Positions \cap (Departments \cup Categories \cup Locations) = {}
         /\ IsFiniteSet(Employees) /\ "none" \notin Rows
         /\ \A u \in Rows : Master!KindOf(u) \subseteq Rows
<1> DEFINE T == <<Departments, Positions, Employees, Categories, Locations>>
<1>1. /\ T[1] = Departments /\ T[2] = Positions /\ T[3] = Employees /\ T[4] = Categories
      /\ T[5] = Locations /\ DOMAIN T = 1..5
  OBVIOUS
<1>2. \A i, j \in DOMAIN T : i # j => T[i] \cap T[j] = {}
  BY DEF Master!MasterDataAssumption
<1> HIDE DEF T
<1>3. /\ T[1] \cap T[2] = {} /\ T[1] \cap T[3] = {} /\ T[2] \cap T[3] = {}
      /\ T[2] \cap T[4] = {} /\ T[2] \cap T[5] = {} /\ T[3] \cap T[4] = {} /\ T[3] \cap T[5] = {}
  <2>1. {1, 2, 3, 4, 5} \subseteq DOMAIN T
    BY <1>1
  <2> QED
    BY <1>2, <2>1
<1>4. Rows = UNION Master!Kinds
  BY DEF Rows, Master!Units
<1>5. Rows = Departments \cup Positions \cup Employees \cup Categories \cup Locations
  BY <1>4 DEF Master!Kinds
<1>6. IsFiniteSet(Rows) /\ "none" \notin Rows
  BY DEF Master!MasterDataAssumption, Rows, Master!Missing, Master!IsFiniteSet, IsFiniteSet
<1>7. IsFiniteSet(Employees)
  BY <1>5, <1>6, FS_Subset
<1>8. ASSUME NEW u \in Rows PROVE Master!KindOf(u) \subseteq Rows
  <2>1. \E K \in Master!Kinds : u \in K
    BY <1>4
  <2>2. Master!KindOf(u) \in Master!Kinds
    BY <2>1 DEF Master!KindOf
  <2> QED
    BY <1>4, <2>2
<1> QED
  BY <1>1, <1>3, <1>5, <1>6, <1>7, <1>8

\* Who holds a position are finitely many, before the handler at work finishes
\* and after; it takes one away or adds one.
LEMMA Holders ==
  ASSUME Master!MasterDataAssumption, MasterTyped, JobKnown, NEW p \in Positions
  PROVE  LET held == Cardinality(Master!HeldBy(p))  after == Cardinality(HeldAfter(p)) IN
         /\ IsFiniteSet(Master!HeldBy(p)) /\ IsFiniteSet(HeldAfter(p))
         /\ held \in Nat /\ after \in Nat
         /\ after - held \in {-1, 0, 1}
         /\ job.leaves = p => after = held - 1
<1> DEFINE H == Master!HeldBy(p)
           A == HeldAfter(p)
<1>1. H \subseteq Employees
  BY DEF Master!HeldBy
<1>2. IsFiniteSet(H) /\ Cardinality(H) \in Nat
  BY <1>1, MasterTables, FS_Subset, FS_CardinalityType
<1>3. CASE job.what = "idle"
  <2>1. A = H
    BY <1>3 DEF HeldAfter
  <2>2. job.leaves # p
    BY <1>3, MasterTables DEF JobKnown, Master!Idle, Master!Missing
  <2> HIDE DEF A, H
  <2>3. Cardinality(A) - Cardinality(H) = 0
    BY <1>2, <2>1
  <2> QED
    BY <1>2, <2>1, <2>2, <2>3 DEF A, H
<1>4. CASE job.what # "idle"
  <2> DEFINE w == job.who
  <2>1. A = H \ {w} \/ A = (H \ {w}) \cup {w}
    BY <1>4 DEF HeldAfter
  <2>2. job.leaves = p => w \in H /\ A = H \ {w}
    <3>1. job.leaves = p => /\ w \in Employees /\ Master!Live(w) /\ seat[w] = p
                            /\ job.what = "dismiss" \/ job.seat # p
      BY <1>4, MasterTables DEF JobKnown
    <3> QED
      BY <1>4, <3>1 DEF HeldAfter, Master!HeldBy
  <2> HIDE DEF A, H, w
  <2>3. /\ IsFiniteSet(H \ {w})
        /\ Cardinality(H \ {w}) = IF w \in H THEN Cardinality(H) - 1 ELSE Cardinality(H)
    BY <1>2, FS_RemoveElement
  <2>4. /\ IsFiniteSet((H \ {w}) \cup {w})
        /\ Cardinality((H \ {w}) \cup {w}) = Cardinality(H \ {w}) + 1
    BY <2>3, FS_AddElement
  <2>5. IsFiniteSet(A)
    BY <2>1, <2>3, <2>4
  <2>6. Cardinality(A) \in Nat
    BY <2>5, FS_CardinalityType
  <2>7. Cardinality(A) - Cardinality(H) \in {-1, 0, 1}
    <3>1. CASE A = H \ {w}
      BY <1>2, <2>3, <3>1
    <3>2. CASE A = (H \ {w}) \cup {w}
      <4>1. Cardinality(A) = Cardinality(H \ {w}) + 1
        BY <2>4, <3>2
      <4> QED
        BY <1>2, <2>3, <4>1
    <3> QED
      BY <2>1, <3>1, <3>2
  <2>8. job.leaves = p => Cardinality(A) = Cardinality(H) - 1
    BY <2>2, <2>3
  <2> QED
    BY <1>2, <2>5, <2>6, <2>7, <2>8 DEF A, H
<1> QED
  BY <1>3, <1>4

\* The numbers of a position.
LEMMA PostTyped ==
  ASSUME Master!MasterDataAssumption,
         NEW f \in [Positions -> [head: Nat, limit: Limits \cup {0}, active: BOOLEAN]],
         NEW p \in Positions
  PROVE  f[p].head \in Nat /\ f[p].limit \in Nat
<1>1. f[p] \in [head: Nat, limit: Limits \cup {0}, active: BOOLEAN]
  OBVIOUS
<1>2. Limits \cup {0} \subseteq Nat
  BY DEF Master!MasterDataAssumption
<1> QED
  BY <1>1, <1>2

\* Between two requests: the headcount is compared with those who hold it.
LEMMA AtRest ==
  ASSUME Master!MasterDataAssumption, MasterTyped, job = Master!Idle, NEW p \in Positions
  PROVE  HeldAfter(p) = Master!HeldBy(p) /\ HeadAfter(p) = post[p].head
<1>1. post[p].head \in Nat
  BY PostTyped DEF MasterTyped
<1> QED
  BY <1>1, MasterTables DEF HeldAfter, HeadAfter, Master!Idle, Master!Missing

\* No row, no headcount.
LEMMA MasterInit == ASSUME Master!MasterDataAssumption, Master!Init PROVE MasterInv
<1>1. /\ unit = [u \in Rows |-> Master!NoUnit] /\ seat = [e \in Employees |-> "none"]
      /\ post = [p \in Positions |-> Master!NoPost] /\ job = Master!Idle
      /\ slips = 0 /\ wanted \in Wishes
  BY DEF Master!Init, Rows, Master!Missing
<1>2. wanted.slips \in Nat
  BY <1>1 DEF Master!MasterDataAssumption, Master!Scenario
<1>3. MasterTyped
  BY <1>1, <1>2 DEF MasterTyped, Master!NoUnit, Master!NoPost, Master!Idle, Master!Missing, Places
<1>4. JobKnown
  BY <1>1 DEF JobKnown, Master!Idle, Master!Missing
<1>5. ASSUME NEW p \in Positions PROVE Counts(p)
  <2>1. Master!HeldBy(p) = {}
    <3>1. "none" # p
      BY MasterTables
    <3> QED
      BY <1>1, <3>1 DEF Master!HeldBy
  <2>2. Cardinality(Master!HeldBy(p)) = 0 /\ Cardinality(HeldAfter(p)) = 0
    BY <1>1, <1>3, <2>1, AtRest, FS_EmptySet
  <2>3. post[p].head = 0 /\ post[p].limit = 0
    BY <1>1 DEF Master!NoPost
  <2>4. HeadAfter(p) = 0
    BY <1>1, <1>3, <2>3, AtRest
  <2> QED
    BY <1>1, <2>2, <2>3, <2>4 DEF Counts
<1> QED
  BY <1>3, <1>4, <1>5 DEF MasterInv

----------------------------------------------------------------------------
(* Master data: rows *)

\* A request that changes no headcount and nothing of an employee: what was
\* counted still is, if nobody is counted in a position that is not there and
\* the limit is not below the headcount.
LEMMA MasterRow ==
  ASSUME Master!MasterDataAssumption, MasterInv, job = Master!Idle,
         job' = job, seat' = seat, slips' = slips, wanted' = wanted,
         unit' \in [Rows -> [state: {"absent", "live", "deleted"}, parent: Rows \cup {"none"}]],
         \A e \in Employees : unit'[e].state = unit[e].state,
         post' \in [Positions -> [head: Nat, limit: Limits \cup {0}, active: BOOLEAN]],
         \A p \in Positions :
           /\ post'[p].head = post[p].head
           /\ unit'[p].state # "live" => post[p].head = 0
           /\ post'[p].limit = post[p].limit \/ post'[p].limit >= post[p].head
  PROVE  MasterInv'
<1>1. MasterTyped'
  BY DEF MasterInv, MasterTyped
<1>2. JobKnown'
  BY DEF JobKnown, Master!Idle, Master!Missing
<1>3. ASSUME NEW p \in Positions PROVE Counts(p)'
  <2>1. Master!HeldBy(p)' = Master!HeldBy(p)
    BY DEF Master!HeldBy, Master!Live
  <2>2. /\ HeldAfter(p) = Master!HeldBy(p) /\ HeadAfter(p) = post[p].head
    BY AtRest DEF MasterInv
  <2>3. /\ HeldAfter(p)' = Master!HeldBy(p) /\ HeadAfter(p)' = post[p].head
    <3>1. post'[p].head \in Nat /\ post'[p].head = post[p].head
      BY PostTyped
    <3> QED
      BY <2>1, <3>1, MasterTables DEF HeldAfter, HeadAfter, Master!Idle, Master!Missing
  <2> DEFINE held == Cardinality(Master!HeldBy(p))
  <2>4. held \in Nat
    BY Holders DEF MasterInv
  <2>5. /\ post[p].head \in Nat /\ post[p].limit \in Int /\ post'[p].limit \in Int
        /\ post'[p].head = post[p].head /\ slips \in Nat
    BY PostTyped, <1>1 DEF MasterInv, MasterTyped
  <2>6. Counts(p)
    BY DEF MasterInv
  <2>7. /\ post[p].head - held \in -slips..slips
        /\ held <= post[p].limit + slips
    <3>1. HeadAfter(p) - Cardinality(HeldAfter(p)) \in -slips..slips
      BY <2>6 DEF Counts
    <3>2. held <= post[p].limit + slips
      BY <2>6 DEF Counts
    <3> HIDE DEF held
    <3>3. HeadAfter(p) = post[p].head /\ Cardinality(HeldAfter(p)) = held
      BY <2>2 DEF held
    <3> QED
      BY <3>1, <3>2, <3>3
  <2>8. held <= post'[p].limit + slips
    <3>1. CASE post'[p].limit = post[p].limit
      BY <2>7, <3>1
    <3>2. CASE post'[p].limit >= post[p].head
      <4> HIDE DEF held
      <4>1. held <= post[p].head + slips
        BY <2>4, <2>5, <2>7
      <4> QED
        BY <2>4, <2>5, <3>2, <4>1
    <3> QED
      BY <3>1, <3>2
  <2>9. ~ Master!Live(p)' => post'[p].head = 0
    BY <2>5 DEF Master!Live
  <2>10. Cardinality(HeldAfter(p))' = held /\ Cardinality(Master!HeldBy(p))' = held
    BY <2>1, <2>3
  <2> HIDE DEF held
  <2>11. HeadAfter(p)' - Cardinality(HeldAfter(p))' = post[p].head - held
    BY <2>3, <2>10
  <2>12. slips' = slips
    OBVIOUS
  <2> QED
    BY <2>7, <2>8, <2>9, <2>10, <2>11, <2>12 DEF Counts
<1> QED
  BY <1>1, <1>2, <1>3 DEF MasterInv

\* Nobody is counted in a position that is not there.
LEMMA NoneCounted ==
  ASSUME MasterInv, NEW p \in Positions, unit[p].state # "live"
  PROVE  post[p].head = 0
BY DEF MasterInv, Counts, Master!Live

\* create_department, create_position, create_category, create_location.
LEMMA MasterAdd ==
  ASSUME Master!MasterDataAssumption, MasterInv, NEW u, Master!Create(u) \/ Master!List(u),
         u \in Master!Counted \cup Master!Listed
  PROVE  MasterInv'
<1>1. /\ u \in Rows /\ u \notin Employees /\ Master!Add(u) /\ unit[u] = Master!NoUnit
      /\ job = Master!Idle /\ job' = job /\ seat' = seat /\ slips' = slips /\ wanted' = wanted
  BY MasterTables DEF Master!Create, Master!List, Master!Counted, Master!Listed, Master!Asked
<1>2. PICK parent \in (Master!KindOf(u) \ {u}) \cup {"none"} :
        unit' = [unit EXCEPT ![u] = [state |-> "live", parent |-> parent]]
  BY <1>1 DEF Master!Add, Master!Missing
<1>3. parent \in Rows \cup {"none"}
  BY <1>1, <1>2, MasterTables
<1>4. unit \in [Rows -> [state: {"absent", "live", "deleted"}, parent: Rows \cup {"none"}]]
  BY DEF MasterInv, MasterTyped
<1>5. /\ unit' \in [Rows -> [state: {"absent", "live", "deleted"}, parent: Rows \cup {"none"}]]
      /\ \A v \in Rows \ {u} : unit'[v] = unit[v]
      /\ unit'[u].state = "live"
  BY <1>1, <1>2, <1>3, <1>4
<1>6. \A e \in Employees : unit'[e].state = unit[e].state
  BY <1>1, <1>5, MasterTables
<1>7. post \in [Positions -> [head: Nat, limit: Limits \cup {0}, active: BOOLEAN]]
  BY DEF MasterInv, MasterTyped
<1>8. \/ post' = post
      \/ u \in Positions /\ \E limit \in Limits :
           post' = [post EXCEPT ![u] = [head |-> 0, limit |-> limit, active |-> TRUE]]
  BY DEF Master!Create, Master!List
<1>9. post' \in [Positions -> [head: Nat, limit: Limits \cup {0}, active: BOOLEAN]]
  <2>1. ASSUME NEW limit \in Limits
        PROVE  [head |-> 0, limit |-> limit, active |-> TRUE]
                 \in [head: Nat, limit: Limits \cup {0}, active: BOOLEAN]
    OBVIOUS
  <2>2. CASE post' = post
    BY <1>7, <2>2
  <2>3. ASSUME NEW limit \in Limits,
               post' = [post EXCEPT ![u] = [head |-> 0, limit |-> limit, active |-> TRUE]]
        PROVE  post' \in [Positions -> [head: Nat, limit: Limits \cup {0}, active: BOOLEAN]]
    BY <1>7, <2>1, <2>3
  <2> QED
    BY <1>8, <2>2, <2>3
<1>10. ASSUME NEW p \in Positions
       PROVE  /\ post'[p].head = post[p].head
              /\ unit'[p].state # "live" => post[p].head = 0
              /\ post'[p].limit = post[p].limit \/ post'[p].limit >= post[p].head
  <2>1. p \in Rows
    BY MasterTables
  <2>2. CASE p # u
    <3>1. post'[p] = post[p]
      BY <1>7, <1>8, <2>2
    <3> QED
      BY <1>5, <2>1, <2>2, <3>1, NoneCounted
  <2>3. CASE p = u
    <3>1. post[p].head = 0
      BY <1>1, <2>3, NoneCounted DEF Master!NoUnit
    <3>2. CASE post' = post
      BY <3>1, <3>2
    <3>3. ASSUME NEW limit \in Limits,
                 post' = [post EXCEPT ![u] = [head |-> 0, limit |-> limit, active |-> TRUE]]
          PROVE  post'[p].head = 0 /\ post'[p].limit = limit
      BY <1>7, <2>3, <3>3
    <3>4. \A limit \in Limits : limit >= 0
      BY DEF Master!MasterDataAssumption
    <3> QED
      BY <1>8, <3>1, <3>2, <3>3, <3>4
  <2> QED
    BY <2>2, <2>3
<1> QED
  BY <1>1, <1>5, <1>6, <1>9, <1>10, MasterRow

\* The requests that change where a row hangs, or whether it is there.
LEMMA MasterHang ==
  ASSUME Master!MasterDataAssumption, MasterInv, job = Master!Idle,
         job' = job, seat' = seat, slips' = slips, wanted' = wanted, post' = post,
         unit' \in [Rows -> [state: {"absent", "live", "deleted"}, parent: Rows \cup {"none"}]],
         \A e \in Employees : unit'[e].state = unit[e].state,
         \A p \in Positions : unit'[p].state # "live" => post[p].head = 0
  PROVE  MasterInv'
<1>1. post' \in [Positions -> [head: Nat, limit: Limits \cup {0}, active: BOOLEAN]]
  BY DEF MasterInv, MasterTyped
<1> QED
  BY <1>1, MasterRow

\* update_department, update_position, update_category, update_location: the
\* row above changes.
LEMMA MasterMove ==
  ASSUME Master!MasterDataAssumption, MasterInv, NEW u, Master!Move(u) \/ Master!Rehang(u),
         u \in Master!Counted \cup Master!Listed
  PROVE  MasterInv'
<1>1. /\ u \in Rows /\ job = Master!Idle /\ job' = job /\ seat' = seat /\ slips' = slips
      /\ wanted' = wanted /\ post' = post
  BY MasterTables DEF Master!Move, Master!Rehang, Master!Counted, Master!Listed, Master!Asked
<1>2. PICK parent \in Master!KindOf(u) \cup {"none"} : unit' = [unit EXCEPT ![u].parent = parent]
  BY DEF Master!Move, Master!Rehang, Master!LiveIn, Master!Missing
<1>3. parent \in Rows \cup {"none"}
  BY <1>1, <1>2, MasterTables
<1>4. unit \in [Rows -> [state: {"absent", "live", "deleted"}, parent: Rows \cup {"none"}]]
  BY DEF MasterInv, MasterTyped
<1>5. /\ unit' \in [Rows -> [state: {"absent", "live", "deleted"}, parent: Rows \cup {"none"}]]
      /\ \A v \in Rows : unit'[v].state = unit[v].state
  BY <1>1, <1>2, <1>3, <1>4
<1>6. /\ \A e \in Employees : unit'[e].state = unit[e].state
      /\ \A p \in Positions : unit'[p].state # "live" => post[p].head = 0
  BY <1>5, MasterTables, NoneCounted
<1> QED
  BY <1>1, <1>5, <1>6, MasterHang

\* delete_department, delete_position, restore_department, restore_position:
\* a position is deleted while its headcount is 0.
LEMMA MasterRetire ==
  ASSUME Master!MasterDataAssumption, MasterInv, NEW u \in Master!Counted,
         Master!Retire(u) \/ Master!Restore(u)
  PROVE  MasterInv'
<1>1. /\ u \in Rows /\ u \notin Employees
      /\ job = Master!Idle /\ job' = job /\ seat' = seat /\ slips' = slips
      /\ wanted' = wanted /\ post' = post
  BY MasterTables DEF Master!Retire, Master!Restore, Master!Counted, Master!Asked
<1>2. PICK s \in {"live", "deleted"} :
        /\ unit' = [unit EXCEPT ![u].state = s]
        /\ s = "deleted" => (u \in Positions => post[u].head = 0)
  BY DEF Master!Retire, Master!Restore
<1>3. unit \in [Rows -> [state: {"absent", "live", "deleted"}, parent: Rows \cup {"none"}]]
  BY DEF MasterInv, MasterTyped
<1>4. /\ unit' \in [Rows -> [state: {"absent", "live", "deleted"}, parent: Rows \cup {"none"}]]
      /\ \A v \in Rows \ {u} : unit'[v] = unit[v]
      /\ unit'[u].state = s
  BY <1>1, <1>2, <1>3
<1>5. \A e \in Employees : unit'[e].state = unit[e].state
  BY <1>1, <1>4, MasterTables
<1>6. ASSUME NEW p \in Positions, unit'[p].state # "live" PROVE post[p].head = 0
  <2>1. CASE p = u
    BY <1>2, <1>4, <1>6, <2>1
  <2>2. CASE p # u
    BY <1>4, <1>6, <2>2, MasterTables, NoneCounted
  <2> QED
    BY <2>1, <2>2
<1> QED
  BY <1>1, <1>4, <1>5, <1>6, MasterHang

\* delete_category with the rows below, delete_location.
LEMMA MasterRemove ==
  ASSUME Master!MasterDataAssumption, MasterInv,
         \/ \E c \in Categories : Master!RemoveCategory(c)
         \/ \E l \in Locations : Master!RemoveLocation(l)
  PROVE  MasterInv'
<1>1. /\ job = Master!Idle /\ job' = job /\ seat' = seat /\ slips' = slips
      /\ wanted' = wanted /\ post' = post
  BY DEF Master!RemoveCategory, Master!RemoveLocation, Master!Asked
<1>2. unit \in [Rows -> [state: {"absent", "live", "deleted"}, parent: Rows \cup {"none"}]]
  BY DEF MasterInv, MasterTyped
<1>3. Master!NoUnit \in [state: {"absent", "live", "deleted"}, parent: Rows \cup {"none"}]
  BY DEF Master!NoUnit, Master!Missing
<1>4. /\ unit' \in [Rows -> [state: {"absent", "live", "deleted"}, parent: Rows \cup {"none"}]]
      /\ \A v \in Employees \cup Positions : unit'[v] = unit[v]
  <2>1. ASSUME NEW c \in Categories, Master!RemoveCategory(c)
        PROVE  /\ unit' \in [Rows -> [state: {"absent", "live", "deleted"}, parent: Rows \cup {"none"}]]
               /\ \A v \in Employees \cup Positions : unit'[v] = unit[v]
    <3> DEFINE below == {v \in Categories : \E n \in DOMAIN Master!Trail(v) : Master!Trail(v)[n] = c}
    <3>1. unit' = [v \in Rows |-> IF v \in below THEN Master!NoUnit ELSE unit[v]]
      BY <2>1 DEF Master!RemoveCategory, Rows
    <3>2. below \subseteq Categories
      OBVIOUS
    <3> HIDE DEF below
    <3> QED
      BY <1>2, <1>3, <3>1, <3>2, MasterTables
  <2>2. ASSUME NEW l \in Locations, Master!RemoveLocation(l)
        PROVE  /\ unit' \in [Rows -> [state: {"absent", "live", "deleted"}, parent: Rows \cup {"none"}]]
               /\ \A v \in Employees \cup Positions : unit'[v] = unit[v]
    <3>1. unit' = [unit EXCEPT ![l] = Master!NoUnit]
      BY <2>2 DEF Master!RemoveLocation
    <3> QED
      BY <1>2, <1>3, <3>1, MasterTables
  <2> QED
    BY <2>1, <2>2
<1>5. /\ \A e \in Employees : unit'[e].state = unit[e].state
      /\ \A p \in Positions : unit'[p].state # "live" => post[p].head = 0
  BY <1>4, NoneCounted
<1> QED
  BY <1>1, <1>4, <1>5, MasterHang

\* update_position: the limit is not set below the headcount.
LEMMA MasterLimit ==
  ASSUME Master!MasterDataAssumption, MasterInv, NEW q \in Positions, Master!Limit(q)
  PROVE  MasterInv'
<1>1. /\ job = Master!Idle /\ job' = job /\ seat' = seat /\ slips' = slips
      /\ wanted' = wanted /\ unit' = unit
  BY DEF Master!Limit, Master!Asked
<1>2. PICK limit \in Limits, active \in BOOLEAN :
        /\ limit >= post[q].head
        /\ post' = [post EXCEPT ![q].limit = limit, ![q].active = active]
  BY DEF Master!Limit
<1>3. post \in [Positions -> [head: Nat, limit: Limits \cup {0}, active: BOOLEAN]]
  BY DEF MasterInv, MasterTyped
<1>4. unit \in [Rows -> [state: {"absent", "live", "deleted"}, parent: Rows \cup {"none"}]]
  BY DEF MasterInv, MasterTyped
<1>5. /\ post' \in [Positions -> [head: Nat, limit: Limits \cup {0}, active: BOOLEAN]]
      /\ \A p \in Positions : post'[p].head = post[p].head
      /\ \A p \in Positions \ {q} : post'[p].limit = post[p].limit
      /\ post'[q].limit = limit
  BY <1>2, <1>3
<1>6. ASSUME NEW p \in Positions
      PROVE  /\ post'[p].head = post[p].head
             /\ unit'[p].state # "live" => post[p].head = 0
             /\ post'[p].limit = post[p].limit \/ post'[p].limit >= post[p].head
  BY <1>1, <1>2, <1>5, NoneCounted
<1> QED
  BY <1>1, <1>4, <1>5, <1>6, MasterRow

----------------------------------------------------------------------------
(* Master data: employees *)

\* A request about an employee begins: the headcounts that it has yet to change
\* are those that its end will change the holders by, and a position that it
\* joins has room.
LEMMA MasterStart ==
  ASSUME Master!MasterDataAssumption, MasterInv, job = Master!Idle,
         NEW what \in {"hire", "change", "dismiss", "rehire"}, NEW e \in Employees,
         NEW STATE s, s \in Places, NEW STATE m, m \in Rows \cup {"none"},
         NEW STATE joins, joins \in Places, NEW STATE leaves, leaves \in Places,
         Master!Start(what, e, s, m, joins, leaves),
         joins # "none" => joins = s /\ joins \in Master!Openings,
         leaves # "none" => Master!Live(e) /\ seat[e] = leaves /\ (what = "dismiss" \/ s # leaves),
         Master!Live(e) => \/ what = "change" /\ s = seat[e] /\ joins = "none" /\ leaves = "none"
                           \/ what = "change" /\ s # seat[e] /\ joins = s /\ leaves = seat[e]
                           \/ what = "dismiss" /\ joins = "none" /\ leaves = seat[e],
         ~ Master!Live(e) => what # "dismiss" /\ joins = s /\ leaves = "none"
  PROVE  MasterInv'
<1>1. /\ job' = [what |-> what, who |-> e, seat |-> s, parent |-> m,
                 joins |-> joins, leaves |-> leaves, touched |-> FALSE]
      /\ unit' = unit /\ seat' = seat /\ post' = post /\ slips' = slips /\ wanted' = wanted
  BY DEF Master!Start
<1>2. /\ job'.what = what /\ job'.who = e /\ job'.seat = s /\ job'.joins = joins
      /\ job'.leaves = leaves /\ job'.touched = FALSE
  BY <1>1
<1>3. MasterTyped'
  <2>1. job' \in [what: {"idle", "hire", "change", "dismiss", "rehire"},
                  who: Employees \cup {"none"}, seat: Places, parent: Rows \cup {"none"},
                  joins: Places, leaves: Places, touched: BOOLEAN]
    BY <1>1
  <2> QED
    BY <1>1, <2>1 DEF MasterInv, MasterTyped
<1>4. JobKnown'
  BY <1>1, <1>2 DEF JobKnown, Master!Live, Master!Openings, Master!LiveIn
<1>5. ASSUME NEW p \in Positions PROVE Counts(p)'
  <2> DEFINE H == Master!HeldBy(p)
             A == (H \ {e}) \cup IF what # "dismiss" /\ s = p THEN {e} ELSE {}
             j == IF joins = p THEN 1 ELSE 0
             l == IF leaves = p THEN 1 ELSE 0
  <2>1. Master!HeldBy(p)' = H /\ HeldAfter(p)' = A /\ HeadAfter(p)' = post[p].head + j - l
    BY <1>1, <1>2 DEF HeldAfter, HeadAfter, Master!HeldBy, Master!Live
  <2>2. Counts(p) /\ HeldAfter(p) = H /\ HeadAfter(p) = post[p].head
    BY AtRest DEF MasterInv
  <2>3. IsFiniteSet(H) /\ Cardinality(H) \in Nat
    BY Holders DEF MasterInv
  <2>4. /\ post[p].head \in Nat /\ post[p].limit \in Nat /\ slips \in Nat
    BY PostTyped DEF MasterInv, MasterTyped
  <2>5. /\ post[p].head - Cardinality(H) \in -slips..slips
        /\ Cardinality(H) <= post[p].limit + slips
        /\ Master!Live(p) \/ post[p].head = 0
    <3>1. /\ HeadAfter(p) - Cardinality(HeldAfter(p)) \in -slips..slips
          /\ Cardinality(H) <= post[p].limit + slips
          /\ Master!Live(p) \/ post[p].head = 0
      BY <2>2 DEF Counts
    <3> HIDE DEF H
    <3>2. HeadAfter(p) = post[p].head /\ HeldAfter(p) = H
      BY <2>2
    <3> QED
      BY <3>1, <3>2
  <2>6. e \in H <=> Master!Live(e) /\ seat[e] = p
    BY DEF Master!HeldBy
  <2>7. joins = p => post[p].head < post[p].limit
    <3>1. "none" # p
      BY MasterTables
    <3> QED
      BY <3>1 DEF Master!Openings
  <2>8. Cardinality(A) = Cardinality(H) + j - l /\ Cardinality(A) \in Nat
    <3>1. "none" # p
      BY MasterTables
    <3>2. \/ A = H /\ j = 0 /\ l = 0
          \/ A = H \cup {e} /\ e \notin H /\ j = 1 /\ l = 0
          \/ A = H \ {e} /\ e \in H /\ j = 0 /\ l = 1
      <4> HIDE DEF H
      <4>1. CASE Master!Live(e)
        <5>1. CASE what = "change" /\ s = seat[e] /\ joins = "none" /\ leaves = "none"
          <6>1. A = H
            BY <2>6, <4>1, <5>1
          <6> QED
            BY <3>1, <5>1, <6>1
        <5>2. CASE what = "change" /\ s # seat[e] /\ joins = s /\ leaves = seat[e]
          BY <2>6, <3>1, <4>1, <5>2
        <5>3. CASE what = "dismiss" /\ joins = "none" /\ leaves = seat[e]
          BY <2>6, <3>1, <4>1, <5>3
        <5> QED
          BY <4>1, <5>1, <5>2, <5>3
      <4>2. CASE ~ Master!Live(e)
        BY <2>6, <3>1, <4>2
      <4> QED
        BY <4>1, <4>2
    <3> HIDE DEF A, H, j, l
    <3>3. CASE A = H /\ j = 0 /\ l = 0
      BY <2>3, <3>3
    <3>4. CASE A = H \cup {e} /\ e \notin H /\ j = 1 /\ l = 0
      BY <2>3, <3>4, FS_AddElement
    <3>5. CASE A = H \ {e} /\ e \in H /\ j = 0 /\ l = 1
      <4>1. Cardinality(A) = Cardinality(H) - 1 /\ IsFiniteSet(A)
        BY <2>3, <3>5, FS_RemoveElement
      <4>2. Cardinality(A) \in Nat
        BY <4>1, FS_CardinalityType
      <4> QED
        BY <2>3, <3>5, <4>1, <4>2
    <3> QED
      BY <3>2, <3>3, <3>4, <3>5
  <2>9. j \in {0, 1} /\ l \in {0, 1} /\ (j = 1 => post[p].head < post[p].limit)
    BY <2>7
  <2> DEFINE h == Cardinality(H)
             a == Cardinality(A)
             n == post[p].head
             x == post[p].limit
  <2>10. /\ n - h \in -slips..slips /\ h <= x + slips /\ h \in Nat /\ n \in Nat /\ x \in Nat
         /\ slips \in Nat /\ j \in {0, 1} /\ l \in {0, 1} /\ (j = 1 => n < x)
         /\ a = h + j - l
    BY <2>3, <2>4, <2>5, <2>8, <2>9
  <2> HIDE DEF h, a, n, x, j, l
  <2>11. /\ (n + j - l) - a \in -slips..slips
         /\ a <= x + slips
    BY <2>10
  <2>12. /\ HeadAfter(p)' = n + j - l /\ Cardinality(HeldAfter(p))' = a
         /\ Cardinality(Master!HeldBy(p))' = h /\ post'[p].limit = x /\ post'[p].head = n
    BY <1>1, <2>1 DEF h, a, n, x, j, l
  <2>13. ~ Master!Live(p)' => post'[p].head = 0
    BY <1>1, <2>5 DEF Master!Live
  <2>14. slips' = slips
    BY <1>1
  <2> QED
    BY <2>10, <2>11, <2>12, <2>13, <2>14 DEF Counts
<1> QED
  BY <1>3, <1>4, <1>5 DEF MasterInv

\* create_employee, update_employee, delete_employee, restore_employee, as they
\* begin.
LEMMA MasterBegin ==
  ASSUME Master!MasterDataAssumption, MasterInv, NEW e \in Employees,
         Master!Hire(e) \/ Master!Change(e) \/ Master!Dismiss(e) \/ Master!Rehire(e)
  PROVE  MasterInv'
<1>1. job = Master!Idle
  BY DEF Master!Hire, Master!Change, Master!Dismiss, Master!Rehire, Master!Asked
<1>2. /\ seat[e] \in Places /\ unit[e].parent \in Rows \cup {"none"} /\ e \in Rows
      /\ "none" \in Places /\ Master!Openings \subseteq Positions
  BY MasterTables DEF MasterInv, MasterTyped, Places, Master!Openings, Master!LiveIn
<1>3. /\ Master!Managers(e) \subseteq Rows \cup {"none"}
      /\ Employees \cup {"none"} \subseteq Rows \cup {"none"}
  BY <1>2, MasterTables DEF Master!Managers, Master!LiveIn, Master!Missing
<1>4. CASE Master!Hire(e)
  <2>1. PICK p \in Master!Openings \cup {"none"}, m \in Master!Managers(e) :
          Master!Start("hire", e, p, m, p, "none")
    BY <1>4 DEF Master!Hire, Master!Missing
  <2>2. ~ Master!Live(e)
    BY <1>4 DEF Master!Hire, Master!NoUnit, Master!Live
  <2>3. p \in Places /\ m \in Rows \cup {"none"}
    BY <1>2, <1>3, <2>1 DEF Places
  <2> QED
    BY <1>1, <1>2, <2>1, <2>2, <2>3, MasterStart
<1>5. CASE Master!Change(e)
  <2>1. Master!Live(e)
    BY <1>5 DEF Master!Change
  <2>2. ASSUME NEW m \in Master!Managers(e),
               Master!Start("change", e, seat[e], m, "none", "none")
        PROVE  MasterInv'
    <3>1. m \in Rows \cup {"none"}
      BY <1>3
    <3> QED
      BY <1>1, <1>2, <2>1, <2>2, <3>1, MasterStart
  <2>3. ASSUME NEW p \in (Master!Openings \cup {"none"}) \ {seat[e]}, NEW m \in Employees \cup {"none"},
               Master!Start("change", e, p, m, p, seat[e])
        PROVE  MasterInv'
    <3>1. p \in Places /\ m \in Rows \cup {"none"}
      BY <1>2, <1>3 DEF Places
    <3> QED
      BY <1>1, <1>2, <2>1, <2>3, <3>1, MasterStart
  <2> QED
    BY <1>5, <2>2, <2>3 DEF Master!Change, Master!Missing
<1>6. CASE Master!Dismiss(e)
  <2>1. Master!Live(e) /\ Master!Start("dismiss", e, seat[e], unit[e].parent, "none", seat[e])
    BY <1>6 DEF Master!Dismiss, Master!Leaves, Master!Missing
  <2> QED
    BY <1>1, <1>2, <2>1, MasterStart
<1>7. CASE Master!Rehire(e)
  <2>1. /\ ~ Master!Live(e) /\ seat[e] \in Master!Openings \cup {"none"}
        /\ Master!Start("rehire", e, seat[e], unit[e].parent, seat[e], "none")
    BY <1>7 DEF Master!Rehire, Master!Live, Master!Missing
  <2> QED
    BY <1>1, <1>2, <2>1, MasterStart
<1> QED
  BY <1>4, <1>5, <1>6, <1>7

\* A step of the handler at work between its two ends: it counts somebody in or
\* out, and who holds what stays as it was.
LEMMA MasterCounts ==
  ASSUME Master!MasterDataAssumption, MasterInv,
         job.what # "idle", job'.what = job.what, job'.who = job.who, job'.seat = job.seat,
         unit' = unit, seat' = seat, slips' = slips, wanted' = wanted, MasterTyped', JobKnown',
         \A p \in Positions :
           /\ ~ Master!Live(p) => post'[p].head = 0
           /\ post'[p].limit = post[p].limit
           /\ HeadAfter(p)' - Cardinality(HeldAfter(p)) \in -slips..slips
  PROVE  MasterInv'
<1>1. ASSUME NEW p \in Positions PROVE Counts(p)'
  <2>1. Counts(p)
    BY DEF MasterInv
  <2>2. HeldAfter(p)' = HeldAfter(p) /\ Master!HeldBy(p)' = Master!HeldBy(p)
    BY DEF HeldAfter, Master!HeldBy, Master!Live
  <2>3. ~ Master!Live(p)' => post'[p].head = 0
    BY DEF Master!Live
  <2> QED
    BY <2>1, <2>2, <2>3 DEF Counts
<1> QED
  BY <1>1 DEF MasterInv

\* _assign_position_headcount commits.
LEMMA MasterJoin ==
  ASSUME Master!MasterDataAssumption, MasterInv, Master!Join
  PROVE  MasterInv'
<1> DEFINE q == job.joins
           n == post[q].head + 1
<1>1. /\ q # "none" /\ post' = [post EXCEPT ![q].head = n]
      /\ job' = [job EXCEPT !.joins = "none", !.touched = TRUE]
      /\ unit' = unit /\ seat' = seat /\ slips' = slips /\ wanted' = wanted
  BY DEF Master!Join, Master!Missing
<1>2. /\ job \in [what: {"idle", "hire", "change", "dismiss", "rehire"},
                  who: Employees \cup {"none"}, seat: Places, parent: Rows \cup {"none"},
                  joins: Places, leaves: Places, touched: BOOLEAN]
      /\ post \in [Positions -> [head: Nat, limit: Limits \cup {0}, active: BOOLEAN]]
  BY DEF MasterInv, MasterTyped
<1>3. q \in Positions /\ post[q].head \in Nat
  BY <1>1, <1>2, PostTyped DEF Places
<1>4. /\ job' \in [what: {"idle", "hire", "change", "dismiss", "rehire"},
                   who: Employees \cup {"none"}, seat: Places, parent: Rows \cup {"none"},
                   joins: Places, leaves: Places, touched: BOOLEAN]
      /\ job'.what = job.what /\ job'.who = job.who /\ job'.seat = job.seat
      /\ job'.joins = "none" /\ job'.leaves = job.leaves
  BY <1>1, <1>2 DEF Places
<1>5. job.what # "idle" /\ Master!Live(q)
  BY <1>1 DEF MasterInv, JobKnown, Master!Idle, Master!Missing
<1> HIDE DEF q
<1>6. n \in Nat
  BY <1>3
<1>7. \A p \in Positions : post'[p].head = IF p = q THEN n ELSE post[p].head
  BY <1>1, <1>2
<1>8. post' \in [Positions -> [head: Nat, limit: Limits \cup {0}, active: BOOLEAN]]
  BY <1>1, <1>2, <1>6
<1>9. MasterTyped'
  BY <1>1, <1>4, <1>8 DEF MasterInv, MasterTyped
<1>10. JobKnown'
  BY <1>1, <1>4, <1>5 DEF MasterInv, JobKnown, Master!Live
<1>11. ASSUME NEW p \in Positions PROVE HeadAfter(p)' = HeadAfter(p)
  <2>1. p # "none" /\ post[p].head \in Nat
    BY <1>2, MasterTables, PostTyped
  <2>2. CASE p = q
    BY <1>4, <1>7, <2>1, <2>2 DEF HeadAfter, q
  <2>3. CASE p # q
    BY <1>4, <1>7, <2>1, <2>3 DEF HeadAfter, q
  <2> QED
    BY <2>2, <2>3
<1>12. ASSUME NEW p \in Positions
       PROVE  /\ ~ Master!Live(p) => post'[p].head = 0
              /\ post'[p].limit = post[p].limit
              /\ HeadAfter(p)' - Cardinality(HeldAfter(p)) \in -slips..slips
  <2>1. Counts(p)
    BY DEF MasterInv
  <2>2. post'[p].limit = post[p].limit
    BY <1>1, <1>2
  <2> QED
    BY <1>5, <1>7, <1>11, <2>1, <2>2 DEF Counts
<1> QED
  BY <1>1, <1>4, <1>5, <1>9, <1>10, <1>12, MasterCounts

\* One less, and none below zero.
LEMMA OneLess ==
  ASSUME NEW n \in Nat
  PROVE  Master!Max({0, n - 1}) = IF n = 0 THEN 0 ELSE n - 1
<1> DEFINE m == IF n = 0 THEN 0 ELSE n - 1
<1>1. m \in {0, n - 1} /\ \A y \in {0, n - 1} : m >= y
  OBVIOUS
<1>2. \A x \in {0, n - 1} : (\A y \in {0, n - 1} : x >= y) => x = m
  OBVIOUS
<1> HIDE DEF m
<1>3. (CHOOSE x \in {0, n - 1} : \A y \in {0, n - 1} : x >= y) = m
  BY <1>1, <1>2
<1> QED
  BY <1>3 DEF Master!Max, m

\* _unassign_position_headcount commits: where nobody is counted, somebody who
\* holds the position was not.
LEMMA MasterLeave ==
  ASSUME Master!MasterDataAssumption, MasterInv, Master!Leave
  PROVE  MasterInv'
<1> DEFINE q == job.leaves
           n == IF Master!Live(q) THEN Master!Max({0, post[q].head - 1}) ELSE post[q].head
<1>1. /\ q # "none" /\ job.joins = "none"
      /\ post' = IF Master!Live(q) THEN [post EXCEPT ![q].head = Master!Max({0, @ - 1})] ELSE post
      /\ job' = [job EXCEPT !.leaves = "none", !.touched = TRUE]
      /\ unit' = unit /\ seat' = seat /\ slips' = slips /\ wanted' = wanted
  BY DEF Master!Leave, Master!Missing
<1>2. /\ job \in [what: {"idle", "hire", "change", "dismiss", "rehire"},
                  who: Employees \cup {"none"}, seat: Places, parent: Rows \cup {"none"},
                  joins: Places, leaves: Places, touched: BOOLEAN]
      /\ post \in [Positions -> [head: Nat, limit: Limits \cup {0}, active: BOOLEAN]]
      /\ slips \in 0..wanted.slips
  BY DEF MasterInv, MasterTyped
<1>3. q \in Positions /\ post[q].head \in Nat
  BY <1>1, <1>2, PostTyped DEF Places
<1>4. /\ job' \in [what: {"idle", "hire", "change", "dismiss", "rehire"},
                   who: Employees \cup {"none"}, seat: Places, parent: Rows \cup {"none"},
                   joins: Places, leaves: Places, touched: BOOLEAN]
      /\ job'.what = job.what /\ job'.who = job.who /\ job'.seat = job.seat
      /\ job'.joins = "none" /\ job'.leaves = "none"
  BY <1>1, <1>2 DEF Places
<1>5. job.what # "idle"
  BY <1>1 DEF MasterInv, JobKnown, Master!Idle, Master!Missing
<1>6. /\ ~ Master!Live(q) => post[q].head = 0
      /\ n = IF post[q].head = 0 THEN 0 ELSE post[q].head - 1
  <2>1. ~ Master!Live(q) => post[q].head = 0
    BY <1>3 DEF MasterInv, Counts
  <2> QED
    BY <1>3, <2>1, OneLess
<1> HIDE DEF q
<1>7. post' = [post EXCEPT ![q].head = n]
  <2>1. CASE Master!Live(q)
    BY <1>1, <2>1
  <2>2. CASE ~ Master!Live(q)
    <3>1. post' = post /\ n = post[q].head
      BY <1>1, <2>2
    <3> HIDE DEF n
    <3> QED
      BY <1>2, <1>3, <3>1
  <2> QED
    BY <2>1, <2>2
<1> HIDE DEF n
<1>8. n \in Nat
  BY <1>3, <1>6
<1>9. \A p \in Positions : /\ post'[p].head = IF p = q THEN n ELSE post[p].head
                          /\ post'[p].limit = post[p].limit
  BY <1>2, <1>7
<1>10. post' \in [Positions -> [head: Nat, limit: Limits \cup {0}, active: BOOLEAN]]
  BY <1>2, <1>7, <1>8
<1>11. MasterTyped'
  BY <1>1, <1>4, <1>10 DEF MasterInv, MasterTyped
<1>12. JobKnown'
  BY <1>4, <1>5 DEF JobKnown, MasterInv
<1>13. ASSUME NEW p \in Positions
       PROVE  /\ ~ Master!Live(p) => post'[p].head = 0
              /\ post'[p].limit = post[p].limit
              /\ HeadAfter(p)' - Cardinality(HeldAfter(p)) \in -slips..slips
  <2>1. Counts(p) /\ p # "none" /\ post[p].head \in Nat
    BY <1>2, MasterTables, PostTyped DEF MasterInv
  <2>2. CASE p # q
    <3>1. HeadAfter(p)' = HeadAfter(p)
      BY <1>1, <1>4, <1>9, <2>1, <2>2 DEF HeadAfter, q
    <3> QED
      BY <1>9, <2>1, <2>2, <3>1 DEF Counts
  <2>3. CASE p = q
    <3> DEFINE a == Cardinality(HeldAfter(p))
    <3>1. a \in Nat
      BY Holders DEF MasterInv
    <3>2. HeadAfter(p) = post[p].head - 1
      BY <1>1, <2>1, <2>3 DEF HeadAfter, q
    <3>3. HeadAfter(p)' = n
      BY <1>4, <1>8, <1>9, <2>1, <2>3 DEF HeadAfter
    <3>4. HeadAfter(p) - a \in -slips..slips
      BY <2>1 DEF Counts
    <3>5. slips \in Nat
      BY <1>2
    <3> HIDE DEF a
    <3>6. HeadAfter(p)' - a \in -slips..slips
      <4>1. CASE post[p].head = 0
        BY <1>6, <2>1, <2>3, <3>1, <3>2, <3>3, <3>4, <3>5, <4>1
      <4>2. CASE post[p].head # 0
        BY <1>6, <2>1, <2>3, <3>2, <3>3, <3>4, <4>2
      <4> QED
        BY <4>1, <4>2
    <3>7. ~ Master!Live(p) => post'[p].head = 0
      BY <1>6, <1>9, <2>3
    <3> QED
      BY <1>9, <3>6, <3>7 DEF a
  <2> QED
    BY <2>2, <2>3
<1> QED
  BY <1>1, <1>4, <1>5, <1>11, <1>12, <1>13, MasterCounts

\* The request ends: who holds a position is as it was meant.
LEMMA MasterFinish ==
  ASSUME Master!MasterDataAssumption, MasterInv, Master!Finish
  PROVE  MasterInv'
<1> DEFINE w == job.who
           row == [state |-> IF job.what = "dismiss" THEN "deleted" ELSE "live", parent |-> job.parent]
           Job == [what: {"idle", "hire", "change", "dismiss", "rehire"},
                   who: Employees \cup {"none"}, seat: Places, parent: Rows \cup {"none"},
                   joins: Places, leaves: Places, touched: BOOLEAN]
<1>1. /\ job # Master!Idle /\ job.joins = "none" /\ job.leaves = "none"
      /\ unit' = [unit EXCEPT ![w] = row] /\ seat' = [seat EXCEPT ![w] = job.seat]
      /\ job' = Master!Idle /\ post' = post /\ slips' = slips /\ wanted' = wanted
  BY DEF Master!Finish, Master!Missing
<1>2. /\ job \in Job
      /\ unit \in [Rows -> [state: {"absent", "live", "deleted"}, parent: Rows \cup {"none"}]]
      /\ seat \in [Employees -> Places]
      /\ post \in [Positions -> [head: Nat, limit: Limits \cup {0}, active: BOOLEAN]]
      /\ slips \in 0..wanted.slips
  BY DEF MasterInv, MasterTyped
<1>3. job.what # "idle" /\ w \in Employees /\ w \in Rows
  BY <1>1, MasterTables DEF MasterInv, JobKnown
<1>4. job.seat \in Places /\ job.parent \in Rows \cup {"none"}
  BY <1>2
<1>5. row \in [state: {"absent", "live", "deleted"}, parent: Rows \cup {"none"}]
  BY <1>4
<1> HIDE DEF w, row, Job
<1>6. /\ unit' \in [Rows -> [state: {"absent", "live", "deleted"}, parent: Rows \cup {"none"}]]
      /\ seat' \in [Employees -> Places]
      /\ unit'[w] = row /\ seat'[w] = job.seat
      /\ \A v \in Rows \ {w} : unit'[v] = unit[v]
      /\ \A e \in Employees \ {w} : seat'[e] = seat[e]
  BY <1>1, <1>2, <1>3, <1>4, <1>5
<1>7. Master!Idle \in Job
  BY DEF Master!Idle, Master!Missing, Job, Places
<1>8. MasterTyped'
  BY <1>1, <1>6, <1>7 DEF MasterInv, MasterTyped, Job
<1>9. JobKnown'
  BY <1>1 DEF JobKnown, Master!Idle, Master!Missing
<1>10. ASSUME NEW p \in Positions PROVE Counts(p)'
  <2>1. Counts(p) /\ p # "none" /\ p \in Rows /\ p # w
    BY <1>3, MasterTables DEF MasterInv
  <2>2. Master!HeldBy(p)' = HeldAfter(p)
    <3>1. \A e \in Employees \ {w} : e \in Master!HeldBy(p)' <=> e \in Master!HeldBy(p)
      BY <1>6, MasterTables DEF Master!HeldBy, Master!Live
    <3>2. w \in Master!HeldBy(p)' <=> job.what # "dismiss" /\ job.seat = p
      BY <1>3, <1>6 DEF Master!HeldBy, Master!Live, row
    <3>3. Master!HeldBy(p)' \subseteq Employees /\ Master!HeldBy(p) \subseteq Employees
      BY DEF Master!HeldBy
    <3> QED
      BY <1>3, <3>1, <3>2, <3>3 DEF HeldAfter, w
  <2>3. HeldAfter(p)' = HeldAfter(p)
    BY <1>1, <2>2 DEF HeldAfter, Master!Idle
  <2>4. HeadAfter(p)' = HeadAfter(p)
    BY <1>1, <2>1 DEF HeadAfter, Master!Idle, Master!Missing
  <2>5. ~ Master!Live(p)' => post'[p].head = 0
    BY <1>1, <1>6, <2>1 DEF Counts, Master!Live
  <2> QED
    BY <1>1, <2>1, <2>2, <2>3, <2>4, <2>5 DEF Counts
<1> QED
  BY <1>8, <1>9, <1>10 DEF MasterInv

\* The handler stops between two commits: the headcount is off by one more.
LEMMA MasterSlip ==
  ASSUME Master!MasterDataAssumption, MasterInv, Master!Slip
  PROVE  MasterInv'
<1>1. /\ job.touched /\ slips < wanted.slips /\ slips' = slips + 1 /\ job' = Master!Idle
      /\ unit' = unit /\ seat' = seat /\ post' = post /\ wanted' = wanted
  BY DEF Master!Slip
<1>2. slips \in Nat /\ wanted.slips \in Nat
  BY DEF MasterInv, MasterTyped, Master!MasterDataAssumption, Master!Scenario
<1>3. Master!Idle \in [what: {"idle", "hire", "change", "dismiss", "rehire"},
                       who: Employees \cup {"none"}, seat: Places, parent: Rows \cup {"none"},
                       joins: Places, leaves: Places, touched: BOOLEAN]
  BY DEF Master!Idle, Master!Missing, Places
<1>4. MasterTyped'
  BY <1>1, <1>2, <1>3 DEF MasterInv, MasterTyped
<1>5. JobKnown'
  BY <1>1 DEF JobKnown, Master!Idle, Master!Missing
<1>6. job.joins = "none"
  BY <1>1 DEF MasterInv, JobKnown
<1>7. ASSUME NEW p \in Positions PROVE Counts(p)'
  <2> DEFINE h == Cardinality(Master!HeldBy(p))
             a == Cardinality(HeldAfter(p))
             n == post[p].head
  <2>1. Counts(p) /\ p # "none" /\ n \in Nat
    BY MasterTables, PostTyped DEF MasterInv, MasterTyped
  <2>2. /\ h \in Nat /\ a \in Nat /\ a - h \in {-1, 0, 1}
        /\ job.leaves = p => a = h - 1
    BY Holders DEF MasterInv
  <2>3. HeadAfter(p) = IF job.leaves = p THEN n - 1 ELSE n
    BY <1>6, <2>1 DEF HeadAfter
  <2>4. Master!HeldBy(p)' = Master!HeldBy(p)
    BY <1>1 DEF Master!HeldBy, Master!Live
  <2>5. HeldAfter(p)' = Master!HeldBy(p)
    BY <1>1, <2>4 DEF HeldAfter, Master!Idle
  <2>6. HeadAfter(p)' = n
    BY <1>1, <2>1 DEF HeadAfter, Master!Idle, Master!Missing
  <2>7. /\ Cardinality(Master!HeldBy(p))' = h /\ Cardinality(HeldAfter(p))' = h
    BY <2>4, <2>5
  <2>8. HeadAfter(p) - a \in -slips..slips /\ h <= post[p].limit + slips
    BY <2>1 DEF Counts
  <2>9. post[p].limit \in Nat
    BY PostTyped DEF MasterInv, MasterTyped
  <2>10. ~ Master!Live(p)' => post'[p].head = 0
    BY <1>1, <2>1 DEF Counts, Master!Live
  <2> HIDE DEF h, a, n
  <2>11. n - h \in -(slips + 1)..(slips + 1)
    <3>1. CASE job.leaves = p
      BY <1>2, <2>1, <2>2, <2>3, <2>8, <3>1
    <3>2. CASE job.leaves # p
      BY <1>2, <2>1, <2>2, <2>3, <2>8, <3>2
    <3> QED
      BY <3>1, <3>2
  <2>12. h <= post[p].limit + (slips + 1)
    BY <1>2, <2>2, <2>8, <2>9
  <2> QED
    BY <1>1, <2>6, <2>7, <2>10, <2>11, <2>12 DEF Counts
<1> QED
  BY <1>4, <1>5, <1>7 DEF MasterInv

----------------------------------------------------------------------------
(* Master data: the theorems *)

\* Every step of the master data keeps the invariant.
LEMMA MasterNext ==
  ASSUME Master!MasterDataAssumption, MasterInv, [Master!Next]_(Master!vars)
  PROVE  MasterInv'
<1>1. CASE UNCHANGED Master!vars
  <2>1. UNCHANGED <<unit, seat, post, job, slips, wanted>>
    BY <1>1 DEF Master!vars
  <2>2. MasterTyped' /\ JobKnown'
    BY <2>1 DEF MasterInv, MasterTyped, JobKnown, Master!Live
  <2>3. ASSUME NEW p \in Positions PROVE Counts(p)'
    <3>1. Master!HeldBy(p)' = Master!HeldBy(p) /\ Master!Live(p)' = Master!Live(p)
      BY <2>1 DEF Master!HeldBy, Master!Live
    <3>2. HeldAfter(p)' = HeldAfter(p) /\ HeadAfter(p)' = HeadAfter(p)
      BY <2>1, <3>1 DEF HeldAfter, HeadAfter
    <3> QED
      BY <2>1, <3>1, <3>2 DEF MasterInv, Counts
  <2> QED
    BY <2>2, <2>3 DEF MasterInv
<1>2. ASSUME NEW u \in Master!Counted,
             Master!Create(u) \/ Master!Move(u) \/ Master!Retire(u) \/ Master!Restore(u)
      PROVE  MasterInv'
  BY <1>2, MasterAdd, MasterMove, MasterRetire
<1>3. ASSUME NEW u \in Master!Listed, Master!List(u) \/ Master!Rehang(u)
      PROVE  MasterInv'
  BY <1>3, MasterAdd, MasterMove
<1>4. ASSUME NEW e \in Employees,
             Master!Hire(e) \/ Master!Change(e) \/ Master!Dismiss(e) \/ Master!Rehire(e)
      PROVE  MasterInv'
  BY <1>4, MasterBegin
<1> QED
  BY <1>1, <1>2, <1>3, <1>4, MasterLimit, MasterRemove, MasterJoin, MasterLeave, MasterFinish,
     MasterSlip
     DEF Master!Next

\* The invariant holds in every state of the master data.
THEOREM MasterInvariance ==
  ASSUME Master!MasterDataAssumption
  PROVE  Master!Spec => []MasterInv
<1>1. Master!Init => MasterInv
  BY MasterInit
<1>2. MasterInv /\ [Master!Next]_(Master!vars) => MasterInv'
  BY MasterNext
<1> QED
  BY <1>1, <1>2, PTL DEF Master!Spec

\* Between two requests the headcount of a position is the number of live
\* employees who hold it and keeps to its limit, with each handler that stopped
\* between two commits putting it off by one at most
\* (_assign_position_headcount, _unassign_position_headcount, update_employee).
THEOREM HeadcountMatchesHolders ==
  ASSUME Master!MasterDataAssumption
  PROVE  Master!Spec => []HeadcountMatches
<1>1. MasterInv => Master!HeadcountMatches
  <2> SUFFICES ASSUME MasterInv, job = Master!Idle, NEW p \in Positions
               PROVE  /\ post[p].head - Cardinality(Master!HeldBy(p)) \in -slips..slips
                      /\ Cardinality(Master!HeldBy(p)) <= post[p].limit + slips
    BY DEF Master!HeadcountMatches, Master!Cardinality, Cardinality
  <2>1. HeldAfter(p) = Master!HeldBy(p) /\ HeadAfter(p) = post[p].head
    BY AtRest DEF MasterInv
  <2>2. Counts(p)
    BY DEF MasterInv
  <2> QED
    BY <2>1, <2>2 DEF Counts
<1>2. MasterInv => HeadcountMatches
  BY <1>1 DEF HeadcountMatches
<1> QED
  BY <1>2, MasterInvariance, PTL
----------------------------------------------------------------------------
(* Master data: hierarchies *)

\* Rows each of which hangs under another of them.
Loop(S) == S # {} /\ \A u \in S : Master!Live(u) /\ unit[u].parent \in S

\* A row hangs under its like, and under one that is or was there.
Hangs(u) ==
  /\ unit[u].parent \in Master!KindOf(u) \cup {"none"}
  /\ Master!Live(u) /\ unit[u].parent # "none" => unit[unit[u].parent].state # "absent"

Tree == (\A u \in Rows : Hangs(u)) /\ (\A S \in SUBSET Rows : ~ Loop(S))

\* What the handler at work is about to do to the hierarchy of employees.
JobHangs ==
  /\ job.parent \in Employees \cup {"none"} /\ job.what # "rehire"
  /\ job.what \in {"change", "dismiss"} => Master!Live(job.who)
  /\ job.what = "hire" =>
       /\ unit[job.who].state = "absent" /\ job.parent # job.who
       /\ job.parent # "none" => Master!Live(job.parent)

\* Where deleted rows do not come back, no rows hang under each other in a circle.
Rooted == "restore" \notin wanted.ops => JobHangs /\ Tree

\* A row is of the kind of its table.
LEMMA KindIs ==
  ASSUME Master!MasterDataAssumption, NEW K \in Master!Kinds, NEW u \in K
  PROVE  Master!KindOf(u) = K
<1> DEFINE T == <<Departments, Positions, Employees, Categories, Locations>>
<1>1. DOMAIN T = 1..5
  OBVIOUS
<1>2. \A i, j \in DOMAIN T : i # j => T[i] \cap T[j] = {}
  BY DEF Master!MasterDataAssumption
<1>3. \A L \in Master!Kinds : \E i \in 1..5 : L = T[i]
  <2>1. /\ T[1] = Departments /\ T[2] = Positions /\ T[3] = Employees /\ T[4] = Categories
        /\ T[5] = Locations
    OBVIOUS
  <2> HIDE DEF T
  <2> QED
    BY <2>1 DEF Master!Kinds
<1> HIDE DEF T
<1>4. \A L \in Master!Kinds : u \in L => L = K
  BY <1>1, <1>2, <1>3
<1> QED
  BY <1>4 DEF Master!KindOf

Longest == Cardinality(Rows)

\* The row that a walk visits after v.
Above(v) == IF v # "none" /\ Master!Live(v) THEN unit[v].parent ELSE "none"

\* Numbers have a least one.
LEMMA LeastNumber ==
  ASSUME NEW T \in SUBSET Nat, T # {}
  PROVE  \E n \in T : \A m \in T : n <= m
<1>1. \E n \in T : \A m \in T : <<m, n>> \notin OpToRel(<, Nat)
  BY NatLessThanWellFounded, WFMin, Zenon
<1>2. PICK n \in T : \A m \in T : ~ (m < n)
  BY <1>1 DEF OpToRel
<1> QED
  BY <1>2

\* A walk of any length can be written down, one row after the other.
LEMMA WalkExists ==
  ASSUME NEW start, NEW k \in Nat
  PROVE  \E f : f = [n \in 0..k |-> IF n = 0 THEN start ELSE Above(f[n-1])]
<1> DEFINE Walk(f, j) == f = [n \in 0..j |-> IF n = 0 THEN start ELSE Above(f[n-1])]
           Bad == {j \in Nat : ~ \E f : Walk(f, j)}
<1>1. SUFFICES ASSUME Bad # {} PROVE FALSE
  OBVIOUS
<1>2. PICK j \in Bad : \A i \in Bad : j <= i
  BY <1>1, LeastNumber
<1>3. CASE j = 0
  <2> DEFINE g == [n \in 0..0 |-> start]
  <2>1. Walk(g, 0)
    OBVIOUS
  <2> QED
    BY <1>2, <1>3, <2>1
<1>4. CASE j # 0
  <2>1. j - 1 \in Nat /\ j - 1 \notin Bad
    BY <1>2, <1>4
  <2>2. PICK f : Walk(f, j - 1)
    BY <2>1
  <2> DEFINE g == [n \in 0..j |-> IF n < j THEN f[n] ELSE Above(f[n-1])]
  <2>3. ASSUME NEW n \in 0..j PROVE g[n] = IF n = 0 THEN start ELSE Above(g[n-1])
    <3>1. CASE n = j
      <4>1. g[n] = Above(f[n-1]) /\ n # 0 /\ g[n-1] = f[n-1]
        BY <1>2, <1>4, <3>1
      <4> QED
        BY <4>1
    <3>2. CASE n < j
      <4>1. n \in 0..(j-1) /\ g[n] = f[n] /\ f[n] = IF n = 0 THEN start ELSE Above(f[n-1])
        BY <1>2, <2>2, <3>2
      <4>2. n # 0 => g[n-1] = f[n-1]
        BY <3>2, <1>2
      <4> QED
        BY <4>1, <4>2
    <3> QED
      BY <3>1, <3>2, <1>2
  <2>4. Walk(g, j)
    BY <2>3
  <2> QED
    BY <1>2, <2>4
<1> QED
  BY <1>3, <1>4

\* A trail starts where it is asked to and goes on with the row above.
LEMMA TrailSteps ==
  ASSUME Master!MasterDataAssumption, NEW start
  PROVE  /\ Longest \in Nat /\ DOMAIN Master!Trail(start) = 0..Longest
         /\ Master!Trail(start)[0] = start
         /\ \A n \in 1..Longest :
              Master!Trail(start)[n] = Above(Master!Trail(start)[n-1])
<1> DEFINE t == Master!Trail(start)
<1>1. Longest \in Nat
  BY FS_CardinalityType DEF Longest, Master!MasterDataAssumption, Rows, Master!IsFiniteSet, IsFiniteSet
<1>2. \E f : f = [n \in 0..Longest |-> IF n = 0 THEN start ELSE Above(f[n-1])]
  BY <1>1, WalkExists
<1>3. t = [n \in 0..Longest |-> IF n = 0 THEN start ELSE Above(t[n-1])]
  <2>1. t = CHOOSE f : f = [n \in 0..Longest |-> IF n = 0 THEN start ELSE Above(f[n-1])]
    BY ZenonT(60) DEF Master!Trail, Above, Longest, Rows, Master!Missing, Master!Cardinality, Cardinality
  <2> QED
    BY <1>2, <2>1
<1> HIDE DEF t
<1>4. DOMAIN t = 0..Longest /\ t[0] = start /\ \A n \in 1..Longest : t[n] = Above(t[n-1])
  BY <1>1, <1>3
<1> QED
  BY <1>1, <1>4 DEF t

\* A walk that starts in a set whose rows have the row above in it stays there.
LEMMA TrailStays ==
  ASSUME Master!MasterDataAssumption, NEW start, NEW S, start \in S,
         \A n \in 1..Longest : Master!Trail(start)[n-1] \in S => Master!Trail(start)[n] \in S
  PROVE  \A n \in 0..Longest : Master!Trail(start)[n] \in S
<1> DEFINE t == Master!Trail(start)
           Out == {n \in 0..Longest : t[n] \notin S}
<1>1. Longest \in Nat /\ t[0] = start
  BY TrailSteps
<1>2. SUFFICES ASSUME Out # {} PROVE FALSE
  OBVIOUS
<1>3. PICK n \in Out : \A m \in Out : n <= m
  <2>1. Out \in SUBSET Nat
    BY <1>1
  <2> HIDE DEF Out
  <2> QED
    BY <1>2, <2>1, LeastNumber
<1>4. n # 0
  BY <1>1, <1>3
<1>5. n \in 1..Longest /\ n-1 \in 0..Longest /\ n-1 \notin Out
  BY <1>1, <1>3, <1>4
<1>6. t[n-1] \in S /\ t[n] \notin S
  BY <1>3, <1>5
<1> QED
  BY <1>5, <1>6

\* Where nothing hangs in a circle, a walk ends before it has visited more rows
\* than there are.
LEMMA TrailEnds ==
  ASSUME Master!MasterDataAssumption, MasterTyped, Tree, NEW start \in Rows
  PROVE  Master!Trail(start)[Longest] = "none"
<1> DEFINE t == Master!Trail(start)
<1>1. /\ Longest \in Nat /\ t[0] = start
      /\ \A n \in 1..Longest : t[n] = Above(t[n-1])
  BY TrailSteps
<1>2. \A v \in Rows : unit[v].parent \in Rows \cup {"none"}
  BY DEF MasterTyped
<1>3. \A n \in 0..Longest : t[n] \in Rows \cup {"none"}
  <2>1. \A n \in 1..Longest : t[n-1] \in Rows \cup {"none"} => t[n] \in Rows \cup {"none"}
    BY <1>1, <1>2 DEF Above
  <2> QED
    BY <2>1, TrailStays
<1>4. SUFFICES ASSUME t[Longest] # "none" PROVE FALSE
  OBVIOUS
<1>5. \A n \in 0..Longest : t[n] # "none"
  <2> DEFINE Last == {d \in 0..Longest : t[Longest - d] = "none"}
  <2>1. SUFFICES ASSUME Last # {} PROVE FALSE
    <3>1. ASSUME NEW n \in 0..Longest, t[n] = "none" PROVE Longest - n \in Last
      <4>1. Longest - n \in 0..Longest /\ Longest - (Longest - n) = n
        BY <1>1
      <4> QED
        BY <3>1, <4>1
    <3> QED
      BY <3>1
  <2>2. PICK d \in Last : \A m \in Last : d <= m
    <3>1. Last \in SUBSET Nat
      BY <1>1
    <3> HIDE DEF Last
    <3> QED
      BY <2>1, <3>1, LeastNumber
  <2>3. d # 0
    BY <1>1, <1>4, <2>2
  <2>4. d - 1 \in 0..Longest /\ d - 1 \notin Last
    BY <1>1, <2>2, <2>3
  <2>5. /\ Longest - d + 1 \in 1..Longest /\ Longest - (d - 1) = Longest - d + 1
        /\ (Longest - d + 1) - 1 = Longest - d
    BY <1>1, <2>2, <2>3
  <2>6. t[Longest - d] = "none" /\ t[Longest - d + 1] # "none"
    BY <2>2, <2>4, <2>5
  <2> HIDE DEF t
  <2>7. t[Longest - d + 1] = Above(t[Longest - d])
    BY <1>1, <2>5
  <2> QED
    BY <2>6, <2>7 DEF Above
<1> HIDE DEF t
<1>6. \A n \in 0..Longest : t[n] \in Rows
  BY <1>3, <1>5
<1>7. \A n \in 0..(Longest - 1) : Master!Live(t[n]) /\ unit[t[n]].parent = t[n+1]
  <2> TAKE n \in 0..(Longest - 1)
  <2>1. n + 1 \in 1..Longest /\ (n + 1) - 1 = n /\ n \in 0..Longest /\ n + 1 \in 0..Longest
    BY <1>1
  <2>2. t[n+1] = Above(t[n]) /\ t[n+1] # "none"
    BY <1>1, <1>5, <2>1
  <2> QED
    BY <2>2 DEF Above
<1>8. \E i, j \in 0..Longest : i < j /\ t[i] = t[j]
  <2> DEFINE f == [n \in 0..Longest |-> t[n]]
  <2>1. f \in [0..Longest -> Rows]
    BY <1>6
  <2>2. IsFiniteSet(Rows) /\ Cardinality(Rows) = Longest
    BY DEF Longest, Master!MasterDataAssumption, Rows, Master!IsFiniteSet, IsFiniteSet
  <2>3. IsFiniteSet(0..Longest) /\ Cardinality(0..Longest) = Longest + 1
    BY <1>1, FS_Interval
  <2>4. Cardinality(Rows) < Cardinality(0..Longest)
    BY <1>1, <2>2, <2>3
  <2> HIDE DEF f
  <2>5. PICK i, j \in 0..Longest : i # j /\ f[i] = f[j]
    <3> DEFINE S == 0..Longest
    <3>1. f \in [S -> Rows] /\ IsFiniteSet(Rows) /\ IsFiniteSet(S) /\ Cardinality(Rows) < Cardinality(S)
      BY <2>1, <2>2, <2>3, <2>4
    <3> HIDE DEF S
    <3>2. \E i, j \in S : i # j /\ f[i] = f[j]
      BY <3>1, FS_PigeonHole
    <3> QED
      BY <3>2 DEF S
  <2>6. t[i] = t[j]
    BY <2>5 DEF f
  <2>7. i < j \/ j < i
    BY <1>1, <2>5
  <2> QED
    BY <2>6, <2>7
<1>9. PICK i, j \in 0..Longest : i < j /\ t[i] = t[j]
  BY <1>8
<1> DEFINE S == {t[n] : n \in i..(j-1)}
<1>10. S \subseteq Rows /\ S # {}
  <2>1. i \in i..(j-1) /\ i..(j-1) \subseteq 0..Longest
    BY <1>1, <1>9
  <2> QED
    BY <1>6, <2>1
<1>11. ASSUME NEW n \in i..(j-1) PROVE Master!Live(t[n]) /\ unit[t[n]].parent \in S
  <2>1. n \in 0..(Longest - 1)
    BY <1>1, <1>9
  <2>2. Master!Live(t[n]) /\ unit[t[n]].parent = t[n+1]
    BY <1>7, <2>1
  <2>3. CASE n + 1 = j
    <3>1. unit[t[n]].parent = t[i] /\ i \in i..(j-1)
      BY <1>1, <1>9, <2>2, <2>3
    <3> QED
      BY <2>2, <3>1
  <2>4. CASE n + 1 # j
    <3>1. n + 1 \in i..(j-1)
      BY <1>1, <1>9, <2>4
    <3> QED
      BY <2>2, <3>1
  <2> QED
    BY <2>3, <2>4
<1>12. Loop(S)
  BY <1>10, <1>11 DEF Loop
<1> QED
  BY <1>10, <1>12 DEF Tree

\* A row that appears, hangs elsewhere or goes: rows still hang in no circle if
\* the row above it is not below it.
LEMMA Rehung ==
  ASSUME Master!MasterDataAssumption, MasterTyped, Tree, NEW u \in Rows,
         NEW STATE r, r \in [state: {"live", "deleted"}, parent: Rows \cup {"none"}],
         unit' = [unit EXCEPT ![u] = r], r.parent \in Master!KindOf(u) \cup {"none"},
         r.state = "live" /\ r.parent # "none" =>
           \/ Master!Live(u) /\ r.parent = unit[u].parent
           \/ Master!Live(u) /\ Master!Live(r.parent) /\ ~ Master!Circular(u, r.parent)
           \/ unit[u].state = "absent" /\ Master!Live(r.parent) /\ r.parent # u
  PROVE  Tree'
<1>1. unit \in [Rows -> [state: {"absent", "live", "deleted"}, parent: Rows \cup {"none"}]]
  BY DEF MasterTyped
<1>2. unit'[u] = r /\ \A v \in Rows \ {u} : unit'[v] = unit[v]
  BY <1>1
<1>3. \A v \in Rows : Hangs(v)
  BY DEF Tree
<1>4. ASSUME NEW v \in Rows PROVE Hangs(v)'
  <2>1. unit'[v].parent \in Master!KindOf(v) \cup {"none"}
    BY <1>2, <1>3 DEF Hangs
  <2>2. ASSUME unit'[v].state = "live", unit'[v].parent # "none"
        PROVE  unit'[unit'[v].parent].state # "absent"
    <3> DEFINE w == unit'[v].parent
    <3>1. w \in Rows
      BY <1>1, <1>2, <2>2
    <3>2. w = u => unit'[w].state # "absent"
      BY <1>2
    <3>3. unit[w].state # "absent" \/ w = u
      BY <1>2, <1>3, <2>2 DEF Hangs, Master!Live
    <3> HIDE DEF w
    <3>4. unit'[w].state # "absent"
      BY <1>2, <3>1, <3>2, <3>3
    <3> QED
      BY <3>4 DEF w
  <2> QED
    BY <2>1, <2>2 DEF Hangs, Master!Live, Master!KindOf
<1>5. ASSUME NEW S \in SUBSET Rows, Loop(S)' PROVE FALSE
  <2>1. S # {} /\ \A v \in S : unit'[v].state = "live" /\ unit'[v].parent \in S
    BY <1>5 DEF Loop, Master!Live
  <2>2. \A v \in S \ {u} : Master!Live(v) /\ unit[v].parent \in S
    BY <1>2, <2>1 DEF Master!Live
  <2>3. ~ Loop(S) /\ ~ Loop(S \ {u})
    BY DEF Tree
  <2>4. u \in S
    BY <2>1, <2>2, <2>3 DEF Loop
  <2>5. r.state = "live" /\ r.parent \in S /\ r.parent # "none"
    <3>1. "none" \notin Rows
      BY MasterTables
    <3> QED
      BY <1>2, <2>1, <2>4, <3>1
  <2>6. CASE Master!Live(u) /\ r.parent = unit[u].parent
    BY <2>1, <2>2, <2>3, <2>5, <2>6 DEF Loop
  <2>7. CASE Master!Live(u) /\ ~ Master!Circular(u, r.parent)
    <3> DEFINE t == Master!Trail(r.parent)
    <3>1. /\ Longest \in Nat /\ DOMAIN t = 0..Longest
          /\ \A n \in 1..Longest : t[n] = Above(t[n-1])
      BY TrailSteps
    <3>2. (\A n \in 0..Longest : t[n] # u) /\ t[Longest] = "none"
      BY <2>7, <3>1 DEF Master!Circular, Longest, Rows, Master!Cardinality, Cardinality, Master!Missing
    <3> HIDE DEF t
    <3>3. \A n \in 1..Longest : t[n-1] \in S => t[n] \in S
      <4> TAKE n \in 1..Longest
      <4> HAVE t[n-1] \in S
      <4>1. n - 1 \in 0..Longest
        BY <3>1
      <4>2. t[n-1] \in S \ {u} /\ t[n-1] # "none"
        BY <3>2, <4>1, MasterTables
      <4> QED
        BY <2>2, <3>1, <4>2 DEF Above
    <3>4. t[Longest] \in S
      BY <2>5, <3>1, <3>3, TrailStays DEF t
    <3> QED
      BY <3>2, <3>4, MasterTables
  <2>8. CASE unit[u].state = "absent" /\ r.parent # u
    <3>1. \A v \in S \ {u} : unit[v].parent # u
      <4> TAKE v \in S \ {u}
      <4>1. Master!Live(v) /\ Hangs(v)
        BY <1>3, <2>2
      <4> QED
        BY <2>8, <4>1, MasterTables DEF Hangs
    <3>2. Loop(S \ {u})
      BY <2>2, <2>5, <2>8, <3>1 DEF Loop
    <3> QED
      BY <2>3, <3>2
  <2> QED
    BY <2>5, <2>6, <2>7, <2>8
<1> QED
  BY <1>4, <1>5 DEF Tree, Rows, Master!Units, Master!Kinds

\* Rows go that nothing is left hanging under.
LEMMA Removed ==
  ASSUME Master!MasterDataAssumption, MasterTyped, Tree, NEW STATE B, B \in SUBSET Rows,
         \A v \in Rows : unit'[v] = IF v \in B THEN Master!NoUnit ELSE unit[v],
         \A v \in Rows \ B : Master!Live(v) => unit[v].parent \notin B
  PROVE  Tree'
<1>1. Master!NoUnit.state = "absent" /\ Master!NoUnit.parent = "none"
  BY DEF Master!NoUnit, Master!Missing
<1>2. ASSUME NEW v \in Rows PROVE Hangs(v)'
  <2>1. Hangs(v)
    BY DEF Tree
  <2>2. unit[v].parent \in Rows \cup {"none"}
    BY DEF MasterTyped
  <2>3. CASE v \in B
    <3>1. unit'[v].state = "absent" /\ unit'[v].parent = "none"
      BY <1>1, <2>3
    <3> QED
      BY <3>1 DEF Hangs, Master!Live
  <2>4. CASE v \notin B
    <3>1. unit'[v] = unit[v]
      BY <2>4
    <3>2. Master!Live(v) /\ unit[v].parent # "none" => unit'[unit[v].parent] = unit[unit[v].parent]
      BY <2>2, <2>4
    <3> QED
      BY <2>1, <3>1, <3>2 DEF Hangs, Master!Live, Master!KindOf
  <2> QED
    BY <2>3, <2>4
<1>3. ASSUME NEW S \in SUBSET Rows, Loop(S)' PROVE FALSE
  <2>1. S # {} /\ \A v \in S : unit'[v].state = "live" /\ unit'[v].parent \in S
    BY <1>3 DEF Loop, Master!Live
  <2>2. \A v \in S : unit'[v] = unit[v]
    BY <1>1, <2>1
  <2>3. Loop(S)
    BY <2>1, <2>2 DEF Loop, Master!Live
  <2> QED
    BY <2>3 DEF Tree
<1> QED
  BY <1>2, <1>3 DEF Tree, Rows, Master!Units, Master!Kinds

\* A walk from a row goes on as the walk from the row above it.
LEMMA TrailShift ==
  ASSUME Master!MasterDataAssumption, NEW v, NEW w, Above(v) = w,
         NEW n \in Nat, n + 1 \in 1..Longest
  PROVE  Master!Trail(v)[n+1] = Master!Trail(w)[n]
<1> DEFINE t == Master!Trail(v)
           s == Master!Trail(w)
           Off == {k \in Nat : k + 1 <= Longest /\ t[k+1] # s[k]}
<1>1. /\ Longest \in Nat /\ t[0] = v /\ s[0] = w
      /\ \A k \in 1..Longest : t[k] = Above(t[k-1])
      /\ \A k \in 1..Longest : s[k] = Above(s[k-1])
  BY TrailSteps
<1> HIDE DEF t, s
<1>2. ASSUME Off # {} PROVE FALSE
  <2>1. PICK k \in Off : \A m \in Off : k <= m
    <3>1. Off \in SUBSET Nat
      OBVIOUS
    <3> HIDE DEF Off
    <3> QED
      BY <1>2, <3>1, LeastNumber
  <2>2. k + 1 \in 1..Longest /\ (k + 1) - 1 = k
    BY <1>1, <2>1
  <2>3. t[k+1] = Above(t[k])
    BY <1>1, <2>2
  <2>4. k # 0
    BY <1>1, <2>1, <2>3
  <2>5. k - 1 \in Nat /\ k \in 1..Longest /\ (k - 1) + 1 = k /\ k - 1 \notin Off
    BY <1>1, <2>1, <2>2, <2>4
  <2>6. t[k] = s[k-1]
    BY <2>2, <2>5
  <2> QED
    BY <1>1, <2>1, <2>3, <2>5, <2>6
<1>3. t[n+1] = s[n]
  BY <1>1, <1>2
<1> QED
  BY <1>3 DEF t, s

\* create_department, create_position, create_category, create_location,
\* update_department, update_position, update_category, update_location.
LEMMA TreeHang ==
  ASSUME Master!MasterDataAssumption, MasterTyped, Tree, NEW u \in Rows,
         Master!Create(u) \/ Master!List(u) \/ Master!Move(u) \/ Master!Rehang(u)
  PROVE  Tree'
<1>1. unit \in [Rows -> [state: {"absent", "live", "deleted"}, parent: Rows \cup {"none"}]]
  BY DEF MasterTyped
<1>2. Master!KindOf(u) \subseteq Rows
  BY MasterTables
<1>3. CASE Master!Create(u) \/ Master!List(u)
  <2>1. Master!Add(u) /\ unit[u].state = "absent"
    BY <1>3 DEF Master!Create, Master!List, Master!NoUnit
  <2>2. PICK parent \in (Master!KindOf(u) \ {u}) \cup {"none"} :
          /\ parent = "none" \/ Master!Live(parent)
          /\ unit' = [unit EXCEPT ![u] = [state |-> "live", parent |-> parent]]
    BY <2>1 DEF Master!Add, Master!MayBeParent, Master!LiveIn, Master!Missing
  <2> DEFINE r == [state |-> "live", parent |-> parent]
  <2>3. /\ r \in [state: {"live", "deleted"}, parent: Rows \cup {"none"}]
        /\ r.state = "live" /\ r.parent = parent /\ unit' = [unit EXCEPT ![u] = r]
    BY <1>2, <2>2
  <2> HIDE DEF r
  <2>4. r.parent \in Master!KindOf(u) \cup {"none"} /\ (r.parent # "none" => r.parent # u)
    BY <2>2, <2>3, MasterTables
  <2> QED
    BY <2>1, <2>2, <2>3, <2>4, Rehung
<1>4. CASE Master!Move(u) \/ Master!Rehang(u)
  <2>1. Master!Live(u)
    BY <1>4 DEF Master!Move, Master!Rehang
  <2>2. PICK parent \in Master!KindOf(u) \cup {"none"} :
          /\ parent = "none" \/ (Master!Live(parent) /\ ~ Master!Circular(u, parent))
          /\ unit' = [unit EXCEPT ![u].parent = parent]
    BY <1>4 DEF Master!Move, Master!Rehang, Master!MayBeParent, Master!LiveIn, Master!Missing
  <2> DEFINE r == [unit[u] EXCEPT !.parent = parent]
  <2>3. /\ r \in [state: {"live", "deleted"}, parent: Rows \cup {"none"}]
        /\ r.state = "live" /\ r.parent = parent /\ unit' = [unit EXCEPT ![u] = r]
    <3>1. unit[u] \in [state: {"absent", "live", "deleted"}, parent: Rows \cup {"none"}]
      BY <1>1
    <3>2. unit[u].state = "live"
      BY <2>1 DEF Master!Live
    <3> QED
      BY <1>1, <1>2, <2>2, <3>1, <3>2
  <2> HIDE DEF r
  <2> QED
    BY <2>1, <2>2, <2>3, Rehung
<1> QED
  BY <1>3, <1>4

\* delete_department, delete_position.
LEMMA TreeRetire ==
  ASSUME Master!MasterDataAssumption, MasterTyped, Tree, NEW u \in Rows, Master!Retire(u)
  PROVE  Tree'
<1>1. unit' = [unit EXCEPT ![u].state = "deleted"]
  BY DEF Master!Retire
<1>2. unit \in [Rows -> [state: {"absent", "live", "deleted"}, parent: Rows \cup {"none"}]]
  BY DEF MasterTyped
<1> DEFINE r == [unit[u] EXCEPT !.state = "deleted"]
<1>3. unit[u] \in [state: {"absent", "live", "deleted"}, parent: Rows \cup {"none"}]
  BY <1>2
<1>4. /\ r \in [state: {"live", "deleted"}, parent: Rows \cup {"none"}]
      /\ r.state = "deleted" /\ r.parent = unit[u].parent /\ unit' = [unit EXCEPT ![u] = r]
  BY <1>1, <1>2, <1>3
<1>5. unit[u].parent \in Master!KindOf(u) \cup {"none"}
  BY DEF Tree, Hangs
<1> HIDE DEF r
<1> QED
  BY <1>4, <1>5, Rehung

\* delete_category, delete_location: what hangs under a row that goes, goes too.
LEMMA TreeRemove ==
  ASSUME Master!MasterDataAssumption, MasterTyped, Tree,
         \/ \E c \in Categories : Master!RemoveCategory(c)
         \/ \E l \in Locations : Master!RemoveLocation(l)
  PROVE  Tree'
<1>1. \A v \in Rows : Hangs(v)
  BY DEF Tree
<1>2. unit \in [Rows -> [state: {"absent", "live", "deleted"}, parent: Rows \cup {"none"}]]
  BY DEF MasterTyped
<1>3. Categories \in Master!Kinds /\ Locations \in Master!Kinds
  BY DEF Master!Kinds
<1>4. Categories \subseteq Rows /\ Locations \subseteq Rows /\ "none" \notin Rows
  BY MasterTables
<1>5. ASSUME NEW K \in Master!Kinds, NEW v \in Rows, unit[v].parent \in K PROVE v \in K
  <2>1. PICK L \in Master!Kinds : v \in L
    BY DEF Rows, Master!Units
  <2>2. K \subseteq Rows
    BY DEF Rows, Master!Units
  <2>3. unit[v].parent \in L
    BY <1>1, <1>4, <1>5, <2>1, <2>2, KindIs DEF Hangs
  <2>4. K = L
    BY <1>5, <2>1, <2>3, KindIs
  <2> QED
    BY <2>1, <2>4
<1>6. ASSUME NEW c \in Categories, Master!RemoveCategory(c) PROVE Tree'
  <2> DEFINE B == {v \in Categories : \E n \in DOMAIN Master!Trail(v) : Master!Trail(v)[n] = c}
  <2>1. \A v \in Rows : unit'[v] = IF v \in B THEN Master!NoUnit ELSE unit[v]
    BY <1>6 DEF Master!RemoveCategory, Rows
  <2>2. ASSUME NEW v \in Rows, Master!Live(v), unit[v].parent \in B PROVE v \in B
    <3> DEFINE w == unit[v].parent
    <3>1. v \in Categories /\ w \in Rows
      BY <1>3, <1>4, <1>5, <2>2
    <3>2. PICK n \in DOMAIN Master!Trail(w) : Master!Trail(w)[n] = c
      BY <2>2
    <3>3. /\ Longest \in Nat /\ DOMAIN Master!Trail(w) = 0..Longest
          /\ DOMAIN Master!Trail(v) = 0..Longest
          /\ Master!Trail(v)[0] = v /\ Master!Trail(w)[0] = w
          /\ \A k \in 1..Longest : Master!Trail(v)[k] = Above(Master!Trail(v)[k-1])
          /\ \A k \in 1..Longest : Master!Trail(w)[k] = Above(Master!Trail(w)[k-1])
      BY TrailSteps
    <3>4. n # Longest
      BY <1>4, <3>1, <3>2, TrailEnds
    <3>5. n \in Nat /\ n + 1 \in 1..Longest
      BY <3>2, <3>3, <3>4
    <3>6. Above(v) = w
      BY <1>4, <2>2 DEF Above
    <3>7. Master!Trail(v)[n+1] = c
      BY <2>2, <3>2, <3>3, <3>5, <3>6, TrailShift
    <3> QED
      BY <3>1, <3>3, <3>5, <3>7
  <2> HIDE DEF B
  <2>3. B \in SUBSET Rows
    BY <1>4 DEF B
  <2> QED
    BY <2>1, <2>2, <2>3, Removed
<1>7. ASSUME NEW l \in Locations, Master!RemoveLocation(l) PROVE Tree'
  <2> DEFINE B == {l}
  <2>1. /\ unit' = [unit EXCEPT ![l] = Master!NoUnit] /\ Master!Under(l) = {}
    BY <1>7 DEF Master!RemoveLocation
  <2>2. \A v \in Rows : unit'[v] = IF v \in B THEN Master!NoUnit ELSE unit[v]
    BY <1>2, <2>1
  <2>3. ASSUME NEW v \in Rows, Master!Live(v), unit[v].parent = l PROVE FALSE
    <3>1. v \in Locations
      BY <1>3, <1>5, <2>3
    <3>2. v \in Master!Under(l)
      BY <1>3, <2>3, <3>1, KindIs DEF Master!Under
    <3> QED
      BY <2>1, <3>2
  <2>4. B \in SUBSET Rows
    BY <1>4
  <2>5. \A v \in Rows \ B : Master!Live(v) => unit[v].parent \notin B
    BY <2>3
  <2> HIDE DEF B
  <2> QED
    BY <2>2, <2>4, <2>5, Removed
<1> QED
  BY <1>6, <1>7

\* What the handler at work is about to do stays possible.
LEMMA JobNext ==
  ASSUME Master!MasterDataAssumption, MasterInv, JobHangs, Tree, "restore" \notin wanted.ops,
         [Master!Next]_(Master!vars)
  PROVE  JobHangs'
<1>1. CASE job' = Master!Idle
  BY <1>1 DEF JobHangs, Master!Idle, Master!Missing
<1>2. CASE unit' = unit /\ job'.what = job.what /\ job'.who = job.who /\ job'.parent = job.parent
  BY <1>2 DEF JobHangs, Master!Live
<1>3. ASSUME NEW e \in Employees, Master!Hire(e) \/ Master!Change(e) \/ Master!Dismiss(e)
      PROVE  JobHangs'
  <2>1. e \in Rows /\ e # "none" /\ Hangs(e) /\ Master!KindOf(e) = Employees
    BY KindIs, MasterTables DEF Tree, Master!Kinds
  <2>2. unit[e].parent \in Employees \cup {"none"}
    BY <2>1 DEF Hangs
  <2>3. Master!Managers(e) \subseteq Employees \cup {"none"}
    BY <2>2 DEF Master!Managers, Master!LiveIn, Master!Missing
  <2>4. CASE Master!Hire(e)
    <3>1. unit[e].state = "absent" /\ unit[e].parent = "none"
      BY <2>4 DEF Master!Hire, Master!NoUnit, Master!Missing
    <3>2. PICK p \in Master!Openings \cup {"none"}, m \in Master!Managers(e) :
            Master!Start("hire", e, p, m, p, "none")
      BY <2>4 DEF Master!Hire, Master!Missing
    <3>3. m = "none" \/ Master!Live(m)
      BY <3>1 DEF Master!Managers, Master!LiveIn, Master!Missing
    <3>4. m # e
      BY <2>1, <3>1, <3>3 DEF Master!Live
    <3>5. job'.what = "hire" /\ job'.who = e /\ job'.parent = m /\ unit' = unit
      BY <3>2 DEF Master!Start
    <3> QED
      BY <2>3, <3>1, <3>3, <3>4, <3>5 DEF JobHangs, Master!Live
  <2>5. CASE Master!Change(e) \/ Master!Dismiss(e)
    <3>1. /\ job'.what \in {"change", "dismiss"} /\ job'.who = e /\ unit' = unit
          /\ job'.parent \in Employees \cup {"none"}
      BY <2>2, <2>3, <2>5 DEF Master!Change, Master!Dismiss, Master!Start, Master!Missing
    <3>2. Master!Live(e)
      BY <2>5 DEF Master!Change, Master!Dismiss
    <3> QED
      BY <3>1, <3>2 DEF JobHangs, Master!Live
  <2> QED
    BY <1>3, <2>4, <2>5
<1>4. ASSUME NEW u, Master!Create(u) \/ Master!Move(u) \/ Master!Retire(u) \/ Master!Restore(u)
                      \/ Master!List(u) \/ Master!Rehang(u) \/ Master!Limit(u)
                      \/ Master!RemoveCategory(u) \/ Master!RemoveLocation(u)
      PROVE  job' = Master!Idle
  BY <1>4 DEF Master!Asked, Master!Create, Master!Move, Master!Retire, Master!Restore, Master!List,
              Master!Rehang, Master!Limit, Master!RemoveCategory, Master!RemoveLocation
<1>5. CASE Master!Finish \/ Master!Slip
  BY <1>1, <1>5 DEF Master!Finish, Master!Slip
<1>6. CASE Master!Join \/ Master!Leave
  <2>1. job \in [what: {"idle", "hire", "change", "dismiss", "rehire"},
                 who: Employees \cup {"none"}, seat: Places, parent: Rows \cup {"none"},
                 joins: Places, leaves: Places, touched: BOOLEAN]
    BY DEF MasterInv, MasterTyped
  <2> QED
    BY <1>2, <1>6, <2>1 DEF Master!Join, Master!Leave
<1>7. CASE UNCHANGED Master!vars
  BY <1>2, <1>7 DEF Master!vars
<1>8. \A e \in Employees : ~ Master!Rehire(e)
  BY DEF Master!Rehire, Master!Asked
<1> QED
  BY <1>1, <1>3, <1>4, <1>5, <1>6, <1>7, <1>8 DEF Master!Next

\* create_employee, update_employee and delete_employee end.
LEMMA TreeFinish ==
  ASSUME Master!MasterDataAssumption, MasterInv, JobHangs, Tree, Master!Finish
  PROVE  Tree'
<1> DEFINE w == job.who
           r == [state |-> IF job.what = "dismiss" THEN "deleted" ELSE "live", parent |-> job.parent]
<1>1. /\ job # Master!Idle /\ unit' = [unit EXCEPT ![w] = r]
      /\ job.what = "change" => job.parent \in Master!Managers(w)
  BY DEF Master!Finish
<1>2. /\ MasterTyped /\ w \in Employees /\ w \in Rows /\ Master!KindOf(w) = Employees
      /\ job.what \in {"hire", "change", "dismiss"}
  <2>1. job.what \in {"idle", "hire", "change", "dismiss", "rehire"}
    BY DEF MasterInv, MasterTyped
  <2>2. job.what # "idle" /\ w \in Employees
    BY <1>1 DEF MasterInv, JobKnown
  <2> QED
    BY <2>1, <2>2, KindIs, MasterTables DEF MasterInv, JobHangs, Master!Kinds
<1>3. job.parent \in Employees \cup {"none"} /\ Employees \subseteq Rows
  BY MasterTables DEF JobHangs
<1>4. /\ r \in [state: {"live", "deleted"}, parent: Rows \cup {"none"}]
      /\ r.state = (IF job.what = "dismiss" THEN "deleted" ELSE "live") /\ r.parent = job.parent
  BY <1>3
<1>5. ASSUME r.state = "live", r.parent # "none"
      PROVE  \/ Master!Live(w) /\ r.parent = unit[w].parent
             \/ Master!Live(w) /\ Master!Live(r.parent) /\ ~ Master!Circular(w, r.parent)
             \/ unit[w].state = "absent" /\ Master!Live(r.parent) /\ r.parent # w
  <2>1. CASE job.what = "hire"
    BY <1>4, <1>5, <2>1 DEF JobHangs
  <2>2. CASE job.what = "change"
    BY <1>1, <1>4, <1>5, <2>2 DEF JobHangs, Master!Managers, Master!LiveIn, Master!Missing
  <2> QED
    BY <1>2, <1>4, <1>5, <2>1, <2>2
<1> HIDE DEF r, w
<1> QED
  BY <1>1, <1>2, <1>3, <1>4, <1>5, Rehung

\* Every step keeps the hierarchies where deleted rows do not come back.
LEMMA RootedNext ==
  ASSUME Master!MasterDataAssumption, MasterInv, Rooted, [Master!Next]_(Master!vars)
  PROVE  Rooted'
<1>1. wanted' = wanted
  BY DEF Master!Next, Master!vars, Master!Create, Master!Move, Master!Retire, Master!Restore,
         Master!List, Master!Rehang, Master!Limit, Master!RemoveCategory, Master!RemoveLocation,
         Master!Hire, Master!Change, Master!Dismiss, Master!Rehire, Master!Start,
         Master!Join, Master!Leave, Master!Finish, Master!Slip
<1>2. SUFFICES ASSUME "restore" \notin wanted.ops PROVE JobHangs' /\ Tree'
  BY <1>1 DEF Rooted
<1>3. JobHangs /\ Tree /\ MasterTyped
  BY <1>2 DEF Rooted, MasterInv
<1>4. ASSUME unit' = unit PROVE Tree'
  <2>1. ASSUME NEW u \in Rows PROVE Hangs(u)'
    BY <1>3, <1>4 DEF Tree, Hangs, Master!Live, Master!KindOf
  <2>2. ASSUME NEW S \in SUBSET Rows PROVE ~ Loop(S)'
    BY <1>3, <1>4 DEF Tree, Loop, Master!Live
  <2> QED
    BY <2>1, <2>2 DEF Tree, Rows, Master!Units, Master!Kinds
<1>5. \A u \in Master!Counted \cup Master!Listed : u \in Rows
  BY MasterTables DEF Master!Counted, Master!Listed
<1>6. ASSUME NEW u \in Master!Counted, Master!Restore(u) PROVE FALSE
  BY <1>2, <1>6 DEF Master!Restore, Master!Asked
<1>7. ASSUME NEW u, \/ Master!Limit(u) \/ Master!Hire(u) \/ Master!Change(u)
                    \/ Master!Dismiss(u) \/ Master!Rehire(u)
      PROVE  unit' = unit
  BY <1>7 DEF Master!Limit, Master!Hire, Master!Change, Master!Dismiss, Master!Rehire, Master!Start
<1>8. ASSUME Master!Join \/ Master!Leave \/ Master!Slip \/ UNCHANGED Master!vars
      PROVE  unit' = unit
  BY <1>8 DEF Master!Join, Master!Leave, Master!Slip, Master!vars
<1>9. Tree'
  BY <1>3, <1>4, <1>5, <1>6, <1>7, <1>8, TreeHang, TreeRetire, TreeRemove, TreeFinish
     DEF MasterInv, Master!Next
<1> QED
  BY <1>2, <1>3, <1>9, JobNext

\* No department, position, manager, category or location is above itself, where
\* deleted rows do not come back (_validate_no_circular_parent and its siblings).
THEOREM NoRowAboveItself ==
  ASSUME Master!MasterDataAssumption
  PROVE  Master!Spec => []NoCircle
<1>1. Master!Init => Rooted
  <2> SUFFICES ASSUME Master!Init PROVE JobHangs /\ Tree
    BY DEF Rooted
  <2>1. /\ job.what = "idle" /\ job.parent = "none"
        /\ \A u \in Rows : unit[u].state = "absent" /\ unit[u].parent = "none"
    BY DEF Master!Init, Master!Idle, Master!Missing, Master!NoUnit, Rows
  <2>2. JobHangs /\ \A u \in Rows : Hangs(u)
    BY <2>1 DEF JobHangs, Hangs, Master!Live
  <2>3. \A S \in SUBSET Rows : ~ Loop(S)
    BY <2>1 DEF Loop, Master!Live
  <2> QED
    BY <2>2, <2>3 DEF Tree
<1>2. Rooted /\ MasterInv /\ [Master!Next]_(Master!vars) => Rooted'
  BY RootedNext
<1>3. Rooted /\ MasterInv => NoCircle
  <2> SUFFICES ASSUME Rooted, MasterInv, "restore" \notin wanted.ops, NEW u \in Rows
               PROVE  Master!Trail(u)[Longest] = "none"
    BY DEF NoCircle, Master!NoCircle, Longest, Rows, Master!Cardinality, Cardinality, Master!Missing
  <2> QED
    BY TrailEnds DEF Rooted, MasterInv
<1> QED
  BY <1>1, <1>2, <1>3, MasterInvariance, PTL DEF Master!Spec

=============================================================================
