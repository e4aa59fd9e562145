------------------------- MODULE LeaveRequestsProofs -------------------------
(***************************************************************************)
(* Proofs about LeaveRequests for any sets of handlers, requests, kinds,   *)
(* spans and scenarios.                                                    *)
(***************************************************************************)
EXTENDS LeaveRequests, Sums

Busy(t) == task[t].pc # "idle"

\* What a handler knows of the request and the balance it works on.
Known ==
  \A t \in Tasks : LET me == task[t] IN
    /\ Busy(t) => me.op \in Ops
    /\ me.pc \in {"request", "overlap", "balance"} => me.op \in ReviewOps
    /\ Busy(t) /\ me.op \in ReviewOps => me.r \in Requests /\ me.span \in Spans
    /\ me.pc \in {"overlap", "balance", "commit"} => me.kind \in Kinds
    /\ me.pc = "request" => me.op # "create"
    /\ Busy(t) /\ me.op \in ReviewOps \ {"create"} => req[me.r].status # Missing
    /\ me.pc \in {"request", "overlap", "balance"} => me.row = NoRow /\ me.new = NoRow

\* A request that exists has its dates and its kind.
Filled == \A r \in Requests : req[r].status # Missing =>
            req[r].span \in Spans /\ req[r].kind \in Kinds

Alone == OneAtATime => \A t, u \in Tasks : Busy(t) /\ Busy(u) => t = u

Derived(row) == row.state # "absent" => row.remaining = Remaining(row.col)
Sound(row, k) == Derived(row) /\ (k \notin AllowNegative => row.remaining >= 0)

\* Two sets of columns that differ in the availed days at most.
SameButAvailed(col, other) == \A c \in Fields \ {"availed"} : other[c] = col[c]

\* A row as create_leave_balance makes it.
AsOpened(row) == row.state = "live" /\ row.brought = row.col["availed"]

\* The balance rows are derived and covered.
RowsSound ==
  OneAtATime \/ NoCorrections => \A k \in Kinds :
    /\ bal[k].state = "absent" => bal[k] = NoRow
    /\ Sound(bal[k], k)

\* What a handler is about to write.  While nobody corrects a column, the row
\* it loaded is the stored one but for the availed days.
Prepared(t) ==
  LET me == task[t] IN
    /\ Sound(me.row, me.kind) /\ Sound(me.new, me.kind)
    /\ me.row.state # "absent" => bal[me.kind].state # "absent"
    /\ me.op \in ReviewOps =>
         /\ me.row.state = "live" \/ me.new = me.row
         /\ me.new.state = me.row.state
         /\ SameButAvailed(me.row.col, me.new.col)
    /\ me.op = "grant" => AsOpened(me.new)
    /\ me.op \in {"delete", "restore"} =>
         me.row.state # "absent" /\ me.new.state # "absent"
    /\ me.op \in {"adjust", "set"} =>
         ~ NoCorrections /\ me.row.state = "live" /\ me.new.state = "live"
    /\ NoCorrections /\ me.row.state # "absent" =>
         SameButAvailed(bal[me.kind].col, me.row.col)
    /\ OneAtATime => me.new = me.row \/ bal[me.kind] = me.row

AllPrepared == OneAtATime \/ NoCorrections =>
                 \A t \in Tasks : task[t].pc = "commit" => Prepared(t)

IInv == TypeOK /\ Known /\ Filled /\ Alone /\ RowsSound /\ AllPrepared

----------------------------------------------------------------------------
(* Balance rows *)

\* The days left of typed columns are a number (calculate_remaining_days).
LEMMA RemainingInt ==
  ASSUME NEW col \in [Fields -> Nat]
  PROVE  Remaining(col) \in Int
<1>1. Sum(Columns, col) = SumOver(col, Columns)
  BY DEF Sum, SumOver
<1>2. \A c \in Columns : col[c] \in Int
  BY DEF Fields
<1>3. SumOver(col, Columns) \in Int
  BY <1>2, LeaveAssumption, SumInt
<1>4. col["availed"] \in Nat /\ col["encashed"] \in Nat
  BY DEF Fields, Spent
<1> QED
  BY <1>1, <1>3, <1>4 DEF Remaining

\* The availed days alone move the days left, one for one.
LEMMA AvailedMoves ==
  ASSUME NEW col \in [Fields -> Nat], NEW other \in [Fields -> Nat], SameButAvailed(col, other)
  PROVE  Remaining(other) = Remaining(col) + col["availed"] - other["availed"]
<1>1. Sum(Columns, col) = SumOver(col, Columns) /\ Sum(Columns, other) = SumOver(other, Columns)
  BY DEF Sum, SumOver
<1>2. /\ \A c \in Columns : col[c] \in Int /\ col[c] = other[c]
      /\ other["encashed"] = col["encashed"]
      /\ col["encashed"] \in Nat /\ col["availed"] \in Nat /\ other["availed"] \in Nat
  BY LeaveAssumption DEF Fields, Spent, SameButAvailed
<1>3. SumOver(col, Columns) \in Int /\ SumOver(col, Columns) = SumOver(other, Columns)
  BY <1>2, LeaveAssumption, SumInt, SumAgree
<1> HIDE DEF SumOver
<1> QED
  BY <1>1, <1>2, <1>3 DEF Remaining

\* No row is typed and covers what is asked of it.
LEMMA NoRowCovers == NoRow \in Row /\ \A k : Sound(NoRow, k)
BY DEF NoRow, Row, Sound, Derived

\* A row as it is opened is typed and derived, and not overdrawn when that
\* was seen to (_validate_negative_balance).
LEMMA OpeningCovers ==
  ASSUME NEW col \in Openings
  PROVE  /\ OpenRow(col) \in Row /\ AsOpened(OpenRow(col))
         /\ \A k : ~ Overdrawn(OpenRow(col), k) => Sound(OpenRow(col), k)
<1>1. col \in [Fields -> Nat] /\ "availed" \in Fields
  BY LeaveAssumption DEF Openings, Fields, Spent
<1>2. Remaining(col) \in Int /\ col["availed"] \in Nat
  BY <1>1, RemainingInt
<1> HIDE DEF Openings
<1> QED
  BY <1>1, <1>2 DEF OpenRow, Row, AsOpened, Sound, Derived, Overdrawn

\* Deriving the days left again leaves a derived row.
LEMMA WithColumnDerived ==
  ASSUME NEW row \in Row, NEW c \in Fields, NEW v \in Nat
  PROVE  LET new == WithColumn(row, c, v) IN
         /\ new \in Row /\ Derived(new) /\ new.state = row.state
         /\ new.col = [row.col EXCEPT ![c] = v]
         /\ new.remaining = Remaining(new.col)
<1>1. [row.col EXCEPT ![c] = v] \in [Fields -> Nat]
  BY DEF Row
<1>2. Remaining([row.col EXCEPT ![c] = v]) \in Int
  BY <1>1, RemainingInt
<1> QED
  BY <1>1, <1>2 DEF WithColumn, Row, Derived

\* A flush writes typed columns, whatever is stored meanwhile.
LEMMA FlushType ==
  ASSUME NEW loaded \in Row, NEW changed \in Row, NEW stored \in Row
  PROVE  Flush(loaded, changed, stored) \in Row
<1>1. [c \in Fields |-> IF changed.col[c] = loaded.col[c] THEN stored.col[c] ELSE changed.col[c]]
        \in [Fields -> Nat]
  BY DEF Row
<1> QED
  BY <1>1 DEF Flush, Row

\* A flush over the row the handler loaded leaves its columns and remainder.
LEMMA FlushFresh ==
  ASSUME NEW loaded \in Row, NEW changed \in Row
  PROVE  LET new == Flush(loaded, changed, loaded) IN
         new.state = loaded.state /\ new.col = changed.col /\ new.remaining = changed.remaining
BY DEF Flush, Row

\* A flush of a row that was not changed writes nothing.
LEMMA FlushNothing ==
  ASSUME NEW loaded \in Row, NEW stored \in Row
  PROVE  Flush(loaded, loaded, stored) = stored
BY DEF Flush, Row

----------------------------------------------------------------------------
(* Steps *)

\* Handled one at a time, a handler begins when all others rest.
LEMMA NobodyElse ==
  ASSUME NEW t \in Tasks, MayBegin(t), OneAtATime
  PROVE  \A u \in Tasks : ~ Busy(u)
<1> DEFINE S == {u \in Tasks : task[u].pc # "idle"}
<1>1. IsFiniteSet(S)
  BY LeaveAssumption, FS_Subset
<1>2. Cardinality(S) \in Nat /\ Cardinality(S) < 1
  BY <1>1, FS_CardinalityType DEF MayBegin, OneAtATime
<1>3. S = {}
  BY <1>1, <1>2, FS_EmptySet
<1> QED
  BY <1>3 DEF Busy

\* A program that starts has nothing stored and nobody at work.
LEMMA InitIInv == Init => IInv
<1> SUFFICES ASSUME Init PROVE IInv
  OBVIOUS
<1>1. PICK col \in [Opened -> Openings] :
        /\ \A k \in Opened : ~ Overdrawn(OpenRow(col[k]), k)
        /\ bal = [k \in Kinds |-> IF k \in Opened THEN OpenRow(col[k]) ELSE NoRow]
  BY Zenon DEF Init
<1>2. \A k \in Kinds : /\ bal[k] \in Row /\ Sound(bal[k], k)
                       /\ bal[k] = NoRow \/ bal[k].state = "live"
  <2> SUFFICES ASSUME NEW k \in Kinds
               PROVE  /\ bal[k] \in Row /\ Sound(bal[k], k)
                      /\ bal[k] = NoRow \/ bal[k].state = "live"
    OBVIOUS
  <2>1. CASE k \in Opened
    <3>1. col[k] \in Openings /\ bal[k] = OpenRow(col[k]) /\ ~ Overdrawn(OpenRow(col[k]), k)
      BY <1>1, <2>1
    <3> QED
      BY <3>1, OpeningCovers DEF AsOpened
  <2>2. CASE k \notin Opened
    <3>1. bal[k] = NoRow
      BY <1>1, <2>2
    <3> QED
      BY <3>1, NoRowCovers
  <2> QED
    BY <2>1, <2>2
<1>3. TypeOK
  <2>1. bal \in [Kinds -> Row]
    <3>1. bal = [k \in Kinds |-> bal[k]]
      BY <1>1
    <3> QED
      BY <1>2, <3>1
  <2> QED
    BY <2>1, NoRowCovers, LeaveAssumption DEF Init, TypeOK, Leave, NoLeave, Task, Resting, Pcs
<1>4. Known /\ Filled /\ Alone /\ AllPrepared
  BY LeaveAssumption DEF Init, Known, Filled, Alone, AllPrepared, Busy, NoLeave, Resting
<1>5. RowsSound
  BY <1>2 DEF RowsSound
<1> QED
  BY <1>3, <1>4, <1>5 DEF IInv

\* An arriving handler knows only what its caller gave it.
LEMMA BeginStep ==
  ASSUME IInv, NEW t \in Tasks, Begin(t)
  PROVE  IInv'
<1> USE DEF IInv
<1>0. PICK op \in ReviewOps \cap scenario.ops, r \in Requests,
           s \in scenario.spans, given \in scenario.kinds :
        IF op = "create"
        THEN /\ req[r].status = Missing
             /\ task' = [task EXCEPT ![t] = [Resting EXCEPT
                  !.pc = "overlap", !.op = op, !.r = r, !.span = s, !.kind = given]]
        ELSE /\ req[r].status # Missing
             /\ op # "update" => s = req[r].span
             /\ given = req[r].kind
             /\ task' = [task EXCEPT ![t] = [Resting EXCEPT
                  !.pc = "request", !.op = op, !.r = r, !.span = s]]
  BY Zenon DEF Begin
<1>1. /\ s \in Spans
      /\ \E kind \in Kinds :
           \/ /\ op = "create"
              /\ task' = [task EXCEPT ![t] = [Resting EXCEPT
                 !.pc = "overlap", !.op = op, !.r = r, !.span = s, !.kind = kind]]
           \/ /\ req[r].status # Missing /\ op # "create"
              /\ task' = [task EXCEPT ![t] = [Resting EXCEPT
                 !.pc = "request", !.op = op, !.r = r, !.span = s]]
  <2>1. scenario.spans \subseteq Spans /\ scenario.kinds \subseteq Kinds
    BY LeaveAssumption DEF TypeOK, Scenario
  <2>2. s \in Spans /\ given \in Kinds
    BY <2>1
  <2> QED
    BY <1>0, <2>2, Zenon
<1>2. UNCHANGED <<req, bal, started, scenario>>
  BY DEF Begin
<1>3. MayBegin(t)
  BY DEF Begin
<1>4. PICK new \in Task :
        /\ task' = [task EXCEPT ![t] = new]
        /\ new.op = op /\ new.r = r /\ new.span = s /\ new.row = NoRow /\ new.new = NoRow
        /\ \/ new.pc = "overlap" /\ new.kind \in Kinds /\ op = "create"
           \/ new.pc = "request" /\ req[r].status # Missing /\ op # "create"
  <2> DEFINE made(k) == [Resting EXCEPT
                !.pc = "overlap", !.op = op, !.r = r, !.span = s, !.kind = k]
             asked == [Resting EXCEPT !.pc = "request", !.op = op, !.r = r, !.span = s]
  <2>1. Resting \in Task
    BY NoRowCovers DEF Task, Resting, NoLeave, Leave, Pcs
  <2>2. op \in Ops \cup {Missing}
    BY DEF Ops
  <2>3. asked \in Task /\ \A k \in Kinds : made(k) \in Task
    BY <1>1, <2>1, <2>2 DEF Task, Pcs
  <2>4. /\ asked.pc = "request" /\ asked.op = op /\ asked.r = r /\ asked.span = s
        /\ asked.row = NoRow /\ asked.new = NoRow
        /\ \A k \in Kinds : /\ made(k).pc = "overlap" /\ made(k).op = op /\ made(k).r = r
                            /\ made(k).span = s /\ made(k).row = NoRow /\ made(k).new = NoRow
                            /\ made(k).kind = k
    BY DEF Resting
  <2>5. CASE task' = [task EXCEPT ![t] = asked] /\ req[r].status # Missing /\ op # "create"
    <3> HIDE DEF asked
    <3> QED
      BY <2>3, <2>4, <2>5
  <2>6. CASE op = "create" /\ \E k \in Kinds : task' = [task EXCEPT ![t] = made(k)]
    <3>1. PICK k \in Kinds : task' = [task EXCEPT ![t] = made(k)]
      BY <2>6
    <3> DEFINE new == made(k)
    <3>2. /\ new \in Task /\ task' = [task EXCEPT ![t] = new]
          /\ new.pc = "overlap" /\ new.op = op /\ new.r = r /\ new.span = s
          /\ new.row = NoRow /\ new.new = NoRow /\ new.kind \in Kinds
      BY <2>3, <2>4, <3>1
    <3> HIDE DEF new
    <3> QED
      BY <2>6, <3>2
  <2> QED
    BY <1>1, <2>5, <2>6
<1>5. TypeOK' /\ Known'
  <2>1. TypeOK'
    BY <1>2, <1>4 DEF TypeOK
  <2>2. \A u \in Tasks : task'[u] = IF u = t THEN new ELSE task[u]
    BY <1>4 DEF TypeOK
  <2>3. op \in Ops /\ op \in ReviewOps
    BY DEF Ops
  <2>4. Known'
    BY <1>1, <1>2, <1>4, <2>2, <2>3 DEF Known, Busy
  <2> QED
    BY <2>1, <2>4
<1>6. Filled' /\ RowsSound'
  BY <1>2 DEF Filled, RowsSound, OneAtATime, NoCorrections
<1>7. Alone'
  BY <1>1, <1>2, <1>3, NobodyElse DEF TypeOK, Alone, Busy, OneAtATime
<1>8. AllPrepared'
  <2>1. \A u \in Tasks : task'[u].pc = "commit" => task'[u] = task[u]
    BY <1>4 DEF TypeOK
  <2> QED
    BY <1>2, <2>1 DEF AllPrepared, Prepared, OneAtATime, NoCorrections
<1> QED
  BY <1>5, <1>6, <1>7, <1>8

\* A handler that ends without writing.
LEMMA FinishStep ==
  ASSUME IInv, NEW t \in Tasks, Finish(t), UNCHANGED <<req, bal, started, scenario>>
  PROVE  IInv'
<1> USE DEF IInv
<1>1. TypeOK'
  BY NoRowCovers DEF Finish, TypeOK, Task, Resting, NoLeave, Leave, Pcs
<1>2. Known'
  BY DEF Finish, TypeOK, Known, Busy, Resting
<1>3. Filled' /\ RowsSound'
  BY DEF Filled, RowsSound, OneAtATime, NoCorrections
<1>4. Alone'
  BY DEF Finish, TypeOK, Alone, Busy, Resting, OneAtATime
<1>5. AllPrepared'
  BY DEF Finish, TypeOK, AllPrepared, Prepared, Resting, OneAtATime, NoCorrections
<1> QED
  BY <1>1, <1>2, <1>3, <1>4, <1>5

\* A handler goes on to work that is typed, known and, before a commit, prepared.
LEMMA GoOn ==
  ASSUME IInv, NEW t \in Tasks, Busy(t), NEW new \in Task, new.pc # "idle",
         task' = [task EXCEPT ![t] = new], UNCHANGED <<req, bal, started, scenario>>,
         new.op = task[t].op, new.op \in ReviewOps, new.r = task[t].r, new.span \in Spans,
         new.kind \in Kinds, new.pc # "request",
         new.pc # "commit" => new.row = NoRow /\ new.new = NoRow,
         (OneAtATime \/ NoCorrections) /\ new.pc = "commit" => Prepared(t)'
  PROVE  IInv'
<1> USE DEF IInv
<1>1. TypeOK'
  BY DEF TypeOK
<1>2. Known'
  BY DEF TypeOK, Known, Busy
<1>3. Filled' /\ RowsSound'
  BY DEF Filled, RowsSound, OneAtATime, NoCorrections
<1>4. Alone'
  BY DEF TypeOK, Alone, Busy, OneAtATime
<1>5. AllPrepared'
  <2> SUFFICES ASSUME OneAtATime \/ NoCorrections, NEW u \in Tasks, task'[u].pc = "commit", u # t
               PROVE  Prepared(u)'
    BY DEF AllPrepared, OneAtATime, NoCorrections, TypeOK
  <2>1. task'[u] = task[u]
    BY DEF TypeOK
  <2>2. Prepared(u)
    BY <2>1 DEF AllPrepared
  <2> QED
    BY <2>1, <2>2 DEF Prepared, OneAtATime, NoCorrections
<1> QED
  BY <1>1, <1>2, <1>3, <1>4, <1>5

\* A handler that read the request knows its kind and its dates.
LEMMA ReadRequestStep ==
  ASSUME IInv, NEW t \in Tasks, ReadRequest(t)
  PROVE  IInv'
<1> DEFINE me == task[t]  row == req[me.r]
<1>1. /\ me.pc = "request" /\ me \in Task /\ me.op \in ReviewOps \ {"create"}
      /\ me.r \in Requests /\ row \in Leave /\ row.status # Missing
      /\ row.span \in Spans /\ row.kind \in Kinds /\ me.span \in Spans
      /\ me.row = NoRow /\ me.new = NoRow
  BY DEF ReadRequest, At, IInv, TypeOK, Known, Filled, Busy
<1>2. UNCHANGED <<req, bal, started, scenario>>
  BY DEF ReadRequest
<1>3. CASE MayMove(me.op, row)
  <2> DEFINE new == [me EXCEPT !.pc = AfterRequest(me.op, row), !.seen = row,
                       !.span = IF me.op = "update" THEN @ ELSE row.span, !.kind = row.kind]
  <2>1. task' = [task EXCEPT ![t] = new]
    BY <1>3 DEF ReadRequest, IInv, TypeOK
  <2>2. AfterRequest(me.op, row) \in {"overlap", "balance", "commit"}
    BY <1>1 DEF AfterRequest, ReviewOps
  <2>3. /\ new \in Task /\ new.op = me.op /\ new.r = me.r /\ new.kind \in Kinds
        /\ new.span \in Spans /\ new.pc \notin {"idle", "request"}
        /\ new.row = NoRow /\ new.new = NoRow
    BY <1>1, <2>2 DEF Task, Pcs
  <2>4. Prepared(t)'
    <3>1. \A k : Sound(NoRow, k)
      BY NoRowCovers
    <3> HIDE DEF new
    <3> QED
      BY <1>1, <1>2, <2>1, <2>3, <3>1
      DEF Prepared, IInv, TypeOK, ReviewOps, NoRow, SameButAvailed
  <2> HIDE DEF new
  <2> QED
    BY <1>1, <1>2, <2>1, <2>3, <2>4, GoOn DEF Busy
<1> QED
  BY <1>2, <1>3, FinishStep DEF ReadRequest

\* The check for overlapping requests writes nothing.
LEMMA CheckOverlapStep ==
  ASSUME IInv, NEW t \in Tasks, CheckOverlap(t)
  PROVE  IInv'
<1> DEFINE me == task[t]  new == [me EXCEPT !.pc = "balance"]
<1>1. /\ me.pc = "overlap" /\ me \in Task /\ me.op \in ReviewOps
      /\ me.span \in Spans /\ me.kind \in Kinds /\ me.row = NoRow /\ me.new = NoRow
  BY DEF CheckOverlap, At, IInv, TypeOK, Known, Busy
<1>2. UNCHANGED <<req, bal, started, scenario>>
  BY DEF CheckOverlap
<1>3. CASE Goto(t, "balance")
  <2>1. task' = [task EXCEPT ![t] = new]
    BY <1>3 DEF Goto, IInv, TypeOK
  <2>2. /\ new \in Task /\ new.op = me.op /\ new.r = me.r /\ new.span = me.span
        /\ new.kind = me.kind /\ new.pc = "balance" /\ new.row = NoRow /\ new.new = NoRow
    BY <1>1 DEF Task, Pcs
  <2> HIDE DEF new
  <2> QED
    BY <1>1, <1>2, <2>1, <2>2, GoOn DEF Busy
<1> QED
  BY <1>2, <1>3, FinishStep DEF CheckOverlap

\* An approval within the balance, or the return of a cancelled one, leaves
\* a derived row that is not overdrawn.
LEMMA ChangedSound ==
  ASSUME NEW me \in Task, NEW k \in Kinds, NEW row \in Row, Sound(row, k), me.op \in ReviewOps,
         me.op = "cancel" \/ Covers(row, k, Asked(me))
  PROVE  LET new == Changed(me, row) IN
         /\ new \in Row /\ Sound(new, k) /\ new.state = row.state
         /\ row.state = "live" \/ new = row
         /\ SameButAvailed(row.col, new.col)
<1> DEFINE n == row.col["availed"]  d == me.seen.days
<1>1. n \in Nat /\ d \in Nat /\ "availed" \in Fields /\ row.remaining \in Int
  BY DEF Row, Task, Leave, Fields, Spent
<1>2. ASSUME NEW v \in Nat, row.state = "live", k \notin AllowNegative => row.remaining + n - v >= 0
      PROVE  LET new == WithColumn(row, "availed", v) IN
             new \in Row /\ Sound(new, k) /\ new.state = row.state /\ SameButAvailed(row.col, new.col)
  <2> DEFINE new == WithColumn(row, "availed", v)
  <2>1. /\ new \in Row /\ Derived(new) /\ new.state = row.state
        /\ new.col = [row.col EXCEPT !["availed"] = v] /\ new.remaining = Remaining(new.col)
    BY <1>1, WithColumnDerived
  <2> HIDE DEF new
  <2>2. /\ row.col \in [Fields -> Nat] /\ new.col \in [Fields -> Nat]
        /\ SameButAvailed(row.col, new.col) /\ new.col["availed"] = v
    BY <1>1, <2>1 DEF Row, SameButAvailed
  <2>3. new.remaining = row.remaining + n - v
    BY <1>2, <2>1, <2>2, AvailedMoves DEF Sound, Derived
  <2> QED
    BY <1>2, <2>1, <2>2, <2>3 DEF Sound, new
<1>3. CASE row.state = "live" /\ me.op = "approve"
  <2>1. k \notin AllowNegative => row.remaining >= d
    BY <1>3 DEF Covers, Asked
  <2>2. Changed(me, row) = WithColumn(row, "availed", n + d)
    BY <1>3 DEF Changed
  <2> QED
    BY <1>1, <1>2, <1>3, <2>1, <2>2
<1>4. CASE row.state = "live" /\ me.op = "cancel"
  <2>1. Changed(me, row) = WithColumn(row, "availed", Give(n - d))
    BY <1>4 DEF Changed
  <2>2. Give(n - d) \in Nat /\ Give(n - d) <= n
    BY <1>1 DEF Give
  <2>3. k \notin AllowNegative => row.remaining + n - Give(n - d) >= 0
    BY <1>1, <2>2 DEF Sound
  <2> QED
    BY <1>2, <1>4, <2>1, <2>2, <2>3
<1>5. CASE row.state # "live"
  <2>1. Changed(me, row) = row
    BY <1>5 DEF Changed
  <2> QED
    BY <2>1 DEF SameButAvailed
<1>6. CASE row.state = "live" /\ me.op # "approve" /\ me.op # "cancel"
  <2>1. Changed(me, row) = row
    BY <1>6 DEF Changed
  <2> QED
    BY <2>1 DEF SameButAvailed
<1> QED
  BY <1>3, <1>4, <1>5, <1>6

\* What approve_leave_request and cancel_leave_request prepare is covered by the balance they read.
LEMMA ReadBalanceStep ==
  ASSUME IInv, NEW t \in Tasks, ReadBalance(t)
  PROVE  IInv'
<1> DEFINE me == task[t]  row == bal[me.kind]  changed == Changed(me, row)
           new == [me EXCEPT !.pc = "commit", !.row = row, !.new = changed]
<1>1. /\ me.pc = "balance" /\ me \in Task /\ me.op \in ReviewOps
      /\ me.span \in Spans /\ me.kind \in Kinds /\ row \in Row
  BY DEF ReadBalance, At, IInv, TypeOK, Known, Busy
<1>2. UNCHANGED <<req, bal, started, scenario>>
  BY DEF ReadBalance
<1>3. CASE me.op = "cancel" \/ Covers(row, me.kind, Asked(me))
  <2>1. task' = [task EXCEPT ![t] = new]
    BY <1>3 DEF ReadBalance, IInv, TypeOK
  <2>2. changed \in Row
    <3>1. row.col["availed"] \in Nat /\ me.seen.days \in Nat /\ "availed" \in Fields
      BY <1>1 DEF Row, Task, Leave, Fields, Spent
    <3>2. /\ row.col["availed"] + me.seen.days \in Nat
          /\ Give(row.col["availed"] - me.seen.days) \in Nat
      BY <3>1 DEF Give
    <3> QED
      BY <1>1, <3>1, <3>2, WithColumnDerived DEF Changed, ReviewOps
  <2>3. /\ new \in Task /\ new.op = me.op /\ new.r = me.r /\ new.span = me.span
        /\ new.kind = me.kind /\ new.pc = "commit" /\ new.row = row /\ new.new = changed
    BY <1>1, <2>2 DEF Task, Pcs
  <2>4. ASSUME OneAtATime \/ NoCorrections PROVE Prepared(t)'
    <3>1. Sound(row, me.kind) /\ SameButAvailed(row.col, row.col)
      BY <1>1, <2>4 DEF IInv, RowsSound, SameButAvailed
    <3>2. /\ Sound(changed, me.kind)
          /\ row.state = "live" \/ changed = row
          /\ changed.state = row.state
          /\ SameButAvailed(row.col, changed.col)
      BY <1>1, <1>3, <3>1, ChangedSound
    <3>3. task'[t] = new
      BY <2>1 DEF IInv, TypeOK
    <3> HIDE DEF new, changed
    <3> QED
      BY <1>1, <1>2, <2>3, <3>1, <3>2, <3>3 DEF Prepared, NoCorrections, OneAtATime, ReviewOps
  <2> HIDE DEF new, changed
  <2> QED
    BY <1>1, <1>2, <2>1, <2>3, <2>4, GoOn DEF Busy
<1> QED
  BY <1>2, <1>3, FinishStep DEF ReadBalance

\* What a review writes is typed, filled and still there.
LEMMA WrittenFilled ==
  ASSUME NEW me \in Task, NEW stored \in Leave, me.op \in ReviewOps, me.span \in Spans,
         me.kind \in Kinds, me.op # "create" => stored.status # Missing,
         stored.status # Missing => stored.span \in Spans /\ stored.kind \in Kinds
  PROVE  LET new == Written(me, stored) IN
         /\ new \in Leave
         /\ stored.status # Missing => new.status # Missing
         /\ new.status # Missing => new.span \in Spans /\ new.kind \in Kinds
<1>1. Days[me.span] \in Nat
  BY LeaveAssumption
<1>2. CASE me.op = "create"
  BY <1>1, <1>2 DEF Written, Leave, Statuses, Missing
<1>3. CASE me.op = "update"
  BY <1>1, <1>3 DEF Written, Leave, Statuses
<1>4. CASE me.op \in {"submit", "approve", "reject", "cancel"}
  <2>1. Target(me.op) \in Statuses
    BY <1>4 DEF Target, Statuses
  <2>2. Written(me, stored) = [stored EXCEPT !.status = Target(me.op)]
    BY <1>4 DEF Written
  <2> QED
    BY <1>4, <2>1, <2>2 DEF Leave, Statuses, Missing
<1> QED
  BY <1>2, <1>3, <1>4 DEF ReviewOps

\* A commit of one balance row, by a handler that then rests.
LEMMA CommitStep ==
  ASSUME IInv, NEW t \in Tasks, Busy(t), Finish(t), UNCHANGED <<started, scenario>>,
         NEW k \in Kinds, NEW row \in Row, bal' = [bal EXCEPT ![k] = row],
         OneAtATime \/ NoCorrections =>
           /\ bal[k].state # "absent" => row.state # "absent"
           /\ row.state = "absent" => row = NoRow
           /\ Sound(row, k)
           /\ NoCorrections /\ bal[k].state # "absent" => SameButAvailed(bal[k].col, row.col),
         req' \in [Requests -> Leave], Filled',
         \A r \in Requests : req[r].status # Missing => req'[r].status # Missing
  PROVE  IInv'
<1> USE DEF IInv
<1>1. TypeOK'
  BY NoRowCovers DEF Finish, TypeOK, Task, Resting, NoLeave, Leave, Pcs
<1>2. \A u \in Tasks : task'[u] = IF u = t THEN Resting ELSE task[u]
  BY DEF Finish, TypeOK
<1>3. Known'
  BY <1>2 DEF Known, Busy, Resting
<1>4. RowsSound'
  BY DEF RowsSound, TypeOK, OneAtATime, NoCorrections
<1>5. Alone'
  BY <1>2 DEF Alone, Busy, Resting, OneAtATime
<1>6. AllPrepared'
  <2> SUFFICES ASSUME OneAtATime \/ NoCorrections, NEW u \in Tasks, task'[u].pc = "commit"
               PROVE  Prepared(u)'
    BY DEF AllPrepared, OneAtATime, NoCorrections
  <2>1. u # t /\ task'[u] = task[u] /\ ~ OneAtATime
    BY <1>2 DEF Resting, Alone, Busy
  <2>2. Prepared(u)
    BY <2>1 DEF AllPrepared
  <2>3. /\ bal[task[u].kind].state # "absent" => bal'[task[u].kind].state # "absent"
        /\ NoCorrections /\ task[u].row.state # "absent" =>
             SameButAvailed(bal'[task[u].kind].col, task[u].row.col)
    BY <2>2 DEF TypeOK, OneAtATime, NoCorrections, Prepared, SameButAvailed
  <2> QED
    BY <2>1, <2>2, <2>3 DEF Prepared, OneAtATime, NoCorrections
<1> QED
  BY <1>1, <1>3, <1>4, <1>5, <1>6

\* The commit of a review writes what was prepared.
LEMMA CommitReviewStep ==
  ASSUME IInv, NEW t \in Tasks, CommitReview(t)
  PROVE  IInv'
<1> DEFINE me == task[t]  k == me.kind  r == me.r  stored == bal[k]
           row == Flush(me.row, me.new, stored)
<1>1. /\ me.pc = "commit" /\ me.op \in ReviewOps /\ me \in Task
      /\ r \in Requests /\ me.span \in Spans /\ k \in Kinds
      /\ req[r] \in Leave /\ stored \in Row /\ me.row \in Row /\ me.new \in Row
      /\ me.op # "create" => req[r].status # Missing
      /\ req[r].status # Missing => req[r].span \in Spans /\ req[r].kind \in Kinds
  BY DEF CommitReview, At, IInv, TypeOK, Known, Filled, Busy, Task
<1>2. /\ req' = [req EXCEPT ![r] = Written(me, req[r])] /\ bal' = [bal EXCEPT ![k] = row]
      /\ Finish(t) /\ UNCHANGED <<started, scenario>>
  BY DEF CommitReview, IInv, TypeOK
<1>3. row \in Row /\ row.state = stored.state
  BY <1>1, FlushType DEF Flush, Row
<1>4. /\ req' \in [Requests -> Leave] /\ Filled'
      /\ \A q \in Requests : req[q].status # Missing => req'[q].status # Missing
  <2> DEFINE new == Written(me, req[r])
  <2>1. /\ new \in Leave /\ (req[r].status # Missing => new.status # Missing)
        /\ new.status # Missing => new.span \in Spans /\ new.kind \in Kinds
    BY <1>1, WrittenFilled
  <2>2. req' = [req EXCEPT ![r] = new]
    BY <1>2
  <2> HIDE DEF new
  <2> QED
    BY <1>1, <2>1, <2>2 DEF IInv, TypeOK, Filled
<1>5. ASSUME OneAtATime \/ NoCorrections
      PROVE  /\ stored.state # "absent" => row.state # "absent"
             /\ row.state = "absent" => row = NoRow
             /\ Sound(row, k)
             /\ NoCorrections /\ stored.state # "absent" => SameButAvailed(stored.col, row.col)
  <2>1. /\ Prepared(t)
        /\ stored.state = "absent" => stored = NoRow
        /\ Sound(stored, k)
    BY <1>1, <1>5 DEF IInv, AllPrepared, RowsSound
  <2>2. CASE me.new = me.row
    <3>1. row = stored
      BY <1>1, <2>2, FlushNothing
    <3>2. SameButAvailed(stored.col, stored.col)
      BY DEF SameButAvailed
    <3> HIDE DEF row, stored
    <3> QED
      BY <2>1, <3>1, <3>2
  <2>3. CASE me.new # me.row
    <3>1. /\ me.row.state = "live" /\ me.new.state = "live" /\ stored.state # "absent"
          /\ SameButAvailed(me.row.col, me.new.col) /\ Sound(me.row, k) /\ Sound(me.new, k)
          /\ NoCorrections => SameButAvailed(stored.col, me.row.col)
      BY <1>1, <2>1, <2>3 DEF Prepared
    <3>2. CASE OneAtATime
      <4>1. stored = me.row
        BY <2>1, <2>3, <3>2 DEF Prepared
      <4>2. row.col = me.new.col /\ row.remaining = me.new.remaining
        BY <1>1, <4>1, FlushFresh
      <4> HIDE DEF row, stored, me
      <4> QED
        BY <1>3, <3>1, <4>1, <4>2 DEF Sound, Derived
    <3>3. CASE NoCorrections
      <4>1. SameButAvailed(stored.col, me.row.col)
        BY <3>1, <3>3
      <4>2. /\ me.row.col \in [Fields -> Nat] /\ me.new.col \in [Fields -> Nat]
            /\ stored.col \in [Fields -> Nat] /\ row.col \in [Fields -> Nat]
            /\ "availed" \in Fields
        BY <1>1, <1>3 DEF Row, Fields, Spent
      <4> DEFINE n == me.row.col["availed"]  m == me.new.col["availed"]
      <4>3. \A c \in Fields \ {"availed"} :
               me.row.col[c] = stored.col[c] /\ me.new.col[c] = stored.col[c]
        BY <3>1, <4>1 DEF SameButAvailed
      <4>4. \A c \in Fields : row.col[c] =
               IF me.new.col[c] = me.row.col[c] THEN stored.col[c] ELSE me.new.col[c]
        BY <1>1 DEF Flush, Row
      <4>5. SameButAvailed(stored.col, row.col)
        BY <4>3, <4>4 DEF SameButAvailed
      <4>6. me.new.remaining = me.row.remaining + n - m
        <5>1. Remaining(me.new.col) = Remaining(me.row.col) + n - m
          BY <3>1, <4>2, AvailedMoves
        <5>2. me.row.remaining = Remaining(me.row.col)
          BY <3>1 DEF Sound, Derived
        <5>3. me.new.remaining = Remaining(me.new.col)
          BY <3>1 DEF Sound, Derived
        <5> QED
          BY <5>1, <5>2, <5>3
      <4>7. row.remaining =
               IF me.new.remaining = me.row.remaining THEN stored.remaining ELSE me.new.remaining
        BY <1>1 DEF Flush, Row
      <4>8. n \in Nat /\ m \in Nat /\ me.row.remaining \in Int
        BY <1>1, <4>2 DEF Row
      <4> HIDE DEF row, stored, me
      <4>9. CASE n = m
        <5>1. row.col = stored.col
          BY <4>2, <4>3, <4>4, <4>9
        <5>2. row.remaining = stored.remaining
          BY <4>6, <4>7, <4>8, <4>9
        <5> QED
          BY <1>3, <2>1, <3>1, <4>5, <5>1, <5>2 DEF Sound, Derived
      <4>10. CASE n # m
        <5>1. row.col = me.new.col
          BY <4>2, <4>3, <4>4, <4>10
        <5>2. row.remaining = me.new.remaining
          BY <4>6, <4>7, <4>8, <4>10
        <5>3. me.new.remaining = Remaining(me.new.col)
          BY <3>1 DEF Sound, Derived
        <5> QED
          BY <1>3, <3>1, <4>5, <5>1, <5>2, <5>3 DEF Sound, Derived
      <4> QED
        BY <4>9, <4>10
    <3> QED
      BY <1>5, <3>2, <3>3
  <2> QED
    BY <2>2, <2>3
<1> HIDE DEF row
<1> QED
  BY <1>1, <1>2, <1>3, <1>4, <1>5, CommitStep DEF Busy

\* What an operation of the human-resources department prepares.
LEMMA OutcomesSound ==
  ASSUME NEW op \in BalanceOps, NEW k \in Kinds, NEW row \in Row, NEW new \in Outcomes(op, row, k)
  PROVE  /\ new \in Row /\ (Sound(row, k) => Sound(new, k))
         /\ op = "grant" => row.state = "absent" /\ AsOpened(new)
         /\ op \in {"delete", "restore"} =>
              /\ row.state # "absent" /\ new.state # "absent"
         /\ op \in {"adjust", "set"} => row.state = "live" /\ new.state = "live"
<1>1. CASE op = "grant"
  <2>1. row.state = "absent" /\ \E col \in Openings : new = OpenRow(col) /\ ~ Overdrawn(new, k)
    BY <1>1 DEF Outcomes
  <2> QED
    BY <1>1, <2>1, OpeningCovers
<1>2. CASE op = "delete"
  BY <1>2 DEF Outcomes, Row, Sound, Derived
<1>3. CASE op = "restore"
  BY <1>3 DEF Outcomes, Row, Sound, Derived
<1>4. ASSUME NEW c \in Fields, NEW v \in Int, row.state = "live", new \in Revised(row, k, c, v)
      PROVE  new \in Row /\ Sound(new, k) /\ new.state = "live"
  <2>1. v \in Nat /\ new = WithColumn(row, c, v) /\ ~ Overdrawn(new, k)
    BY <1>4, LeaveAssumption DEF Revised
  <2>2. new \in Row /\ Derived(new) /\ new.state = "live"
    BY <1>4, <2>1, WithColumnDerived
  <2> QED
    BY <2>1, <2>2 DEF Sound, Overdrawn, Row
<1>5. CASE op = "adjust"
  <2>1. row.state = "live" /\ \E c \in AdjustColumns, d \in Deltas : new \in Revised(row, k, c, row.col[c] + d)
    BY <1>5 DEF Outcomes
  <2>2. PICK c \in AdjustColumns, d \in Deltas : new \in Revised(row, k, c, row.col[c] + d)
    BY <2>1
  <2>3. c \in Fields /\ row.col[c] + d \in Int
    BY LeaveAssumption DEF Row
  <2> QED
    BY <1>4, <1>5, <2>1, <2>2, <2>3
<1>6. CASE op = "set"
  <2>1. row.state = "live" /\ \E c \in AdjustColumns, v \in Levels : new \in Revised(row, k, c, v)
    BY <1>6 DEF Outcomes
  <2>2. PICK c \in AdjustColumns, v \in Levels : new \in Revised(row, k, c, v)
    BY <2>1
  <2>3. c \in Fields /\ v \in Int
    BY LeaveAssumption
  <2> QED
    BY <1>4, <1>6, <2>1, <2>2, <2>3
<1> QED
  BY <1>1, <1>2, <1>3, <1>5, <1>6 DEF BalanceOps

\* Grants, corrections, deletions and restorations prepare derived rows that are not overdrawn.
LEMMA BeginBalanceOpStep ==
  ASSUME IInv, NEW t \in Tasks, BeginBalanceOp(t)
  PROVE  IInv'
<1>0. PICK op \in BalanceOps \cap scenario.ops, k \in scenario.kinds :
        \E made \in Outcomes(op, bal[k], k) :
          task' = [task EXCEPT ![t] = [Resting EXCEPT !.pc = "commit", !.op = op, !.kind = k,
                                         !.row = bal[k], !.new = made]]
  BY DEF BeginBalanceOp
<1>1. PICK made \in Outcomes(op, bal[k], k) :
        task' = [task EXCEPT ![t] = [Resting EXCEPT !.pc = "commit", !.op = op, !.kind = k,
                                       !.row = bal[k], !.new = made]]
  BY <1>0
<1>2. UNCHANGED <<req, bal, started, scenario>> /\ MayBegin(t)
  BY DEF BeginBalanceOp
<1>3. k \in Kinds /\ op \in Ops \ ReviewOps /\ bal[k] \in Row
  BY LeaveAssumption DEF IInv, TypeOK, Scenario, Ops, ReviewOps, BalanceOps
<1> DEFINE new == [Resting EXCEPT !.pc = "commit", !.op = op, !.kind = k,
                     !.row = bal[k], !.new = made]
<1>4. /\ new.pc = "commit" /\ new.op = op /\ new.kind = k /\ new.row = bal[k] /\ new.new = made
      /\ task' = [task EXCEPT ![t] = new]
      /\ \A u \in Tasks : task'[u] = IF u = t THEN new ELSE task[u]
  BY <1>1 DEF Resting, IInv, TypeOK
<1>5. /\ made \in Row /\ (Sound(bal[k], k) => Sound(made, k))
      /\ op = "grant" => bal[k].state = "absent" /\ AsOpened(made)
      /\ op \in {"delete", "restore"} => bal[k].state # "absent" /\ made.state # "absent"
      /\ op \in {"adjust", "set"} => bal[k].state = "live" /\ made.state = "live"
  BY <1>3, OutcomesSound
<1>6. new \in Task
  <2>1. Resting \in Task
    BY NoRowCovers DEF Task, Resting, NoLeave, Leave, Pcs
  <2> QED
    BY <1>3, <1>5, <2>1 DEF Task, Pcs
<1> HIDE DEF new
<1>7. TypeOK'
  BY <1>2, <1>4, <1>6 DEF IInv, TypeOK
<1>8. Known' /\ Filled'
  BY <1>2, <1>3, <1>4 DEF IInv, Known, Filled, Busy
<1>9. Alone'
  BY <1>2, <1>4, NobodyElse DEF IInv, Alone, Busy, OneAtATime
<1>10. RowsSound'
  BY <1>2 DEF IInv, RowsSound, OneAtATime, NoCorrections
<1>11. AllPrepared'
  <2> SUFFICES ASSUME OneAtATime \/ NoCorrections, NEW u \in Tasks, task'[u].pc = "commit"
               PROVE  Prepared(u)'
    BY <1>2 DEF AllPrepared, OneAtATime, NoCorrections
  <2>1. CASE u # t
    <3>1. Prepared(u) /\ task'[u] = task[u]
      BY <1>4, <2>1 DEF IInv, AllPrepared
    <3> QED
      BY <1>2, <3>1 DEF Prepared, OneAtATime, NoCorrections
  <2>2. CASE u = t
    <3>1. Sound(bal[k], k) /\ SameButAvailed(bal[k].col, bal[k].col)
      BY <1>3 DEF IInv, RowsSound, SameButAvailed
    <3>2. op \in {"adjust", "set"} => ~ NoCorrections
      BY DEF NoCorrections
    <3> QED
      BY <1>2, <1>3, <1>4, <1>5, <2>2, <3>1, <3>2 DEF Prepared, OneAtATime, NoCorrections
  <2> QED
    BY <2>1, <2>2
<1> QED
  BY <1>7, <1>8, <1>9, <1>10, <1>11 DEF IInv

\* The commit of a balance operation writes what was prepared.
LEMMA CommitBalanceOpStep ==
  ASSUME IInv, NEW t \in Tasks, CommitBalanceOp(t)
  PROVE  IInv'
<1> DEFINE me == task[t]  k == me.kind  stored == bal[k]
           row == CASE me.op = "grant" -> IF stored.state = "absent" THEN me.new ELSE stored
                    [] me.op \in {"delete", "restore"} -> [stored EXCEPT !.state = me.new.state]
                    [] OTHER -> Flush(me.row, me.new, stored)
<1>1. /\ me.pc = "commit" /\ me.op \in BalanceOps /\ k \in Kinds /\ me \in Task
      /\ stored \in Row /\ me.row \in Row /\ me.new \in Row
  BY DEF CommitBalanceOp, At, IInv, TypeOK, Known, Task
<1>2. bal' = [bal EXCEPT ![k] = row] /\ Finish(t) /\ UNCHANGED <<req, started, scenario>>
  BY DEF CommitBalanceOp, IInv, TypeOK
<1>3. ASSUME OneAtATime \/ NoCorrections
      PROVE  /\ Prepared(t) /\ Sound(stored, k)
             /\ stored.state = "absent" => stored = NoRow
  BY <1>1, <1>3 DEF IInv, AllPrepared, RowsSound
<1> DEFINE Fine == /\ row \in Row
                   /\ OneAtATime \/ NoCorrections =>
                        /\ stored.state # "absent" => row.state # "absent"
                        /\ row.state = "absent" => row = NoRow
                        /\ Sound(row, k)
                        /\ NoCorrections /\ stored.state # "absent" =>
                             SameButAvailed(stored.col, row.col)
<1>4. /\ me.op = "grant" => row = IF stored.state = "absent" THEN me.new ELSE stored
      /\ me.op \in {"delete", "restore"} => row = [stored EXCEPT !.state = me.new.state]
      /\ me.op \in {"adjust", "set"} => row = Flush(me.row, me.new, stored)
  OBVIOUS
<1> HIDE DEF row
<1>5. ASSUME me.op = "grant" PROVE Fine
  <2>1. row \in Row
    BY <1>1, <1>4, <1>5
  <2>2. row = stored \/ (stored.state = "absent" /\ row = me.new)
    BY <1>4, <1>5
  <2>3. ASSUME OneAtATime \/ NoCorrections
        PROVE  Sound(me.new, k) /\ me.new.state = "live"
    BY <1>3, <1>5, <2>3 DEF Prepared, AsOpened
  <2> HIDE DEF stored, k, me
  <2>4. ASSUME OneAtATime \/ NoCorrections
        PROVE  /\ stored.state # "absent" => row.state # "absent"
               /\ row.state = "absent" => row = NoRow
               /\ Sound(row, k)
               /\ NoCorrections /\ stored.state # "absent" => SameButAvailed(stored.col, row.col)
    <3>1. CASE row = stored
      BY <1>3, <2>4, <3>1 DEF SameButAvailed
    <3>2. CASE stored.state = "absent" /\ row = me.new
      BY <2>3, <2>4, <3>2
    <3> QED
      BY <2>2, <3>1, <3>2
  <2> QED
    BY <2>1, <2>4
<1>6. ASSUME me.op \in {"delete", "restore"} PROVE Fine
  <2>1. /\ row \in Row /\ row.col = stored.col /\ row.remaining = stored.remaining
        /\ row.state = me.new.state
    BY <1>1, <1>4, <1>6 DEF Row
  <2>2. ASSUME OneAtATime \/ NoCorrections PROVE me.new.state # "absent" /\ stored.state # "absent"
    BY <1>3, <1>6, <2>2 DEF Prepared
  <2> HIDE DEF stored, me, k
  <2>3. ASSUME OneAtATime \/ NoCorrections
        PROVE  row.state # "absent" /\ Sound(row, k) /\ SameButAvailed(stored.col, row.col)
    BY <1>3, <2>1, <2>2, <2>3 DEF Sound, Derived, SameButAvailed
  <2> QED
    BY <2>1, <2>3
<1>7. ASSUME me.op \in {"adjust", "set"} PROVE Fine
  <2>1. row \in Row /\ row.state = stored.state
    <3>1. row = Flush(me.row, me.new, stored)
      BY <1>4, <1>7
    <3>2. Flush(me.row, me.new, stored).state = stored.state
      BY <1>1 DEF Flush, Row
    <3> QED
      BY <1>1, <3>1, <3>2, FlushType
  <2>2. ASSUME me.new = me.row PROVE Fine
    <3>1. row = stored
      BY <1>1, <1>4, <1>7, <2>2, FlushNothing
    <3>2. SameButAvailed(stored.col, stored.col)
      BY DEF SameButAvailed
    <3> HIDE DEF stored, me, k
    <3> QED
      BY <1>3, <2>1, <3>1, <3>2
  <2>3. ASSUME me.new # me.row PROVE Fine
    <3>1. ASSUME OneAtATime \/ NoCorrections
          PROVE  /\ ~ NoCorrections /\ OneAtATime /\ Sound(me.new, k)
                 /\ me.row.state = "live" /\ me.new.state = "live" /\ stored = me.row
      BY <1>3, <1>7, <2>3, <3>1 DEF Prepared
    <3>2. stored = me.row => row.col = me.new.col /\ row.remaining = me.new.remaining
      BY <1>1, <1>4, <1>7, FlushFresh
    <3> HIDE DEF stored, me, k
    <3>3. ASSUME OneAtATime \/ NoCorrections
          PROVE  row.state = "live" /\ Sound(row, k) /\ ~ NoCorrections
      BY <2>1, <3>1, <3>2, <3>3 DEF Sound, Derived
    <3> QED
      BY <2>1, <3>3
  <2> QED
    BY <2>2, <2>3
<1>8. Fine
  <2> HIDE DEF Fine
  <2> QED
    BY <1>1, <1>5, <1>6, <1>7 DEF BalanceOps
<1>9. req' \in [Requests -> Leave] /\ Filled'
  BY <1>2 DEF IInv, TypeOK, Filled
<1> QED
  BY <1>1, <1>2, <1>8, <1>9, CommitStep DEF Busy

\* A new day changes no row.
LEMMA DayPassesStep ==
  ASSUME IInv, DayPasses
  PROVE  IInv'
<1>1. \A t \in Tasks : Prepared(t) => Prepared(t)'
  BY DEF DayPasses, Prepared, OneAtATime, NoCorrections
<1> QED
  BY <1>1, LeaveAssumption DEF DayPasses, IInv, TypeOK, Scenario, Known, Filled, Alone, Busy,
     RowsSound, AllPrepared, OneAtATime, NoCorrections

\* Every step keeps the invariant.
LEMMA NextIInv == IInv /\ [Next]_vars => IInv'
<1> SUFFICES ASSUME IInv, [Next]_vars PROVE IInv'
  OBVIOUS
<1>1. CASE DayPasses
  BY <1>1, DayPassesStep
<1>2. ASSUME NEW t \in Tasks, Step(t) PROVE IInv'
  <2>1. CASE Abandon(t)
    BY <2>1, FinishStep DEF Abandon
  <2> QED
    BY <1>2, <2>1, BeginStep, ReadRequestStep, CheckOverlapStep, ReadBalanceStep,
       CommitReviewStep, BeginBalanceOpStep, CommitBalanceOpStep DEF Step
<1>3. CASE UNCHANGED vars
  <2>1. \A t \in Tasks : Prepared(t) => Prepared(t)'
    BY <1>3 DEF vars, Prepared, OneAtATime, NoCorrections
  <2> QED
    BY <1>3, <2>1 DEF vars, IInv, TypeOK, Known, Filled, Alone, Busy, RowsSound, AllPrepared,
       OneAtATime, NoCorrections
<1> QED
  BY <1>1, <1>2, <1>3 DEF Next

----------------------------------------------------------------------------
(* Dates *)

\* Handled one at a time, what a handler has read of its request still holds.
Reviewing(t) ==
  LET me == task[t] IN
    me.op \in ReviewOps \ {"create"} /\ me.pc \in {"overlap", "balance", "commit"} =>
      /\ me.seen = req[me.r]
      /\ me.op = "update" => req[me.r].status = "Draft"
      /\ me.op = "approve" => req[me.r].status = "Pending"
      /\ me.op = "submit" => me.span = req[me.r].span
      /\ me.op = "submit" /\ me.pc # "overlap" => Overlapping(me.r, req[me.r].span) = {}

Booked == NoDoubleBooking /\ (OneAtATime => \A t \in Tasks : Reviewing(t))

\* Steps that write no request and bring a handler no further keep the dates apart.
LEMMA BookedKept ==
  ASSUME Booked, UNCHANGED <<req, scenario>>,
         \A u \in Tasks :
           \/ task'[u] = task[u]
           \/ task'[u].pc \notin {"overlap", "balance", "commit"}
           \/ task'[u].op \notin ReviewOps \ {"create"}
           \/ (OneAtATime => Reviewing(u)')
  PROVE  Booked'
<1>1. NoDoubleBooking'
  BY DEF Booked, NoDoubleBooking, OneAtATime, Active
<1>2. ASSUME OneAtATime, NEW u \in Tasks PROVE Reviewing(u)'
  <2>1. Reviewing(u)
    BY <1>2 DEF Booked
  <2>2. CASE task'[u] = task[u]
    BY <2>1, <2>2 DEF Reviewing, Overlapping, Active
  <2>3. CASE \/ task'[u].pc \notin {"overlap", "balance", "commit"}
             \/ task'[u].op \notin ReviewOps \ {"create"}
    BY <2>3 DEF Reviewing
  <2> QED
    BY <1>2, <2>2, <2>3
<1> QED
  BY <1>1, <1>2 DEF Booked, OneAtATime

\* A request becomes active only when no active one shares its dates, and an
\* active one keeps them.
LEMMA CommitReviewBooked ==
  ASSUME IInv, IInv', Booked, NEW t \in Tasks, CommitReview(t)
  PROVE  Booked'
<1> SUFFICES ASSUME OneAtATime PROVE Booked'
  BY DEF Booked, NoDoubleBooking, OneAtATime, CommitReview
<1> DEFINE me == task[t]  r == me.r  new == Written(me, req[r])
<1>1. /\ me.pc = "commit" /\ me.op \in ReviewOps /\ r \in Requests /\ Reviewing(t)
      /\ me.op = "create" => req[r].status = Missing
      /\ req[r] \in Leave
  BY DEF CommitReview, At, IInv, TypeOK, Known, Busy, Booked
<1>2. /\ req' = [req EXCEPT ![r] = new] /\ UNCHANGED scenario
      /\ \A u \in Tasks : task'[u].pc = "idle"
  <2>1. req' = [req EXCEPT ![r] = new] /\ UNCHANGED scenario /\ Finish(t)
    BY DEF CommitReview
  <2>2. \A u \in Tasks : task'[u] = IF u = t THEN Resting ELSE task[u]
    BY <2>1 DEF Finish, IInv, TypeOK
  <2>3. \A u \in Tasks : u # t => task[u].pc = "idle"
    BY <1>1 DEF IInv, Alone, Busy
  <2> QED
    BY <2>1, <2>2, <2>3 DEF Resting
<1>3. \A q \in Requests : req'[q] = IF q = r THEN new ELSE req[q]
  BY <1>2 DEF IInv, TypeOK
<1>4. \A u \in Tasks : Reviewing(u)'
  BY <1>2 DEF Reviewing
<1>5. CASE me.op \in {"submit", "approve"}
  <2>1. new.span = req[r].span
    BY <1>5 DEF Written
  <2>2. \A o \in Requests \ {r} : Active(o) => <<req[o].span, req[r].span>> \notin Clash
    BY <1>1, <1>5 DEF Reviewing, Booked, NoDoubleBooking, Active, Overlapping
  <2>3. \A q \in Requests : Active(q)' => req'[q].span \in Spans
    BY DEF IInv, Filled, Active, Missing
  <2> HIDE DEF new
  <2>4. ASSUME NEW a \in Requests, NEW b \in Requests, a # b, Active(a)', Active(b)'
        PROVE  <<req'[a].span, req'[b].span>> \notin Clash
    <3>1. a # r => Active(a) /\ req'[a].span = req[a].span
      BY <1>3, <2>4 DEF Active
    <3>2. b # r => Active(b) /\ req'[b].span = req[b].span
      BY <1>3, <2>4 DEF Active
    <3>3. CASE a = r
      BY <1>3, <2>1, <2>2, <2>3, <2>4, <3>2, <3>3, LeaveAssumption
    <3>4. CASE b = r
      BY <1>3, <2>1, <2>2, <2>4, <3>1, <3>4
    <3>5. CASE a # r /\ b # r
      BY <2>4, <3>1, <3>2, <3>5 DEF Booked, NoDoubleBooking
    <3> QED
      BY <3>3, <3>4, <3>5
  <2> QED
    BY <1>4, <2>4 DEF Booked, NoDoubleBooking
<1>6. CASE me.op \in {"create", "update", "reject", "cancel"}
  <2>1. new.status \notin {"Pending", "Approved"}
    BY <1>1, <1>6 DEF Written, Target, Reviewing, Leave
  <2> HIDE DEF new
  <2>2. \A q \in Requests : Active(q)' => Active(q) /\ req'[q].span = req[q].span
    BY <1>3, <2>1 DEF Active
  <2> QED
    BY <1>4, <2>2 DEF Booked, NoDoubleBooking
<1> QED
  BY <1>1, <1>5, <1>6 DEF ReviewOps

\* A request that begins is at its first query, and nothing is written.
LEMMA Begun ==
  ASSUME IInv, NEW t \in Tasks, Begin(t)
  PROVE  \E op \in ReviewOps \cap scenario.ops :
           /\ task'[t].op = op
           /\ \/ op = "create" /\ task'[t].pc = "overlap"
              \/ task'[t].pc = "request"
<1>1. PICK op \in ReviewOps \cap scenario.ops, r \in Requests,
           s \in scenario.spans, k \in scenario.kinds :
        IF op = "create"
        THEN /\ req[r].status = Missing
             /\ task' = [task EXCEPT ![t] = [Resting EXCEPT
                  !.pc = "overlap", !.op = op, !.r = r, !.span = s, !.kind = k]]
        ELSE /\ req[r].status # Missing
             /\ op # "update" => s = req[r].span
             /\ k = req[r].kind
             /\ task' = [task EXCEPT ![t] = [Resting EXCEPT
                  !.pc = "request", !.op = op, !.r = r, !.span = s]]
  BY Zenon DEF Begin
<1>2. task \in [Tasks -> Task]
  BY DEF IInv, TypeOK
<1>3. CASE op = "create"
  <2>1. task'[t] = [Resting EXCEPT !.pc = "overlap", !.op = op, !.r = r, !.span = s, !.kind = k]
    BY <1>1, <1>2, <1>3
  <2> QED
    BY <1>3, <2>1 DEF Resting
<1>4. CASE op # "create"
  <2>1. task'[t] = [Resting EXCEPT !.pc = "request", !.op = op, !.r = r, !.span = s]
    BY <1>1, <1>2, <1>4
  <2> QED
    BY <2>1 DEF Resting
<1> QED
  BY <1>3, <1>4

\* No step books a day twice for one employee.
LEMMA NextBooked ==
  ASSUME IInv, IInv', Booked, [Next]_vars
  PROVE  Booked'
<1>1. CASE DayPasses \/ UNCHANGED vars
  BY <1>1, BookedKept DEF DayPasses, vars
<1>2. ASSUME NEW t \in Tasks, Step(t) PROVE Booked'
  <2>1. CASE Begin(t)
    <3>1. UNCHANGED <<req, scenario>> /\ \A u \in Tasks : u # t => task'[u] = task[u]
      BY <2>1 DEF Begin, IInv, TypeOK
    <3>2. task'[t].pc = "request" \/ task'[t].op = "create"
      BY <2>1, Begun
    <3> QED
      BY <3>1, <3>2, BookedKept
  <2>2. CASE ReadRequest(t)
    <3> DEFINE me == task[t]  row == req[me.r]
    <3>1. UNCHANGED <<req, scenario>> /\ \A u \in Tasks : u # t => task'[u] = task[u]
      BY <2>2 DEF ReadRequest, Finish, IInv, TypeOK
    <3>2. CASE MayMove(me.op, row)
      <4>1. /\ task'[t].seen = row /\ task'[t].op = me.op /\ task'[t].r = me.r
            /\ task'[t].span = IF me.op = "update" THEN me.span ELSE row.span
            /\ task'[t].pc = AfterRequest(me.op, row)
            /\ me.op \in ReviewOps \ {"create"} /\ req' = req
        <5>1. /\ task' = [task EXCEPT ![t].pc = AfterRequest(me.op, row), ![t].seen = row,
                     ![t].span = IF me.op = "update" THEN @ ELSE row.span,
                     ![t].kind = row.kind]
              /\ me.pc = "request" /\ req' = req
          BY <2>2, <3>2 DEF ReadRequest, At
        <5>2. me \in Task /\ me.op \in ReviewOps \ {"create"}
          BY <5>1 DEF IInv, TypeOK, Known
        <5> QED
          BY <5>1, <5>2, Zenon DEF Task, IInv, TypeOK
      <4>2. /\ me.op = "update" => row.status = "Draft"
            /\ me.op = "approve" => row.status = "Pending"
            /\ me.op = "submit" => AfterRequest(me.op, row) = "overlap"
        BY <3>2 DEF MayMove, AfterRequest
      <4>3. Reviewing(t)'
        BY <4>1, <4>2 DEF Reviewing
      <4> QED
        BY <3>1, <4>3, BookedKept
    <3>3. CASE ~ MayMove(me.op, row)
      <4>1. task'[t].pc = "idle"
        BY <2>2, <3>3 DEF ReadRequest, Finish, IInv, TypeOK, Resting
      <4> QED
        BY <3>1, <4>1, BookedKept
    <3> QED
      BY <3>2, <3>3
  <2>3. CASE CheckOverlap(t)
    <3>1. UNCHANGED <<req, scenario>> /\ \A u \in Tasks : u # t => task'[u] = task[u]
      BY <2>3 DEF CheckOverlap, Finish, Goto, IInv, TypeOK
    <3>2. CASE Overlapping(task[t].r, task[t].span) = {}
      <4>1. task'[t] = [task[t] EXCEPT !.pc = "balance"] /\ task[t].pc = "overlap"
        BY <2>3, <3>2 DEF CheckOverlap, At, Goto, IInv, TypeOK
      <4>2. OneAtATime => Reviewing(t)
        BY DEF Booked
      <4>3. task[t] \in Task
        BY DEF IInv, TypeOK
      <4>4. OneAtATime => Reviewing(t)'
        BY <3>1, <3>2, <4>1, <4>2, <4>3 DEF Reviewing, Overlapping, Active, Task
      <4> QED
        BY <3>1, <4>4, BookedKept
    <3>3. CASE Overlapping(task[t].r, task[t].span) # {}
      <4>1. task'[t].pc = "idle"
        BY <2>3, <3>3 DEF CheckOverlap, Finish, IInv, TypeOK, Resting
      <4> QED
        BY <3>1, <4>1, BookedKept
    <3> QED
      BY <3>2, <3>3
  <2>4. CASE ReadBalance(t)
    <3>1. UNCHANGED <<req, scenario>> /\ \A u \in Tasks : u # t => task'[u] = task[u]
      BY <2>4 DEF ReadBalance, Finish, IInv, TypeOK
    <3>2. \/ task'[t].pc = "idle"
          \/ /\ task'[t].op = task[t].op /\ task'[t].r = task[t].r /\ task'[t].span = task[t].span
             /\ task'[t].seen = task[t].seen
      BY <2>4 DEF ReadBalance, Finish, IInv, TypeOK, Task, Resting
    <3>3. OneAtATime => Reviewing(t)
      BY DEF Booked
    <3>4. task[t].pc = "balance"
      BY <2>4 DEF ReadBalance, At
    <3>5. task'[t].pc = "idle" \/ (OneAtATime => Reviewing(t)')
      BY <3>1, <3>2, <3>3, <3>4 DEF Reviewing, Overlapping, Active
    <3> QED
      BY <3>1, <3>5, BookedKept
  <2>5. CASE BeginBalanceOp(t)
    <3>1. UNCHANGED <<req, scenario>> /\ \A u \in Tasks : u # t => task'[u] = task[u]
      BY <2>5 DEF BeginBalanceOp, IInv, TypeOK
    <3>2. task'[t].op \in BalanceOps
      BY <2>5 DEF BeginBalanceOp, IInv, TypeOK, Resting
    <3> QED
      BY <3>1, <3>2, BookedKept DEF BalanceOps, ReviewOps
  <2>6. CASE CommitBalanceOp(t) \/ Abandon(t)
    <3>1. UNCHANGED <<req, scenario>> /\ \A u \in Tasks : u # t => task'[u] = task[u]
      BY <2>6 DEF CommitBalanceOp, Abandon, Finish, IInv, TypeOK
    <3>2. task'[t].pc = "idle"
      BY <2>6 DEF CommitBalanceOp, Abandon, Finish, IInv, TypeOK, Resting
    <3> QED
      BY <3>1, <3>2, BookedKept
  <2> QED
    BY <1>2, <2>1, <2>2, <2>3, <2>4, <2>5, <2>6, CommitReviewBooked DEF Step
<1> QED
  BY <1>1, <1>2 DEF Next

----------------------------------------------------------------------------
(* Deductions *)

\* What the claim about deductions supposes.
Watched == OneAtATime /\ NoCancelUnseen /\ AvailedUncorrected

GivesBack(me) == me.op = "cancel" /\ me.seen.status = "Approved"

\* Handled one at a time, what a handler is about to deduct or give back.
Deducting(t) ==
  LET me == task[t] IN
    /\ Busy(t) => me.op \in scenario.ops
    /\ me.op \in ReviewOps \ {"create"} /\ me.pc \in {"overlap", "balance", "commit"} =>
         /\ me.kind = me.seen.kind
         /\ me.op # "cancel" => me.seen.status # "Approved"
    /\ me.pc \in {"overlap", "balance"} /\ me.op = "cancel" => GivesBack(me)
    /\ me.pc \in {"overlap", "balance"} => me.op # "reject"
    /\ me.pc = "overlap" => me.op # "approve" /\ me.op # "cancel"
    /\ me.pc = "commit" /\ me.op \in ReviewOps =>
         IF me.op = "approve" \/ GivesBack(me)
         THEN /\ me.row = bal[me.kind] /\ me.new = Changed(me, me.row)
              /\ me.op = "approve" /\ me.kind \notin AllowNegative => me.row.state = "live"
         ELSE me.new = me.row
    /\ me.pc = "commit" /\ me.op \in BalanceOps =>
         /\ me.row = bal[me.kind]
         /\ me.op = "grant" => AsOpened(me.new) /\ me.row.state = "absent"
         /\ me.op # "grant" => me.row.state # "absent" /\ me.new.state # "absent"
         /\ me.op = "restore" => me.new.state = "live"
         /\ me.op \in {"adjust", "set"} => me.new.col["availed"] = me.row.col["availed"]

\* The availed days of a kind are those its row was created with and the days
\* approved of it, whether the balance is live or deleted, and no approval is
\* without a balance.
CountedOf(k) ==
  /\ IsFiniteSet(ApprovedOf(k))
  /\ bal[k].state = "absent" => ApprovedOf(k) = {}
  /\ bal[k].state = "deleted" => "delete" \in scenario.ops
  /\ bal[k].col["availed"] = bal[k].brought + ApprovedDays(k)

Counted ==
  Watched => (\A k \in Kinds \ AllowNegative : CountedOf(k)) /\ (\A t \in Tasks : Deducting(t))

\* The condition is about the scenario alone.
LEMMA WatchedStays ==
  ASSUME UNCHANGED scenario
  PROVE  Watched' <=> Watched
BY DEF Watched, OneAtATime, NoCancelUnseen, AvailedUncorrected, NoCorrections

\* Steps that write no row and leave what each handler will deduct keep the count.
LEMMA CountedKept ==
  ASSUME IInv, Counted, UNCHANGED <<req, bal, scenario>>,
         \A u \in Tasks :
           \/ task'[u] = task[u]
           \/ task'[u] = Resting
           \/ (Watched => Deducting(u)')
  PROVE  Counted'
<1> SUFFICES ASSUME Watched PROVE Counted'
  BY WatchedStays DEF Counted
<1>1. ASSUME NEW k \in Kinds \ AllowNegative PROVE CountedOf(k)'
  <2>1. CountedOf(k)
    BY DEF Counted
  <2>2. ApprovedOf(k)' = ApprovedOf(k)
    BY DEF ApprovedOf
  <2>3. ApprovedDays(k)' = ApprovedDays(k)
    BY <2>2 DEF ApprovedDays
  <2> HIDE DEF ApprovedOf, ApprovedDays
  <2> QED
    BY <2>1, <2>2, <2>3 DEF CountedOf
<1>2. ASSUME NEW u \in Tasks PROVE Deducting(u)'
  <2>1. CASE task'[u] = task[u]
    <3>1. Deducting(u)
      BY DEF Counted
    <3>2. Changed(task'[u], task'[u].row) = Changed(task[u], task[u].row)
      BY <2>1
    <3>3. GivesBack(task'[u]) = GivesBack(task[u])
      BY <2>1
    <3>4. Changed(task[u], task[u].row)' = Changed(task'[u], task'[u].row)
      BY DEF Changed
    <3>5. GivesBack(task[u])' = GivesBack(task'[u])
      BY DEF GivesBack
    <3> QED
      BY <2>1, <3>1 DEF Deducting, Busy
  <2>2. CASE task'[u] = Resting
    BY <2>2 DEF Deducting, Busy, Resting
  <2> QED
    BY <2>1, <2>2
<1> QED
  BY <1>1, <1>2, WatchedStays DEF Counted

\* A commit by the only handler leaves all handlers at rest.
LEMMA AllRest ==
  ASSUME IInv, OneAtATime, NEW t \in Tasks, Busy(t), Finish(t)
  PROVE  \A u \in Tasks : Deducting(u)'
<1>1. \A u \in Tasks : task'[u].pc = "idle"
  <2>1. \A u \in Tasks : task'[u] = IF u = t THEN Resting ELSE task[u]
    BY DEF Finish, IInv, TypeOK
  <2> QED
    BY <2>1 DEF IInv, Alone, Busy, Resting
<1> QED
  BY <1>1 DEF Deducting, Busy

\* The days approved of a kind are a number.
LEMMA DaysNat ==
  ASSUME NEW k, TypeOK, IsFiniteSet(ApprovedOf(k))
  PROVE  ApprovedDays(k) \in Nat
<1> DEFINE f == [q \in Requests |-> req[q].days]
<1>0. PICK S1, f1 : S1 = ApprovedOf(k) /\ f1 = f
  OBVIOUS
<1>1. \A q \in S1 : f1[q] \in Nat
  BY <1>0 DEF ApprovedOf, TypeOK, Leave
<1>2. SumOver(f1, S1) \in Nat
  BY <1>0, <1>1, SumNat
<1>3. ApprovedDays(k) = SumOver(f1, S1)
  BY <1>0 DEF ApprovedDays, Sum, SumOver
<1> QED
  BY <1>2, <1>3

\* The days approved of a kind change with the approved requests and their days.
LEMMA SameDays ==
  ASSUME NEW k, IsFiniteSet(ApprovedOf(k)), ApprovedOf(k)' = ApprovedOf(k),
         \A q \in ApprovedOf(k) : req'[q].days = req[q].days
  PROVE  ApprovedDays(k)' = ApprovedDays(k)
<1> DEFINE S == ApprovedOf(k)
           f == [r \in Requests |-> req[r].days]
<1>0. PICK S1, f1, g1 : S1 = S /\ f1 = f /\ g1 = f'
  OBVIOUS
<1>1. \A q \in S1 : g1[q] = f1[q]
  BY <1>0 DEF ApprovedOf
<1>2. SumOver(f1, S1) = SumOver(g1, S1)
  BY <1>0, <1>1, SumAgree
<1>3. ApprovedDays(k) = SumOver(f1, S1)
  BY <1>0 DEF ApprovedDays, Sum, SumOver
<1>4. ApprovedDays(k)' = SumOver(g1, S1)
  <2>1. ApprovedDays(k)' = Sum(ApprovedOf(k)', f')
    BY DEF ApprovedDays
  <2>2. ApprovedOf(k)' = S1 /\ f' = g1
    BY <1>0
  <2> HIDE DEF f, S
  <2>3. ApprovedDays(k)' = Sum(S1, g1)
    BY <2>1, <2>2
  <2> QED
    BY <2>3 DEF Sum, SumOver
<1> QED
  BY <1>2, <1>3, <1>4

\* One more approved request adds its days.
LEMMA MoreDays ==
  ASSUME NEW k, NEW r \in Requests, TypeOK, IsFiniteSet(ApprovedOf(k)), r \notin ApprovedOf(k),
         ApprovedOf(k)' = ApprovedOf(k) \cup {r},
         \A q \in Requests : req'[q].days = req[q].days
  PROVE  /\ IsFiniteSet(ApprovedOf(k)')
         /\ ApprovedDays(k)' = ApprovedDays(k) + req[r].days
<1> DEFINE f == [q \in Requests |-> req[q].days]
<1>0. PICK S1, S2, f1 : S1 = ApprovedOf(k) /\ S2 = ApprovedOf(k)' /\ f1 = f
  OBVIOUS
<1>1. f1 = f'
  BY <1>0
<1>2. IsFiniteSet(S2) /\ S2 \ {r} = S1
  BY <1>0, FS_AddElement
<1>3. \A q \in S2 : f1[q] \in Int
  BY <1>0 DEF ApprovedOf, TypeOK, Leave
<1>4. SumOver(f1, S2) = f1[r] + SumOver(f1, S2 \ {r})
  BY <1>0, <1>2, <1>3, SumTake
<1>5. SumOver(f1, S1) \in Int
  BY <1>0, <1>2, <1>3, SumInt
<1>6. ApprovedDays(k) = SumOver(f1, S1)
  BY <1>0 DEF ApprovedDays, Sum, SumOver
<1>7. ApprovedDays(k)' = SumOver(f1, S2)
  <2>1. ApprovedDays(k)' = Sum(ApprovedOf(k)', f')
    BY DEF ApprovedDays
  <2> HIDE DEF f
  <2>2. ApprovedDays(k)' = Sum(S2, f1)
    BY <1>0, <1>1, <2>1
  <2> QED
    BY <2>2 DEF Sum, SumOver
<1>8. f1[r] = req[r].days /\ f1[r] \in Int
  BY <1>0, <1>3
<1> HIDE DEF f
<1>9. SumOver(f1, S2) = f1[r] + SumOver(f1, S1)
  BY <1>2, <1>4
<1>10. IsFiniteSet(ApprovedOf(k)')
  BY <1>0, <1>2
<1> QED
  BY <1>5, <1>6, <1>7, <1>8, <1>9, <1>10

\* A cancelled approval takes its days away, and they were counted.
LEMMA LessDays ==
  ASSUME NEW k, NEW r \in Requests, TypeOK, IsFiniteSet(ApprovedOf(k)), r \in ApprovedOf(k),
         ApprovedOf(k)' = ApprovedOf(k) \ {r},
         \A q \in Requests : req'[q].days = req[q].days
  PROVE  /\ IsFiniteSet(ApprovedOf(k)')
         /\ ApprovedDays(k) - req[r].days \in Nat
         /\ ApprovedDays(k)' = ApprovedDays(k) - req[r].days
<1> DEFINE f == [q \in Requests |-> req[q].days]
<1>0. PICK S1, S2, f1 : S1 = ApprovedOf(k) /\ S2 = ApprovedOf(k)' /\ f1 = f
  OBVIOUS
<1>1. f1 = f'
  BY <1>0
<1>2. IsFiniteSet(S2) /\ S2 = S1 \ {r}
  BY <1>0, FS_RemoveElement
<1>3. \A q \in S1 : f1[q] \in Nat
  BY <1>0 DEF ApprovedOf, TypeOK, Leave
<1>4. SumOver(f1, S1) = f1[r] + SumOver(f1, S2)
  BY <1>0, <1>2, <1>3, SumTake
<1>5. SumOver(f1, S2) \in Nat
  BY <1>2, <1>3, SumNat
<1>6. ApprovedDays(k) = SumOver(f1, S1)
  BY <1>0 DEF ApprovedDays, Sum, SumOver
<1>7. ApprovedDays(k)' = SumOver(f1, S2)
  <2>1. ApprovedDays(k)' = Sum(ApprovedOf(k)', f')
    BY DEF ApprovedDays
  <2> HIDE DEF f
  <2>2. ApprovedDays(k)' = Sum(S2, f1)
    BY <1>0, <1>1, <2>1
  <2> QED
    BY <2>2 DEF Sum, SumOver
<1>8. f1[r] = req[r].days /\ f1[r] \in Nat
  BY <1>0, <1>3
<1> QED
  BY <1>0, <1>2, <1>4, <1>5, <1>6, <1>7, <1>8

\* A kind whose approved requests and balance stay is counted as before.
LEMMA SameCount ==
  ASSUME NEW k, CountedOf(k), ApprovedOf(k)' = ApprovedOf(k),
         \A q \in ApprovedOf(k) : req'[q].days = req[q].days,
         bal'[k].state = bal[k].state, bal'[k].col["availed"] = bal[k].col["availed"],
         bal'[k].brought = bal[k].brought, UNCHANGED scenario
  PROVE  CountedOf(k)'
<1>1. ApprovedDays(k)' = ApprovedDays(k)
  BY SameDays DEF CountedOf
<1> QED
  BY <1>1 DEF CountedOf

\* An approval adds its days to the availed days of its kind, and a cancelled
\* approval takes them off (approve_leave_request, cancel_leave_request).
LEMMA CommitReviewCounted ==
  ASSUME IInv, Booked, Counted, NEW t \in Tasks, CommitReview(t)
  PROVE  Counted'
<1> SUFFICES ASSUME Watched PROVE Counted'
  BY WatchedStays DEF Counted, CommitReview
<1>0. PICK k, r : k = task[t].kind /\ r = task[t].r
  OBVIOUS
<1> DEFINE me == task[t]  new == Written(me, req[r])
           row == Flush(me.row, me.new, bal[k])
<1>1. /\ me.pc = "commit" /\ me.op \in ReviewOps /\ r \in Requests /\ k \in Kinds
      /\ me \in Task /\ req[r] \in Leave /\ bal[k] \in Row /\ me.row \in Row /\ me.new \in Row
      /\ me.op = "create" => req[r].status = Missing
  BY <1>0 DEF CommitReview, At, IInv, TypeOK, Known, Busy, Task
<1>2. Reviewing(t) /\ Deducting(t)
  BY DEF Booked, Watched, Counted
<1>3. /\ \A q \in Requests : req'[q] = IF q = r THEN new ELSE req[q]
      /\ \A q \in Kinds : bal'[q] = IF q = k THEN row ELSE bal[q]
      /\ UNCHANGED scenario /\ Finish(t)
  BY <1>0, <1>1 DEF CommitReview, IInv, TypeOK
<1>4. \A u \in Tasks : Deducting(u)'
  BY <1>1, <1>3, AllRest DEF Busy, Watched
<1>5. row \in Row /\ row.state = bal[k].state /\ row.brought = bal[k].brought
  BY <1>1, FlushType DEF Flush, Row
<1>6. \A q \in Kinds \ AllowNegative : CountedOf(q)
  BY DEF Counted
<1>7. CASE me.op = "approve" \/ GivesBack(me)
  <2>1. /\ me.seen = req[r] /\ k = req[r].kind
        /\ me.row = bal[k] /\ me.new = Changed(me, me.row)
        /\ me.op = "approve" /\ k \notin AllowNegative => bal[k].state = "live"
        /\ me.op = "approve" => req[r].status = "Pending"
        /\ me.op # "approve" => me.op = "cancel" /\ req[r].status = "Approved"
    BY <1>0, <1>1, <1>2, <1>7 DEF Reviewing, Deducting, GivesBack, ReviewOps
  <2>2. /\ new.kind = k /\ new.days = req[r].days
        /\ new.status = IF me.op = "approve" THEN "Approved" ELSE "Cancelled"
    BY <1>1, <2>1 DEF Written, Target, Leave
  <2>3. row.col = me.new.col
    BY <1>1, <2>1, FlushFresh
  <2>4. \A q \in Requests : req'[q].days = req[q].days
    BY <1>3, <2>2
  <2>5. ApprovedOf(k)' = IF me.op = "approve" THEN ApprovedOf(k) \cup {r} ELSE ApprovedOf(k) \ {r}
    <3> HIDE DEF new
    <3> QED
      BY <1>1, <1>3, <2>1, <2>2 DEF ApprovedOf
  <2>6. (r \in ApprovedOf(k)) = (me.op # "approve")
    BY <1>1, <2>1 DEF ApprovedOf
  <2>7. ASSUME NEW q \in Kinds \ AllowNegative, q # k PROVE CountedOf(q)'
    <3>1. bal'[q] = bal[q]
      BY <1>3, <2>7
    <3>2. ApprovedOf(q)' = ApprovedOf(q)
      <4> HIDE DEF new
      <4> QED
        BY <1>1, <1>3, <2>1, <2>2, <2>7 DEF ApprovedOf
    <3>3. \A o \in ApprovedOf(q) : req'[o].days = req[o].days
      BY <2>4 DEF ApprovedOf
    <3> QED
      BY <1>3, <1>6, <3>1, <3>2, <3>3, SameCount
  <2>8. ASSUME k \notin AllowNegative PROVE CountedOf(k)'
    <3> DEFINE availed == bal[k].col["availed"]  days == req[r].days  brought == bal[k].brought
    <3>1. /\ IsFiniteSet(ApprovedOf(k)) /\ availed = brought + ApprovedDays(k)
          /\ bal[k].state = "absent" => ApprovedOf(k) = {}
          /\ bal[k].state = "deleted" => "delete" \in scenario.ops
      BY <1>1, <1>6, <2>8 DEF CountedOf
    <3>7. ApprovedDays(k) \in Nat /\ brought \in Nat
      BY <1>1, <3>1, DaysNat DEF IInv, Row
    <3>2. bal[k].state = "live"
      <4>1. CASE me.op = "approve"
        BY <2>1, <2>8, <4>1
      <4>2. CASE me.op # "approve"
        <5>1. me.op = "cancel" /\ me.op \in scenario.ops /\ r \in ApprovedOf(k)
          BY <1>1, <1>2, <2>1, <2>6, <4>2 DEF Deducting, Busy
        <5>2. ~ ("delete" \in scenario.ops)
          BY <5>1 DEF Watched, NoCancelUnseen
        <5> QED
          BY <1>1, <3>1, <5>1, <5>2 DEF Row
      <4> QED
        BY <4>1, <4>2
    <3>3. availed \in Nat /\ days \in Nat /\ "availed" \in Fields /\ bal[k].col \in [Fields -> Nat]
      BY <1>1 DEF Row, Leave, Fields, Spent
    <3>4. me.new.col["availed"] =
            IF me.op = "approve" THEN availed + days ELSE Give(availed - days)
      <4> HIDE DEF me
      <4> QED
        BY <2>1, <3>2, <3>3 DEF Changed, WithColumn
    <3>5. CASE me.op = "approve"
      <4>1. IsFiniteSet(ApprovedOf(k)') /\ ApprovedDays(k)' = ApprovedDays(k) + days
        <5>1. r \notin ApprovedOf(k) /\ ApprovedOf(k)' = ApprovedOf(k) \cup {r} /\ TypeOK
          BY <2>5, <2>6, <3>5 DEF IInv
        <5> QED
          BY <1>1, <2>4, <3>1, <5>1, MoreDays
      <4>2. bal'[k].col["availed"] = availed + days
        BY <1>1, <1>3, <2>3, <3>4, <3>5
      <4>3. bal'[k].state = "live" /\ bal'[k].brought = brought
        BY <1>1, <1>3, <1>5, <3>2
      <4> HIDE DEF row, new, me
      <4>4. bal'[k].col["availed"] = bal'[k].brought + ApprovedDays(k)'
        BY <3>1, <3>3, <3>7, <4>1, <4>2, <4>3
      <4> QED
        BY <4>1, <4>3, <4>4 DEF CountedOf
    <3>6. CASE me.op # "approve"
      <4>1. /\ IsFiniteSet(ApprovedOf(k)') /\ ApprovedDays(k) - days \in Nat
            /\ ApprovedDays(k)' = ApprovedDays(k) - days
        <5>1. r \in ApprovedOf(k) /\ ApprovedOf(k)' = ApprovedOf(k) \ {r} /\ TypeOK
          BY <2>5, <2>6, <3>6 DEF IInv
        <5> QED
          BY <1>1, <2>4, <3>1, <5>1, LessDays
      <4>2. Give(availed - days) = availed - days
        BY <3>1, <3>3, <3>7, <4>1 DEF Give
      <4>3. bal'[k].col["availed"] = availed - days
        BY <1>1, <1>3, <2>3, <3>4, <3>6, <4>2
      <4>4. bal'[k].state = "live" /\ bal'[k].brought = brought
        BY <1>1, <1>3, <1>5, <3>2
      <4> HIDE DEF row, new, me
      <4>5. bal'[k].col["availed"] = bal'[k].brought + ApprovedDays(k)'
        BY <3>1, <3>3, <3>7, <4>1, <4>3, <4>4
      <4> QED
        BY <4>1, <4>4, <4>5 DEF CountedOf
    <3> QED
      BY <3>5, <3>6
  <2>9. \A q \in Kinds \ AllowNegative : CountedOf(q)'
    <3> QED
      BY <2>7, <2>8
  <2> QED
    BY <1>4, <2>9 DEF Counted
<1>8. CASE ~ (me.op = "approve" \/ GivesBack(me))
  <2>1. row = bal[k]
    <3>1. me.new = me.row
      BY <1>1, <1>2, <1>8 DEF Deducting
    <3> QED
      BY <1>1, <3>1, FlushNothing
  <2>2. req[r].status # "Approved"
    <3>1. CASE me.op = "create"
      BY <1>1, <3>1 DEF Missing
    <3>2. CASE me.op # "create"
      BY <1>0, <1>1, <1>2, <1>8, <3>2 DEF Reviewing, Deducting, GivesBack
    <3> QED
      BY <3>1, <3>2
  <2>3. new.status # "Approved"
    BY <1>1, <1>8, <2>2 DEF Written, Target, ReviewOps, Leave
  <2>4. ASSUME NEW q \in Kinds \ AllowNegative PROVE CountedOf(q)'
    <3>1. bal'[q] = bal[q]
      BY <1>3, <2>1
    <3> HIDE DEF new
    <3>2. ApprovedOf(q)' = ApprovedOf(q)
      BY <1>1, <1>3, <2>2, <2>3 DEF ApprovedOf
    <3>3. \A o \in ApprovedOf(q) : req'[o].days = req[o].days
      BY <1>3, <2>2 DEF ApprovedOf
    <3> QED
      BY <1>3, <1>6, <3>1, <3>2, <3>3, SameCount
  <2> QED
    BY <1>4, <2>4 DEF Counted
<1> QED
  BY <1>7, <1>8

\* No balance operation moves the availed days of a balance that exists
\* (adjust_leave_balance, soft_delete, restore), and a grant starts with those
\* it is given.
LEMMA CommitBalanceCounted ==
  ASSUME IInv, Counted, NEW t \in Tasks, CommitBalanceOp(t)
  PROVE  Counted'
<1> SUFFICES ASSUME Watched PROVE Counted'
  BY WatchedStays DEF Counted, CommitBalanceOp
<1>0. PICK k : k = task[t].kind
  OBVIOUS
<1> DEFINE me == task[t]
           row == CASE me.op = "grant" -> IF bal[k].state = "absent" THEN me.new ELSE bal[k]
                    [] me.op \in {"delete", "restore"} -> [bal[k] EXCEPT !.state = me.new.state]
                    [] OTHER -> Flush(me.row, me.new, bal[k])
<1>1. /\ me.pc = "commit" /\ me.op \in BalanceOps /\ k \in Kinds
      /\ bal[k] \in Row /\ me.row \in Row /\ me.new \in Row
  BY <1>0 DEF CommitBalanceOp, At, IInv, TypeOK, Known, Task
<1>2. Deducting(t) /\ Prepared(t)
  BY <1>1 DEF Watched, Counted, IInv, AllPrepared
<1>3. /\ \A q \in Kinds : bal'[q] = IF q = k THEN row ELSE bal[q]
      /\ UNCHANGED <<req, scenario>> /\ Finish(t)
  BY <1>0, <1>1 DEF CommitBalanceOp, IInv, TypeOK
<1>4. \A u \in Tasks : Deducting(u)'
  BY <1>1, <1>3, AllRest DEF Busy, Watched
<1>5. \A q \in Kinds \ AllowNegative : CountedOf(q)
  BY DEF Counted
<1>6. \A q : ApprovedOf(q)' = ApprovedOf(q) /\ \A o \in ApprovedOf(q) : req'[o].days = req[o].days
  BY <1>3 DEF ApprovedOf
<1>7. /\ me.row = bal[k] /\ me.op \in scenario.ops
      /\ me.op = "grant" => AsOpened(me.new) /\ bal[k].state = "absent"
      /\ me.op # "grant" => bal[k].state # "absent" /\ me.new.state # "absent"
      /\ me.op \in {"adjust", "set"} => me.new.col["availed"] = bal[k].col["availed"]
  BY <1>0, <1>1, <1>2 DEF Deducting, Busy, BalanceOps, ReviewOps
<1>8. \/ /\ row.col["availed"] = bal[k].col["availed"]
         /\ row.brought = bal[k].brought
      \/ /\ row.col["availed"] = row.brought /\ row.brought \in Nat
         /\ bal[k].col["availed"] = 0 /\ bal[k].brought = 0
  <2>1. CASE me.op = "grant"
    <3>1. bal[k] = NoRow
      BY <1>1, <1>7, <2>1 DEF IInv, RowsSound, Watched
    <3>2. row = me.new
      BY <1>7, <2>1
    <3>3. "availed" \in Fields
      BY DEF Fields, Spent
    <3>4. NoRow.col["availed"] = 0 /\ NoRow.brought = 0
      BY <3>3 DEF NoRow
    <3>5. me.new.col["availed"] = me.new.brought /\ me.new.brought \in Nat
      BY <1>1, <1>7, <2>1 DEF AsOpened, Row
    <3> HIDE DEF row, me
    <3> QED
      BY <3>1, <3>2, <3>4, <3>5
  <2>2. CASE me.op \in {"delete", "restore"}
    BY <1>1, <2>2 DEF Row
  <2>3. CASE me.op \in {"adjust", "set"}
    <3>1. row = Flush(me.row, me.new, bal[k])
      BY <2>3
    <3>2. /\ Flush(me.row, me.new, me.row).col = me.new.col
          /\ Flush(me.row, me.new, me.row).brought = me.row.brought
      BY <1>1, FlushFresh DEF Flush, Row
    <3> HIDE DEF row
    <3> QED
      BY <1>7, <2>3, <3>1, <3>2
  <2> QED
    BY <1>1, <2>1, <2>2, <2>3 DEF BalanceOps
<1>9. /\ row.state # "absent"
      /\ row.state = "deleted" => bal[k].state = "deleted" \/ "delete" \in scenario.ops
  <2>1. CASE me.op = "grant"
    BY <1>7, <2>1 DEF AsOpened
  <2>2. CASE me.op = "delete"
    <3>1. row.state = me.new.state
      BY <1>1, <2>2 DEF Row
    <3> QED
      BY <1>7, <2>2, <3>1
  <2>3. CASE me.op = "restore"
    <3>1. row.state = me.new.state
      BY <1>1, <2>3 DEF Row
    <3> QED
      BY <1>1, <1>2, <1>7, <2>3, <3>1 DEF Deducting, BalanceOps
  <2>4. CASE me.op \in {"adjust", "set"}
    BY <1>1, <1>7, <2>4 DEF Flush, Row
  <2> QED
    BY <1>1, <2>1, <2>2, <2>3, <2>4 DEF BalanceOps
<1>10. ASSUME NEW q \in Kinds \ AllowNegative PROVE CountedOf(q)'
  <2> HIDE DEF row
  <2>1. CASE q # k
    BY <1>3, <1>5, <1>6, <2>1, SameCount
  <2>2. CASE q = k
    <3>1. bal'[k] = row
      BY <1>1, <1>3
    <3>2. CountedOf(k)
      BY <1>5, <2>2
    <3>3. ApprovedDays(k)' = ApprovedDays(k)
      BY <1>6, <3>2, SameDays DEF CountedOf
    <3>4. ApprovedDays(k) \in Nat
      BY <3>2, DaysNat DEF IInv, CountedOf
    <3>5. bal'[k].col["availed"] = bal'[k].brought + ApprovedDays(k)'
      BY <1>8, <3>1, <3>2, <3>3, <3>4 DEF CountedOf
    <3>6. CountedOf(k)'
      BY <1>3, <1>6, <1>9, <3>1, <3>2, <3>5 DEF CountedOf
    <3> QED
      BY <2>2, <3>6
  <2> QED
    BY <2>1, <2>2
<1> QED
  BY <1>4, <1>10 DEF Counted

\* A handler under way knows which days it will deduct or give back.
LEMMA HandlersCounted ==
  ASSUME IInv, Counted, NEW t \in Tasks, Watched,
         Begin(t) \/ ReadRequest(t) \/ CheckOverlap(t) \/ ReadBalance(t) \/ BeginBalanceOp(t)
  PROVE  task'[t] = Resting \/ Deducting(t)'
<1> DEFINE me == task[t]
<1>1. me \in Task /\ Deducting(t)
  BY DEF IInv, TypeOK, Counted
<1>2. CASE Begin(t)
  <2>1. PICK op \in ReviewOps \cap scenario.ops :
          /\ task'[t].op = op
          /\ \/ op = "create" /\ task'[t].pc = "overlap"
             \/ task'[t].pc = "request"
    BY <1>2, Begun
  <2>2. UNCHANGED scenario
    BY <1>2 DEF Begin
  <2> QED
    BY <2>1, <2>2 DEF Deducting, ReviewOps, BalanceOps, Busy
<1>3. CASE ReadRequest(t)
  <2> DEFINE row == req[me.r]
             new == [me EXCEPT !.pc = AfterRequest(me.op, row), !.seen = row,
                       !.span = IF me.op = "update" THEN @ ELSE row.span, !.kind = row.kind]
  <2>1. /\ me.pc = "request" /\ me.op \in ReviewOps \ {"create"} /\ UNCHANGED <<scenario, bal>>
        /\ me.row = NoRow /\ me.new = NoRow
    BY <1>3 DEF ReadRequest, At, IInv, Known, Busy
  <2>2. CASE ~ MayMove(me.op, row)
    BY <1>3, <2>2 DEF ReadRequest, Finish, IInv, TypeOK
  <2>3. CASE MayMove(me.op, row)
    <3>1. task'[t] = new
      BY <1>3, <2>3 DEF ReadRequest, IInv, TypeOK
    <3>2. /\ new.op = me.op /\ new.seen = row /\ new.kind = row.kind
          /\ new.pc = AfterRequest(me.op, row) /\ new.row = NoRow /\ new.new = NoRow
      BY <1>1, <2>1 DEF Task
    <3>3. me.op # "cancel" => row.status # "Approved"
      BY <2>1, <2>3 DEF MayMove, ReviewOps
    <3>4. AfterRequest(me.op, row) =
            IF me.op \in {"update", "submit"} THEN "overlap"
            ELSE IF me.op = "approve" \/ (me.op = "cancel" /\ row.status = "Approved")
                 THEN "balance" ELSE "commit"
      BY <2>1 DEF AfterRequest, ReviewOps
    <3>5. me.op \in scenario.ops
      BY <1>1, <2>1 DEF Deducting, Busy
    <3> HIDE DEF new, row
    <3>6. task'[t].op = me.op /\ scenario' = scenario
      BY <2>1, <3>1, <3>2
    <3>7. task'[t].seen = row /\ task'[t].kind = row.kind /\ task'[t].row = task'[t].new
      BY <3>1, <3>2
    <3>8. task'[t].pc =
            IF task'[t].op \in {"update", "submit"} THEN "overlap"
            ELSE IF task'[t].op = "approve" \/ (task'[t].op = "cancel" /\ row.status = "Approved")
                 THEN "balance" ELSE "commit"
      BY <3>1, <3>2, <3>4
    <3> HIDE DEF me
    <3>9. task'[t].op \in ReviewOps \ {"create"} /\ task'[t].op \in scenario'.ops
      BY <2>1, <3>5, <3>6
    <3>10. task'[t].op # "cancel" => row.status # "Approved"
      BY <3>3, <3>6
    <3> QED
      BY <3>7, <3>8, <3>9, <3>10 DEF Deducting, GivesBack, ReviewOps, BalanceOps
  <2> QED
    BY <2>2, <2>3
<1>4. CASE CheckOverlap(t)
  <2>1. me.pc = "overlap" /\ me.op \in ReviewOps /\ UNCHANGED <<scenario, bal>>
    BY <1>4 DEF CheckOverlap, At, IInv, Known
  <2>2. task'[t] = Resting \/ task'[t] = [me EXCEPT !.pc = "balance"]
    BY <1>4 DEF CheckOverlap, Finish, Goto, IInv, TypeOK
  <2>3. ASSUME task'[t] = [me EXCEPT !.pc = "balance"] PROVE Deducting(t)'
    <3>1. /\ task'[t].pc = "balance" /\ task'[t].op = me.op /\ task'[t].kind = me.kind
          /\ task'[t].seen = me.seen
      BY <1>1, <2>3 DEF Task
    <3> QED
      BY <1>1, <2>1, <3>1 DEF Deducting, Busy, GivesBack
  <2> QED
    BY <2>2, <2>3
<1>5. CASE ReadBalance(t)
  <2> DEFINE row == bal[me.kind]
  <2>1. me.pc = "balance" /\ me.op \in ReviewOps /\ UNCHANGED <<scenario, bal>>
    BY <1>5 DEF ReadBalance, At, IInv, Known
  <2>2. \/ task'[t] = Resting
        \/ /\ me.op = "cancel" \/ Covers(row, me.kind, Asked(me))
           /\ task'[t] = [me EXCEPT !.pc = "commit", !.row = row, !.new = Changed(me, row)]
    BY <1>5 DEF ReadBalance, Finish, IInv, TypeOK
  <2>3. ASSUME me.op = "cancel" \/ Covers(row, me.kind, Asked(me)),
               task'[t] = [me EXCEPT !.pc = "commit", !.row = row, !.new = Changed(me, row)]
        PROVE  Deducting(t)'
    <3>1. /\ task'[t].pc = "commit" /\ task'[t].op = me.op /\ task'[t].kind = me.kind
          /\ task'[t].seen = me.seen /\ task'[t].row = row /\ task'[t].new = Changed(me, row)
      BY <1>1, <2>3 DEF Task
    <3>2. Changed(task'[t], row) = Changed(me, row)
      BY <3>1 DEF Changed
    <3>3. ~ (me.op = "approve" \/ GivesBack(me)) => Changed(me, row) = row
      BY <1>1, <2>1 DEF Changed, Deducting
    <3>4. me.op = "approve" /\ me.kind \notin AllowNegative => row.state = "live"
      BY <2>3 DEF Covers
    <3>5. /\ me.op \in scenario.ops
          /\ me.op # "create" => me.kind = me.seen.kind
          /\ me.op \notin {"create", "cancel"} => me.seen.status # "Approved"
      BY <1>1, <2>1 DEF Deducting, Busy
    <3>6. Changed(task[t], task[t].row)' = Changed(me, row)
      <4>1. Changed(task[t], task[t].row)' = Changed(task'[t], task'[t].row)
        BY DEF Changed
      <4> QED
        BY <3>1, <3>2, <4>1
    <3>7. bal'[task'[t].kind] = row /\ (GivesBack(task[t])' <=> GivesBack(me))
      BY <2>1, <3>1 DEF GivesBack
    <3> HIDE DEF row
    <3> QED
      BY <2>1, <3>1, <3>3, <3>4, <3>5, <3>6, <3>7 DEF Deducting, ReviewOps, BalanceOps
  <2> QED
    BY <2>2, <2>3
<1>6. CASE BeginBalanceOp(t)
  <2>0. PICK op \in BalanceOps \cap scenario.ops, k \in scenario.kinds :
          \E made \in Outcomes(op, bal[k], k) :
            task' = [task EXCEPT ![t] = [Resting EXCEPT !.pc = "commit", !.op = op, !.kind = k,
                                           !.row = bal[k], !.new = made]]
    BY <1>6 DEF BeginBalanceOp
  <2>1. PICK made \in Outcomes(op, bal[k], k) :
          task' = [task EXCEPT ![t] = [Resting EXCEPT !.pc = "commit", !.op = op, !.kind = k,
                                         !.row = bal[k], !.new = made]]
    BY <2>0
  <2>2. UNCHANGED <<bal, scenario>>
    BY <1>6 DEF BeginBalanceOp
  <2>3. /\ task'[t].pc = "commit" /\ task'[t].op = op /\ task'[t].kind = k
        /\ task'[t].row = bal[k] /\ task'[t].new = made
    BY <2>1 DEF IInv, TypeOK, Resting
  <2>4. k \in Kinds /\ bal[k] \in Row
    BY LeaveAssumption DEF IInv, TypeOK, Scenario
  <2>5. /\ op = "grant" => bal[k].state = "absent" /\ AsOpened(made)
        /\ op \in {"delete", "restore"} => bal[k].state # "absent" /\ made.state # "absent"
        /\ op \in {"adjust", "set"} => bal[k].state = "live" /\ made.state = "live"
    BY <2>4, OutcomesSound
  <2>6. op = "restore" => made.state = "live"
    BY <2>4 DEF Outcomes, Row
  <2>7. op \in {"adjust", "set"} => made.col["availed"] = bal[k].col["availed"]
    <3> SUFFICES ASSUME op \in {"adjust", "set"}
                 PROVE  made.col["availed"] = bal[k].col["availed"]
      OBVIOUS
    <3>1. "availed" \notin AdjustColumns
      BY DEF Watched, AvailedUncorrected, NoCorrections
    <3>2. PICK c \in AdjustColumns : \E v : made \in Revised(bal[k], k, c, v)
      BY <2>5 DEF Outcomes
    <3>3. PICK v : made = WithColumn(bal[k], c, v)
      BY <3>2 DEF Revised
    <3>4. made.col = [bal[k].col EXCEPT ![c] = v]
      BY <2>4, <3>3 DEF WithColumn, Row
    <3> QED
      BY <2>4, <3>1, <3>4 DEF Row
  <2>8. op \in {"grant", "adjust", "set", "delete", "restore"} /\ op \in scenario'.ops
    BY <2>2 DEF BalanceOps
  <2>9. bal'[task'[t].kind] = bal[k]
    BY <2>2, <2>3
  <2> QED
    BY <2>3, <2>5, <2>6, <2>7, <2>8, <2>9 DEF Deducting, ReviewOps
<1> QED
  BY <1>2, <1>3, <1>4, <1>5, <1>6

\* No step deducts an approval twice, or misses one.
LEMMA NextCounted ==
  ASSUME IInv, Booked, Counted, [Next]_vars
  PROVE  Counted'
<1>1. CASE DayPasses \/ UNCHANGED vars
  BY <1>1, CountedKept DEF DayPasses, vars
<1>2. ASSUME NEW t \in Tasks, Step(t) PROVE Counted'
  <2>1. CASE \/ Begin(t) \/ ReadRequest(t) \/ CheckOverlap(t)
             \/ ReadBalance(t) \/ BeginBalanceOp(t)
    <3>1. UNCHANGED <<req, bal, scenario>> /\ \A u \in Tasks : u # t => task'[u] = task[u]
      BY <2>1 DEF Begin, ReadRequest, CheckOverlap, ReadBalance, BeginBalanceOp, Finish, Goto,
         IInv, TypeOK
    <3>2. Watched => task'[t] = Resting \/ Deducting(t)'
      BY <2>1, HandlersCounted
    <3> QED
      BY <3>1, <3>2, CountedKept
  <2>2. CASE Abandon(t)
    <3>1. UNCHANGED <<req, bal, scenario>> /\
          \A u \in Tasks : task'[u] = task[u] \/ task'[u] = Resting
      BY <2>2 DEF Abandon, Finish, IInv, TypeOK
    <3> QED
      BY <3>1, CountedKept
  <2> QED
    BY <1>2, <2>1, <2>2, CommitReviewCounted, CommitBalanceCounted DEF Step
<1> QED
  BY <1>1, <1>2 DEF Next

\* Nothing is approved and nothing deducted at first.
LEMMA InitCounted == Init => Counted
<1> SUFFICES ASSUME Init PROVE Counted
  OBVIOUS
<1>1. ASSUME NEW k \in Kinds PROVE CountedOf(k)
  <2>1. ApprovedOf(k) = {}
    BY DEF Init, ApprovedOf, NoLeave, Missing
  <2>2. ApprovedDays(k) = 0
    <3> DEFINE f == [r \in Requests |-> req[r].days]
    <3>1. ApprovedDays(k) = SumOver(f, {})
      BY <2>1 DEF ApprovedDays, Sum, SumOver
    <3> QED
      BY <3>1, SumEmpty
  <2>3. /\ bal[k].col["availed"] = bal[k].brought /\ bal[k].brought \in Nat
        /\ bal[k].state # "deleted"
    <3>1. PICK col \in [Opened -> Openings] :
            bal = [i \in Kinds |-> IF i \in Opened THEN OpenRow(col[i]) ELSE NoRow]
      BY DEF Init
    <3>2. CASE k \in Opened
      <4>1. col[k] \in Openings /\ bal[k] = OpenRow(col[k])
        BY <3>1, <3>2
      <4> QED
        BY <4>1, OpeningCovers DEF AsOpened, Row
    <3>3. CASE k \notin Opened
      <4>1. bal[k] = NoRow /\ "availed" \in Fields
        BY <3>1, <3>3 DEF Fields, Spent
      <4> QED
        BY <4>1 DEF NoRow
    <3> QED
      BY <3>2, <3>3
  <2> QED
    BY <2>1, <2>2, <2>3, FS_EmptySet DEF CountedOf
<1>2. \A t \in Tasks : Deducting(t)
  BY DEF Init, Deducting, Resting, Busy
<1> QED
  BY <1>1, <1>2 DEF Counted

----------------------------------------------------------------------------
(* Theorems *)

\* The rows of requests and balances and the handlers' copies of them keep
\* their types under every operation of LeaveRequestService and
\* LeaveBalanceService.
THEOREM TypeCorrect == Spec => []TypeOK
<1>1. IInv => TypeOK
  BY DEF IInv
<1> QED
  BY <1>1, InitIInv, NextIInv, PTL DEF Spec

\* The remaining days stored are the ones the columns give, and nobody is
\* granted leave the balance does not cover, for any number of handlers,
\* requests and kinds (calculate_remaining_days, approve_leave_request,
\* adjust_leave_balance).
THEOREM RemainingCorrect == Spec => []RemainingCovers
<1>1. IInv => RemainingCovers
  BY DEF IInv, RowsSound, Sound, Derived, RemainingCovers
<1> QED
  BY <1>1, InitIInv, NextIInv, PTL DEF Spec

\* No two active requests of the employee share a date when handlers do not
\* overlap, however they were drafted, edited and submitted
\* (get_overlapping_requests).
THEOREM DatesApart == Spec => []NoDoubleBooking
<1>1. Init => Booked
  BY DEF Init, Booked, NoDoubleBooking, Active, NoLeave, Reviewing, Resting, Missing
<1>2. Booked => NoDoubleBooking
  BY DEF Booked
<1>3. IInv /\ IInv' /\ Booked /\ [Next]_vars => Booked'
  BY NextBooked
<1> QED
  BY <1>1, <1>2, <1>3, InitIInv, NextIInv, PTL DEF Spec

\* Every approval is deducted once from its balance and every cancelled one
\* given back, on top of the availed days the balance was created with, for any number of requests, kinds and days and any sequence of
\* reviews, grants, deletions, restorations and corrections of the other
\* columns by handlers that do not overlap (approve_leave_request,
\* cancel_leave_request, adjust_leave_balance).
THEOREM ApprovalsDeducted == Spec => []DeductedOnce
<1>1. Init => Booked
  BY DEF Init, Booked, NoDoubleBooking, Active, NoLeave, Reviewing, Resting, Missing
<1>2. Counted => DeductedOnce
  BY DEF Counted, Watched, CountedOf, DeductedOnce, AvailedMatchesApproved
<1>3. IInv /\ IInv' /\ Booked /\ [Next]_vars => Booked'
  BY NextBooked
<1>4. IInv /\ Booked /\ Counted /\ [Next]_vars => Counted'
  BY NextCounted
<1> QED
  BY <1>1, <1>2, <1>3, <1>4, InitIInv, NextIInv, InitCounted, PTL DEF Spec
=============================================================================
