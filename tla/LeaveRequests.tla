--------------------------- MODULE LeaveRequests ---------------------------
(***************************************************************************)
(* Leave requests and leave balances of one employee: the handlers of      *)
(* LeaveRequestService and of LeaveBalanceService, which change the same   *)
(* balance row without locking it.                                         *)
(*                                                                         *)
(* A handler is one HTTP request with a database session of its own.  It   *)
(* reads rows one SELECT at a time, each under the READ COMMITTED snapshot *)
(* of its own moment, decides on what it read, and writes in one commit:   *)
(* the ORM then updates, by primary key, just the columns whose value      *)
(* differs from the one it loaded.  Durations are counted in half days.    *)
(***************************************************************************)
EXTENDS Integers, FiniteSets, FiniteSetsExt

CONSTANTS
  Tasks,          \* handlers in flight
  Requests,       \* ids of leave requests
  Kinds,          \* (leave type, leave year) pairs: one balance row each
  Spans,          \* date ranges with their half-day flag
  Days,           \* working half days of a span
  Clash,          \* pairs of spans that share a date
  Columns,        \* credit columns of a balance row
  AllowNegative,  \* kinds whose leave type allows a negative balance
  Granted,        \* days a credit column of a new row may begin with
  Taken,          \* days availed, or encashed, that a new row may begin with
  Opened,         \* kinds that have a balance row at the start
  Scenarios,      \* what is asked, and how many handlers overlap
  AdjustColumns,  \* columns the human-resources department changes
  Deltas,         \* by how much it adjusts a column
  Levels,         \* what it sets a column to
  MaxDays         \* bound on what a column can be changed to

Spent    == {"availed", "encashed"}
Fields   == Columns \cup Spent
Statuses == {"Draft", "Pending", "Approved", "Rejected", "Cancelled"}
Missing  == "none"
Pcs      == {"idle", "request", "overlap", "balance", "commit"}
ReviewOps  == {"create", "update", "submit", "approve", "reject", "cancel"}
BalanceOps == {"grant", "adjust", "set", "delete", "restore"}
Ops      == ReviewOps \cup BalanceOps
Scenario == [width: Nat \ {0}, ops: SUBSET Ops, kinds: SUBSET Kinds, spans: SUBSET Spans]

ASSUME LeaveAssumption ==
  /\ IsFiniteSet(Tasks) /\ IsFiniteSet(Columns)
  /\ \A s \in Spans : Days[s] \in Nat \ {0}
  /\ \A s \in Spans : <<s, s>> \in Clash
  /\ \A s, u \in Spans : <<s, u>> \in Clash => <<u, s>> \in Clash
  /\ Columns \cap Spent = {}
  /\ Granted \subseteq Nat /\ Taken \subseteq Nat
  /\ AllowNegative \subseteq Kinds /\ Opened \subseteq Kinds
  /\ Scenarios \subseteq Scenario
  /\ AdjustColumns \subseteq Fields
  /\ Deltas \subseteq Int /\ Levels \subseteq Nat /\ MaxDays \in Nat

VARIABLES
  req,      \* leave_requests: a row per id
  bal,      \* leave_balances: a row per kind
  started,  \* spans whose first day has come
  task,     \* what each handler is doing
  scenario  \* the demand this behaviour is about

vars == <<req, bal, started, task, scenario>>

----------------------------------------------------------------------------
(* Rows *)

\* brought is not a column: the availed days the row was created with.
Row == [state: {"absent", "live", "deleted"}, col: [Fields -> Nat], remaining: Int,
        brought: Nat]

Leave == [status: Statuses \cup {Missing}, span: Spans \cup {Missing},
          kind: Kinds \cup {Missing}, days: Nat]

Sum(cs, col) == MapThenSumSet(LAMBDA c : col[c], cs)

\* LeaveBalance.calculate_remaining_days
Remaining(col) == Sum(Columns, col) - col["availed"] - col["encashed"]

\* create_leave_balance stores the availed and the encashed days it is given.
Openings ==
  {col \in [Fields -> Granted \cup Taken] :
     /\ \A c \in Columns : col[c] \in Granted
     /\ \A c \in Spent : col[c] \in Taken}
OpenRow(col) == [state |-> "live", col |-> col, remaining |-> Remaining(col),
                 brought |-> col["availed"]]
NoRow == [state |-> "absent", col |-> [c \in Fields |-> 0], remaining |-> 0, brought |-> 0]

\* The unit of work sets the columns whose value is not the loaded one.
Flush(loaded, changed, stored) ==
  [stored EXCEPT
    !.col = [c \in Fields |-> IF changed.col[c] = loaded.col[c] THEN @[c] ELSE changed.col[c]],
    !.remaining = IF changed.remaining = loaded.remaining THEN @ ELSE changed.remaining]

\* A mistaken WithColumn: the derived column is left as it was.
ColumnAlone(row, c, v) == [row EXCEPT !.col[c] = v]

\* One column takes a value and the remaining days are derived again.
WithColumn(row, c, v) ==
  LET col == [row.col EXCEPT ![c] = v]
  IN [row EXCEPT !.col = col, !.remaining = Remaining(col)]

Overdrawn(row, k) == row.remaining < 0 /\ k \notin AllowNegative

----------------------------------------------------------------------------
(* Handlers *)

NoLeave == [status |-> Missing, span |-> Missing, kind |-> Missing, days |-> 0]

Resting ==
  [pc |-> "idle", op |-> Missing, r |-> Missing, span |-> Missing,
   kind |-> Missing, seen |-> NoLeave, row |-> NoRow, new |-> NoRow]

Task == [pc: Pcs, op: Ops \cup {Missing}, r: Requests \cup {Missing},
         span: Spans \cup {Missing}, kind: Kinds \cup {Missing},
         seen: Leave, row: Row, new: Row]

TypeOK ==
  /\ req \in [Requests -> Leave]
  /\ bal \in [Kinds -> Row]
  /\ started \subseteq Spans
  /\ task \in [Tasks -> Task]
  /\ scenario \in Scenarios

Init ==
  /\ req = [r \in Requests |-> NoLeave]
  /\ \E col \in [Opened -> Openings] :
       /\ \A k \in Opened : ~ Overdrawn(OpenRow(col[k]), k)
       /\ bal = [k \in Kinds |-> IF k \in Opened THEN OpenRow(col[k]) ELSE NoRow]
  /\ started = {}
  /\ task = [t \in Tasks |-> Resting]
  /\ scenario \in Scenarios

\* A handler may start when fewer than the scenario's width are under way.
MayBegin(t) ==
  /\ task[t].pc = "idle"
  /\ Cardinality({u \in Tasks : task[u].pc # "idle"}) < scenario.width

At(t, pc) == task[t].pc = pc
Goto(t, pc) == task' = [task EXCEPT ![t].pc = pc]
Finish(t) == task' = [task EXCEPT ![t] = Resting]

\* A handler starts: creating a request reads no request first.
Begin(t) ==
  /\ MayBegin(t)
  /\ \E op \in ReviewOps \cap scenario.ops, r \in Requests,
        s \in scenario.spans, k \in scenario.kinds :
       /\ IF op = "create"
          THEN /\ req[r].status = Missing
               /\ task' = [task EXCEPT ![t] = [Resting EXCEPT
                    !.pc = "overlap", !.op = op, !.r = r, !.span = s, !.kind = k]]
          ELSE /\ req[r].status # Missing
               /\ op # "update" => s = req[r].span
               /\ k = req[r].kind
               /\ task' = [task EXCEPT ![t] = [Resting EXCEPT
                    !.pc = "request", !.op = op, !.r = r, !.span = s]]
  /\ UNCHANGED <<req, bal, started, scenario>>

\* The status a transition asks of the request it has just read.
MayMove(op, row) ==
  CASE op \in {"update", "submit"}  -> row.status = "Draft"
    [] op \in {"approve", "reject"} -> row.status = "Pending"
    [] op = "cancel" ->
         /\ row.status \notin {"Rejected", "Cancelled"}
         /\ ~ (row.status = "Approved" /\ row.span \in started)

AfterRequest(op, row) ==
  CASE op \in {"update", "submit"} -> "overlap"
    [] op = "approve"              -> "balance"
    [] op = "reject"               -> "commit"
    [] op = "cancel" -> IF row.status = "Approved" THEN "balance" ELSE "commit"

ReadRequest(t) ==
  LET me == task[t]  row == req[me.r] IN
  /\ At(t, "request")
  /\ IF MayMove(me.op, row)
     THEN task' = [task EXCEPT ![t].pc = AfterRequest(me.op, row), ![t].seen = row,
                     ![t].span = IF me.op = "update" THEN @ ELSE row.span,
                     ![t].kind = row.kind]
     ELSE Finish(t)
  /\ UNCHANGED <<req, bal, started, scenario>>

\* get_overlapping_requests: active requests of the employee, of any kind.
Active(r) == req[r].status \in {"Pending", "Approved"}
\* A mistaken Overlapping: a request under review does not hold its dates.
OverlapsApproved(r, s) ==
  {o \in Requests \ {r} : req[o].status = "Approved" /\ <<req[o].span, s>> \in Clash}

Overlapping(r, s) ==
  {o \in Requests \ {r} : Active(o) /\ <<req[o].span, s>> \in Clash}

CheckOverlap(t) ==
  /\ At(t, "overlap")
  /\ IF Overlapping(task[t].r, task[t].span) = {} THEN Goto(t, "balance") ELSE Finish(t)
  /\ UNCHANGED <<req, bal, started, scenario>>

\* Half days asked of the balance: a stored total, or a newly computed one.
Asked(me) ==
  IF me.op \in {"create", "update"} THEN Days[me.span] ELSE me.seen.days

\* The balance rule of _validate_leave_policies and of approve_leave_request.
Covers(row, k, n) ==
  IF row.state = "live"
  THEN row.remaining >= n \/ k \in AllowNegative
  ELSE k \in AllowNegative

Give(n) == IF n > 0 THEN n ELSE 0

\* A mistaken Changed: a cancelled leave does not give its days back.
ChangedOnce(me, row) ==
  IF row.state = "live" /\ me.op = "approve"
  THEN WithColumn(row, "availed", row.col["availed"] + me.seen.days)
  ELSE row

\* The row as the handler leaves it in its session.
Changed(me, row) ==
  LET live == row.state = "live"  availed == row.col["availed"] IN
  CASE live /\ me.op = "approve" -> WithColumn(row, "availed", availed + me.seen.days)
    [] live /\ me.op = "cancel"  -> WithColumn(row, "availed", Give(availed - me.seen.days))
    [] OTHER                     -> row

ReadBalance(t) ==
  LET me == task[t]  row == bal[me.kind] IN
  /\ At(t, "balance")
  /\ IF me.op = "cancel" \/ Covers(row, me.kind, Asked(me))
     THEN task' = [task EXCEPT ![t].pc = "commit", ![t].row = row, ![t].new = Changed(me, row)]
     ELSE Finish(t)
  /\ UNCHANGED <<req, bal, started, scenario>>

\* What the commit makes of the request's row.
Target(op) ==
  CASE op = "submit" -> "Pending"   [] op = "approve" -> "Approved"
    [] op = "reject" -> "Rejected"  [] op = "cancel"  -> "Cancelled"

Written(me, stored) ==
  CASE me.op = "create" ->
         [status |-> "Draft", span |-> me.span, kind |-> me.kind, days |-> Days[me.span]]
    [] me.op = "update" ->
         [stored EXCEPT !.span = IF me.span = me.seen.span THEN @ ELSE me.span,
                        !.days = IF Days[me.span] = me.seen.days THEN @ ELSE Days[me.span]]
    [] OTHER -> [stored EXCEPT !.status = Target(me.op)]

CommitReview(t) ==
  LET me == task[t] IN
  /\ At(t, "commit") /\ me.op \in ReviewOps
  /\ me.op = "create" => req[me.r].status = Missing
  /\ req' = [req EXCEPT ![me.r] = Written(me, @)]
  /\ bal' = [bal EXCEPT ![me.kind] = Flush(me.row, me.new, @)]
  /\ Finish(t)
  /\ UNCHANGED <<started, scenario>>

----------------------------------------------------------------------------
(* Human-resources operations on a balance *)

\* Column c becomes v unless that is negative or overdraws the row.
Revised(row, k, c, v) ==
  {new \in {WithColumn(row, c, v)} : v \in 0..MaxDays /\ ~ Overdrawn(new, k)}

\* What an operation may leave of the row it has read; nothing when refused.
Outcomes(op, row, k) ==
  CASE op = "grant"   -> IF row.state # "absent" THEN {}
                         ELSE {new \in {OpenRow(col) : col \in Openings} : ~ Overdrawn(new, k)}
    [] op = "adjust"  -> IF row.state # "live" THEN {}
                         ELSE UNION {Revised(row, k, c, row.col[c] + d) :
                                       c \in AdjustColumns, d \in Deltas}
    [] op = "set"     -> IF row.state # "live" THEN {}
                         ELSE UNION {Revised(row, k, c, v) :
                                       c \in AdjustColumns, v \in Levels}
    [] op = "delete"  -> IF row.state = "live" THEN {[row EXCEPT !.state = "deleted"]} ELSE {}
    [] op = "restore" -> IF row.state = "deleted" THEN {[row EXCEPT !.state = "live"]} ELSE {}

BeginBalanceOp(t) ==
  /\ MayBegin(t)
  /\ \E op \in BalanceOps \cap scenario.ops, k \in scenario.kinds :
       \E new \in Outcomes(op, bal[k], k) :
         task' = [task EXCEPT ![t] =
           [Resting EXCEPT !.pc = "commit", !.op = op, !.kind = k,
                           !.row = bal[k], !.new = new]]
  /\ UNCHANGED <<req, bal, started, scenario>>

\* Deletion and restoration write the flag, a grant inserts the row unless
\* the unique key refuses it, the others write columns.
CommitBalanceOp(t) ==
  LET me == task[t] IN
  /\ At(t, "commit") /\ me.op \in BalanceOps
  /\ bal' = [bal EXCEPT ![me.kind] =
       CASE me.op = "grant" -> IF @.state = "absent" THEN me.new ELSE @
         [] me.op \in {"delete", "restore"} -> [@ EXCEPT !.state = me.new.state]
         [] OTHER -> Flush(me.row, me.new, @)]
  /\ Finish(t)
  /\ UNCHANGED <<req, started, scenario>>

----------------------------------------------------------------------------
(* The handler's connection fails before its commit: nothing is written.    *)
Abandon(t) ==
  /\ task[t].pc # "idle"
  /\ Finish(t)
  /\ UNCHANGED <<req, bal, started, scenario>>

\* The first day of a leave comes.
DayPasses ==
  /\ \E s \in scenario.spans \ started : started' = started \cup {s}
  /\ UNCHANGED <<req, bal, task, scenario>>

Step(t) ==
  \/ Begin(t) \/ ReadRequest(t) \/ CheckOverlap(t) \/ ReadBalance(t)
  \/ CommitReview(t) \/ BeginBalanceOp(t) \/ CommitBalanceOp(t) \/ Abandon(t)

Next == DayPasses \/ \E t \in Tasks : Step(t)

Spec == Init /\ [][Next]_vars

----------------------------------------------------------------------------
(* Properties *)

ApprovedOf(k) == {r \in Requests : req[r].status = "Approved" /\ req[r].kind = k}
ApprovedDays(k) == Sum(ApprovedOf(k), [r \in Requests |-> req[r].days])

\* A balance's availed days are those it was created with and the days of the
\* approved requests of its kind (approve_leave_request).  A leave type that
\* allows a negative balance approves a request that no balance counts.
AvailedMatchesApproved ==
  \A k \in Kinds \ AllowNegative :
    bal[k].state = "live" => bal[k].col["availed"] = bal[k].brought + ApprovedDays(k)

OneAtATime == scenario.width = 1

\* A cancellation while the balance is deleted gives no days back.
NoCancelUnseen == ~ ({"delete", "cancel"} \subseteq scenario.ops)

\* Nobody corrects a column of a balance.
NoCorrections == scenario.ops \cap {"adjust", "set"} = {}

\* The availed days are left to the reviews.
AvailedUncorrected == NoCorrections \/ "availed" \notin AdjustColumns

\* Handled one at a time, every approval is deducted once and every cancelled
\* approval given back, on top of the availed days the balance was created
\* with, through corrections of the other columns, lost connections and
\* retries, unless a balance may be deleted under a cancellation
\* (create_leave_balance, approve_leave_request, cancel_leave_request,
\* adjust_leave_balance).
DeductedOnce ==
  OneAtATime /\ NoCancelUnseen /\ AvailedUncorrected => AvailedMatchesApproved

\* The stored remaining days are always the ones the columns give, and leave
\* that the balance does not cover is never granted: no sequence of reviews and
\* corrections makes the remaining days of a kind negative unless its leave
\* type allows it.  So it is one handler at a time, and with any two at once
\* while nobody corrects a column (calculate_remaining_days,
\* approve_leave_request, adjust_leave_balance, _validate_negative_balance).
RemainingCovers ==
  OneAtATime \/ NoCorrections =>
    \A k \in Kinds :
      /\ bal[k].state # "absent" => bal[k].remaining = Remaining(bal[k].col)
      /\ k \notin AllowNegative => bal[k].remaining >= 0

\* Two active requests of the employee never share a date, whatever was
\* drafted, edited and submitted in between, one handler at a time
\* (get_overlapping_requests).
NoDoubleBooking ==
  OneAtATime => \A r, o \in Requests :
    r # o /\ Active(r) /\ Active(o) => <<req[r].span, req[o].span>> \notin Clash

=============================================================================
