---------------------------- MODULE MCWorkforce -----------------------------
(* One employee over two days; the night shift ends on the day after.  Beside *)
(* him, the rows that everything refers to, and a payroll period of two other *)
(* employees: no side reads what another writes, so a run asks for one of     *)
(* them at a time.                                                            *)
EXTENDS WorkforceAndPayroll, TLC

CONSTANTS h1, h2, day, night, a1, a2, p1, p2, p3,
          d1, d2, d3, s1, s2, e1, e2, e3, c1, c2, c3, l1, l2, y1, y2

Handlers == {h1, h2}
TwoShifts == {day, night}
TwoAssignments == {a1, a2}
ThreePays == {p1, p2, p3}
CalendarOff == 2 :> "Weekend"
SixOfADay == {1, 2, 4, 8, 10}
ShiftRules ==
  (day :> [start |-> 1, end |-> 4, rest |-> 1, grace |-> 0, least |-> 2])
  @@ (night :> [start |-> 4, end |-> 2, rest |-> 0, grace |-> 1, least |-> 3])
  @@ ("none" :> [start |-> 2, end |-> 5, rest |-> 0, grace |-> 0, least |-> 1])
Rules == ShiftRules

Demand(ops) == [width |-> 1, ops |-> ops, clock |-> {2}, crashes |-> 0]

Demands == {
  Demand({}),
  Demand({"assign", "move", "end", "delete"}),
  Demand({"assign", "move", "loosen", "end", "default"}),
  [Demand({"assign", "delete", "in"}) EXCEPT !.crashes = 1],
  [Demand({"assign", "in", "out"}) EXCEPT !.clock = {8}],
  [Demand({"in", "correct"}) EXCEPT !.clock = {8, 10}],
  [Demand({"in", "out"}) EXCEPT !.clock = {1, 4, 10}],
  Demand({"in", "out", "correct", "lock"}),
  [Demand({"in", "lock"}) EXCEPT !.width = 2],
  [Demand({"offer", "revise", "activate", "cancel"}) EXCEPT !.crashes = 1],
  Demand({"offer", "revise", "activate", "redate", "remove"}),
  Demand({"offer", "activate", "remove", "restore"}),
  [Demand({"offer", "activate"}) EXCEPT !.width = 2] }

Wish(units, ops, n) == [units |-> units, ops |-> ops, slips |-> n]

AllWishes == {
  Wish({d1, d2, d3}, {"create", "move", "delete"}, 0),
  Wish({e1, e2, e3}, {"create", "move", "delete"}, 0),
  Wish({c1, c2, c3}, {"create", "move", "delete"}, 0),
  Wish({l1, l2}, {"create", "move", "delete"}, 0),
  Wish({s1, s2, e1}, {"create", "move", "delete", "limit"}, 0),
  Wish({s1, s2, e1, e2}, {"create", "move"}, 1),
  Wish({s1, e1, e2}, {"create", "limit", "delete", "restore"}, 2) }

WishesOrNone == AllWishes \cup {Wish({}, {}, 0)}

ASSUME MasterAssumption == Master!MasterDataAssumption

Order(ops) == [width |-> 1, ops |-> ops, types |-> {y1}, changes |-> 0, crashes |-> 0]

\* Payroll generated, approved and locked while salaries change; runs and
\* payslips; closing with adjustments; generation of closed periods; pairs of requests.
AllOrders == {
  [Order({"generate", "approve", "lock"}) EXCEPT !.changes = 2, !.crashes = 1],
  [Order({"generate", "run", "payslips", "publish"})
     EXCEPT !.types = {y1, y2}, !.crashes = 1],
  [Order({"run", "close", "adjust", "lock"}) EXCEPT !.crashes = 2],
  [Order({"generate", "approve", "lock", "run", "close"}) EXCEPT !.changes = 1],
  [Order({"generate", "approve", "lock"}) EXCEPT !.width = 2, !.changes = 1] }

OrdersOrNone == AllOrders \cup {Order({})}

ASSUME PeriodAssumption == Payroll!PayrollAssumption

Idle == scenario.ops = {} /\ default = Missing
NoPayroll == ordered.ops = {} /\ due = [e \in Staff |-> 0]

OneInit == /\ AllInit
           /\ \/ wanted.ops = {} /\ NoPayroll
              \/ Idle /\ NoPayroll
              \/ Idle /\ wanted.ops = {}
OneSpec == OneInit /\ [][AllNext]_<<vars, records, payroll>>

Symmetry == Permutations(Handlers) \cup Permutations(TwoAssignments) \cup Permutations(ThreePays)
=============================================================================
