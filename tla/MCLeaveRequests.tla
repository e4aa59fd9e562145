-------------------------- MODULE MCLeaveRequests --------------------------
(* Small instances of LeaveRequests for TLC. *)
EXTENDS LeaveRequests, TLC

CONSTANTS t1, t2, r1, r2, week, day, half, annual, sick

\* A whole day clashes with the week around it; the half day is elsewhere.
HalfDays == (week :> 3) @@ (day :> 2) @@ (half :> 1)
SharedDates ==
  {<<week, week>>, <<day, day>>, <<half, half>>, <<week, day>>, <<day, week>>}

LessAndMore == {-1, 1}
Review == {"create", "update", "submit", "approve", "reject", "cancel"}
\* Reviews and corrections one at a time; balances deleted and restored under
\* reviews; the workflow with two handlers at once, and with two handlers at
\* once while balances are deleted and restored.
Demands == {
  [width |-> 1, ops |-> Review \cup {"grant", "adjust", "set"},
   kinds |-> {annual, sick}, spans |-> {week, day}],
  [width |-> 1, ops |-> (Review \ {"cancel"}) \cup {"grant", "delete", "restore"},
   kinds |-> {annual}, spans |-> {day}],
  [width |-> 2, ops |-> Review, kinds |-> {annual}, spans |-> {day, half}],
  [width |-> 2, ops |-> {"create", "submit", "approve", "cancel", "grant", "delete", "restore"},
   kinds |-> {annual}, spans |-> {day}] }

Symmetry == Permutations(Requests) \cup Permutations(Tasks)
=============================================================================
