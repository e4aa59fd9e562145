----------------------------- MODULE MasterData -----------------------------
(***************************************************************************)
(* The rows that everything else refers to, as far as they hang together:  *)
(* departments, positions, employees with their managers, product          *)
(* categories and storage locations each form a hierarchy, and a position  *)
(* counts the employees who hold it.                                       *)
(*                                                                         *)
(* One handler at a time.  Departments, positions and employees are marked *)
(* deleted and may be restored; categories and locations are removed.  A   *)
(* change of the position of an employee takes up to three commits, and    *)
(* the handler may be lost, or refuse the request, between them.           *)
(***************************************************************************)
EXTENDS Integers, FiniteSets, FiniteSetsExt

CONSTANTS
  Departments, Positions, Employees, Categories, Locations,  \* ids of rows
  Limits,     \* the headcounts a position may be limited to
  Scenarios   \* what is asked, and of which rows

Missing == "none"
Kinds == {Departments, Positions, Employees, Categories, Locations}
Units == UNION Kinds
Ops == {"create", "move", "limit", "delete", "restore"}
Scenario == [units: SUBSET Units, ops: SUBSET Ops,
             slips: Nat]   \* bound on handlers that stop between two commits

\* What theorems may assume, and the module that gives the constants checks.
MasterDataAssumption ==
  /\ LET tables == <<Departments, Positions, Employees, Categories, Locations>> IN
     \A i, j \in DOMAIN tables : i # j => tables[i] \cap tables[j] = {}
  /\ IsFiniteSet(Units) /\ Missing \notin Units
  /\ Limits \subseteq Nat \ {0} /\ Scenarios \subseteq Scenario

VARIABLES
  unit,      \* the state of each row, and the row it hangs under
  seat,      \* the position of each employee
  post,      \* the headcount of each position
  job,       \* the handler that works on an employee
  slips,     \* handlers that stopped between two commits
  scenario

vars == <<unit, seat, post, job, slips, scenario>>

----------------------------------------------------------------------------
(* Rows *)

NoUnit == [state |-> "absent", parent |-> Missing]
NoPost == [head |-> 0, limit |-> 0, active |-> FALSE]
Idle == [what |-> "idle", who |-> Missing, seat |-> Missing, parent |-> Missing,
         joins |-> Missing, leaves |-> Missing, touched |-> FALSE]

Live(u) == unit[u].state = "live"
LiveIn(K) == {u \in K : Live(u)}
KindOf(u) == CHOOSE K \in Kinds : u \in K
Under(u) == {v \in KindOf(u) : Live(v) /\ unit[v].parent = u}
HeldBy(p) == {e \in Employees : Live(e) /\ seat[e] = p}

TypeOK ==
  /\ unit \in [Units -> [state: {"absent", "live", "deleted"}, parent: Units \cup {Missing}]]
  /\ seat \in [Employees -> Positions \cup {Missing}]
  /\ post \in [Positions -> [head: Nat, limit: Limits \cup {0}, active: BOOLEAN]]
  /\ job \in [what: {"idle", "hire", "change", "dismiss", "rehire"},
              who: Employees \cup {Missing}, seat: Positions \cup {Missing},
              parent: Employees \cup {Missing}, joins: Positions \cup {Missing},
              leaves: Positions \cup {Missing}, touched: BOOLEAN]
  /\ slips \in 0 .. scenario.slips /\ scenario \in Scenarios

Init ==
  /\ unit = [u \in Units |-> NoUnit]
  /\ seat = [e \in Employees |-> Missing]
  /\ post = [p \in Positions |-> NoPost]
  /\ job = Idle
  /\ slips = 0 /\ scenario \in Scenarios

Asked(op, u) == job = Idle /\ op \in scenario.ops /\ u \in scenario.units

----------------------------------------------------------------------------
(* Hierarchies *)

\* The rows that a walk from one row to the next above it visits; it ends at a
\* row that has been deleted, or at one above which there is nothing.
Trail(start) ==
  LET at[n \in 0 .. Cardinality(Units)] ==
        IF n = 0 THEN start
        ELSE LET v == at[n-1] IN
             IF v = Missing THEN Missing ELSE IF Live(v) THEN unit[v].parent ELSE Missing
  IN at

\* A mistaken Circular: only the row above the new parent is looked at.
CircularNearby(u, parent) == parent = u \/ (parent # Missing /\ unit[parent].parent = u)

\* Whether u would be above itself under the new parent, or the walk goes round.
Circular(u, parent) ==
  \/ \E n \in DOMAIN Trail(parent) : Trail(parent)[n] = u
  \/ Trail(parent)[Cardinality(Units)] # Missing

\* A position that is not active is given no new rows.
MayBeParent(u, parent) ==
  parent = Missing \/ (parent \in LiveIn(KindOf(u)) /\ (parent \in Positions => post[parent].active))

Counted == Departments \cup Positions      \* marked deleted
Listed == Categories \cup Locations        \* removed

Add(u) ==
  \E parent \in (KindOf(u) \ {u}) \cup {Missing} :
    /\ MayBeParent(u, parent)
    /\ unit' = [unit EXCEPT ![u] = [state |-> "live", parent |-> parent]]

\* create_department, create_position
Create(u) ==
  /\ Asked("create", u) /\ u \in Counted /\ unit[u] = NoUnit /\ Add(u)
  /\ \E limit \in Limits :
       post' = IF u \in Positions
               THEN [post EXCEPT ![u] = [head |-> 0, limit |-> limit, active |-> TRUE]] ELSE post
  /\ UNCHANGED <<seat, job, slips, scenario>>

\* create_category, create_location
List(u) ==
  /\ Asked("create", u) /\ u \in Listed /\ unit[u] = NoUnit /\ Add(u)
  /\ UNCHANGED <<seat, post, job, slips, scenario>>

\* update_department, update_position: a parent that stays is not checked.
Move(u) ==
  /\ Asked("move", u) /\ u \in Counted /\ Live(u)
  /\ \E parent \in (KindOf(u) \cup {Missing}) \ {unit[u].parent} :
       /\ parent # Missing => MayBeParent(u, parent) /\ ~ Circular(u, parent)
       /\ unit' = [unit EXCEPT ![u].parent = parent]
  /\ UNCHANGED <<seat, post, job, slips, scenario>>

\* update_category, update_location
Rehang(u) ==
  /\ Asked("move", u) /\ u \in Listed /\ Live(u)
  /\ \E parent \in LiveIn(KindOf(u)) \cup {Missing} :
       /\ parent # Missing => ~ Circular(u, parent)
       /\ unit' = [unit EXCEPT ![u].parent = parent]
  /\ UNCHANGED <<seat, post, job, slips, scenario>>

\* update_position: the limit is not set below the headcount.
Limit(p) ==
  /\ Asked("limit", p) /\ Live(p)
  /\ \E limit \in Limits, active \in BOOLEAN :
       /\ limit >= post[p].head
       /\ post' = [post EXCEPT ![p].limit = limit, ![p].active = active]
  /\ UNCHANGED <<unit, seat, job, slips, scenario>>

\* delete_department and delete_position: not while rows hang under it, or
\* somebody is counted in.
Retire(u) ==
  /\ Asked("delete", u) /\ u \in Counted /\ Live(u)
  /\ Under(u) = {} /\ (u \in Positions => post[u].head = 0)
  /\ unit' = [unit EXCEPT ![u].state = "deleted"]
  /\ UNCHANGED <<seat, post, job, slips, scenario>>

\* delete_category takes the rows below along (cascade of "children"), unless a
\* product refers to one of them.
RemoveCategory(c) ==
  /\ Asked("delete", c) /\ Live(c)
  /\ LET below == {v \in Categories : \E n \in DOMAIN Trail(v) : Trail(v)[n] = c} IN
     unit' = [v \in Units |-> IF v \in below THEN NoUnit ELSE unit[v]]
  /\ UNCHANGED <<seat, post, job, slips, scenario>>

\* delete_location needs that nothing hangs under it.
RemoveLocation(l) ==
  /\ Asked("delete", l) /\ Live(l) /\ Under(l) = {}
  /\ unit' = [unit EXCEPT ![l] = NoUnit]
  /\ UNCHANGED <<seat, post, job, slips, scenario>>

\* restore_department and restore_position look at nothing else.
Restore(u) ==
  /\ Asked("restore", u) /\ u \in Counted /\ unit[u].state = "deleted"
  /\ unit' = [unit EXCEPT ![u].state = "live"]
  /\ UNCHANGED <<seat, post, job, slips, scenario>>

----------------------------------------------------------------------------
(* Employees *)

Openings == {p \in LiveIn(Positions) : post[p].active /\ post[p].head < post[p].limit}

\* A manager who stays is not checked.
Managers(e) ==
  {Missing, unit[e].parent} \cup {m \in LiveIn(Employees) : Live(e) => ~ Circular(e, m)}

Start(what, e, p, m, joins, leaves) ==
  /\ job' = [what |-> what, who |-> e, seat |-> p, parent |-> m,
             joins |-> joins, leaves |-> leaves, touched |-> FALSE]
  /\ UNCHANGED <<unit, seat, post, slips, scenario>>

Hire(e) ==
  /\ Asked("create", e) /\ e \in Employees /\ unit[e] = NoUnit
  /\ \E p \in Openings \cup {Missing}, m \in Managers(e) :
       Start("hire", e, p, m, p, Missing)

\* The manager is checked after the headcounts have been changed.
Change(e) ==
  /\ Asked("move", e) /\ e \in Employees /\ Live(e)
  /\ \/ \E m \in Managers(e) : Start("change", e, seat[e], m, Missing, Missing)
     \/ \E p \in (Openings \cup {Missing}) \ {seat[e]}, m \in Employees \cup {Missing} :
          Start("change", e, p, m, p, seat[e])

\* A mistaken Leaves: somebody who goes is still counted.
LeavesNobody(e) == Missing

\* The position whose headcount goes down when somebody is deleted.
Leaves(e) == seat[e]

\* delete_employee does not look at the rows that report to him.
Dismiss(e) ==
  /\ Asked("delete", e) /\ e \in Employees /\ Live(e)
  /\ Start("dismiss", e, seat[e], unit[e].parent, Missing, Leaves(e))

Rehire(e) ==
  /\ Asked("restore", e) /\ e \in Employees /\ unit[e].state = "deleted"
  /\ seat[e] \in Openings \cup {Missing}
  /\ Start("rehire", e, seat[e], unit[e].parent, seat[e], Missing)

\* _assign_position_headcount commits.
Join ==
  /\ job.joins # Missing
  /\ post' = [post EXCEPT ![job.joins].head = @ + 1]
  /\ job' = [job EXCEPT !.joins = Missing, !.touched = TRUE]
  /\ UNCHANGED <<unit, seat, slips, scenario>>

\* _unassign_position_headcount commits; a deleted position is left as it is.
Leave ==
  /\ job.joins = Missing /\ job.leaves # Missing
  /\ post' = IF Live(job.leaves) THEN [post EXCEPT ![job.leaves].head = Max({0, @ - 1})] ELSE post
  /\ job' = [job EXCEPT !.leaves = Missing, !.touched = TRUE]
  /\ UNCHANGED <<unit, seat, slips, scenario>>

Finish ==
  /\ job # Idle /\ job.joins = Missing /\ job.leaves = Missing
  /\ job.what = "change" => job.parent \in Managers(job.who)
  /\ unit' = [unit EXCEPT ![job.who] =
       [state |-> IF job.what = "dismiss" THEN "deleted" ELSE "live", parent |-> job.parent]]
  /\ seat' = [seat EXCEPT ![job.who] = job.seat]
  /\ job' = Idle
  /\ UNCHANGED <<post, slips, scenario>>

\* The handler is lost after its first commit; or a check that comes after the
\* headcounts (e-mail, dates, department, manager, user, photo) refuses the
\* request, and they stay as they are.
Slip ==
  /\ job.touched /\ slips < scenario.slips
  /\ slips' = slips + 1 /\ job' = Idle
  /\ UNCHANGED <<unit, seat, post, scenario>>

Next ==
  \/ \E u \in Counted : Create(u) \/ Move(u) \/ Retire(u) \/ Restore(u)
  \/ \E u \in Listed : List(u) \/ Rehang(u)
  \/ \E p \in Positions : Limit(p)
  \/ \E c \in Categories : RemoveCategory(c)
  \/ \E l \in Locations : RemoveLocation(l)
  \/ \E e \in Employees : Hire(e) \/ Change(e) \/ Dismiss(e) \/ Rehire(e)
  \/ Join \/ Leave \/ Finish \/ Slip

Spec == Init /\ [][Next]_vars

----------------------------------------------------------------------------
(* Properties *)

\* No live row is above itself, however rows are created, moved, deleted and
\* removed in any order: a hierarchy that goes round is in no tree that is
\* shown, and a walk over it does not end.  Where deleted rows come back, they
\* may close a circle that could not be seen while they were deleted
\* (_validate_no_circular_parent and its siblings, restore_department).
NoCircle ==
  "restore" \notin scenario.ops =>
    \A u \in Units : Live(u) => Trail(u)[Cardinality(Units)] = Missing

\* Between two requests the headcount of a position is the number of live
\* employees who hold it and keeps to its limit, with each handler that stopped
\* between two commits putting it off by one at most, through deletion and
\* return of employees and positions (_assign_position_headcount,
\* _unassign_position_headcount, update_employee, delete_employee,
\* restore_employee, delete_position).
HeadcountMatches ==
  job = Idle => \A p \in Positions : LET held == Cardinality(HeldBy(p)) IN
    /\ post[p].head - held \in -slips .. slips
    /\ held <= post[p].limit + slips
=============================================================================
