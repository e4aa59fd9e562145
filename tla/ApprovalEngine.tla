--------------------------- MODULE ApprovalEngine ---------------------------
(***************************************************************************)
(* ApprovalEngineService: requests for approval of business documents that *)
(* pass the steps of a workflow, each signed by a user who holds the       *)
(* step's role, until the last step approves them, a step rejects them or  *)
(* their submitter cancels them.                                           *)
(*                                                                         *)
(* Handlers interleave at their SELECTs and write in one commit, which     *)
(* updates only the columns a handler has assigned and checks nothing      *)
(* again.  An administrator may replace the steps while requests are       *)
(* pending (ApprovalWorkflowService.update_workflow).                      *)
(***************************************************************************)
EXTENDS Integers, Sequences, FiniteSets, FiniteSetsExt

CONSTANTS
  Tasks,     \* handlers in flight
  Requests,  \* ids of approval requests
  Entities,  \* documents that ask for approval
  Users, Superusers,
  Roles,
  Holds,     \* the roles of a user
  Chains,    \* step sequences a workflow may have: step number -> role
  Scenarios, \* how many handlers overlap, on which requests and workflows
  MaxSigned  \* bound on the history of a pending request

Missing == "none"
Closed  == {"Approved", "Rejected", "Cancelled"}
Actions == {"Submitting", "Approved Step", "Completed Workflow", "Rejected", "Cancelled"}
StepNumbers == (UNION {DOMAIN c : c \in Chains}) \cup {1}

Scenario == [width: Nat \ {0}, requests: SUBSET Requests, chains: (SUBSET Chains) \ {{}}]

ASSUME ApprovalAssumption ==
  /\ \A c \in Chains : \A n \in DOMAIN c : n \in Nat \ {0} /\ c[n] \in Roles
  /\ Scenarios \subseteq Scenario
  /\ Holds \in [Users -> SUBSET Roles]
  /\ Superusers \subseteq Users
  /\ MaxSigned \in Nat

VARIABLES
  chain,    \* approval_steps of the workflow
  req,      \* approval_requests
  history,  \* approval_histories of each request, in the order of commit
  task,
  scenario  \* the demand this behaviour is about

vars == <<chain, req, history, task, scenario>>

Request == [status: Closed \cup {"Pending", Missing}, step: Nat,
            entity: Entities \cup {Missing}, by: Users \cup {Missing}]
Unborn  == [status |-> Missing, step |-> 0, entity |-> Missing, by |-> Missing]
Entry   == [step: Nat, action: Actions, by: Users]

Resting == [pc |-> "idle", op |-> Missing, r |-> Missing, user |-> Missing,
            entity |-> Missing, seen |-> Unborn, last |-> FALSE]
Task == [pc: {"idle", "unique", "request", "step", "next", "commit"},
         op: {"start", "approve", "reject", "cancel", Missing},
         r: Requests \cup {Missing}, user: Users \cup {Missing},
         entity: Entities \cup {Missing}, seen: Request, last: BOOLEAN]

TypeOK ==
  /\ chain \in Chains
  /\ req \in [Requests -> Request]
  /\ \A r \in Requests : req[r].status # Missing => req[r].step \in StepNumbers
  /\ history \in [Requests -> Seq(Entry)]
  /\ task \in [Tasks -> Task]
  /\ scenario \in Scenarios

Init ==
  /\ scenario \in Scenarios
  /\ chain \in scenario.chains
  /\ req = [r \in Requests |-> Unborn]
  /\ history = [r \in Requests |-> <<>>]
  /\ task = [t \in Tasks |-> Resting]

\* A handler may start when fewer than the scenario's width are under way.
MayBegin(t) ==
  /\ task[t].pc = "idle"
  /\ Cardinality({u \in Tasks : task[u].pc # "idle"}) < scenario.width

At(t, pc) == task[t].pc = pc
Goto(t, pc) == task' = [task EXCEPT ![t].pc = pc]
Finish(t) == task' = [task EXCEPT ![t] = Resting]
Unwritten == UNCHANGED <<chain, req, history, scenario>>

----------------------------------------------------------------------------
(* Handlers *)

\* start_workflow needs a workflow with steps.
BeginStart(t) ==
  /\ MayBegin(t) /\ DOMAIN chain # {}
  /\ \E r \in scenario.requests, e \in Entities, u \in Users :
       /\ req[r].status = Missing
       /\ task' = [task EXCEPT ![t] = [Resting EXCEPT
            !.pc = "unique", !.op = "start", !.r = r, !.entity = e, !.user = u]]
  /\ Unwritten

Begin(t) ==
  /\ MayBegin(t)
  /\ \E op \in {"approve", "reject", "cancel"}, r \in Requests, u \in Users :
       /\ req[r].status # Missing
       /\ req[r].status = "Pending" /\ op # "cancel" => Len(history[r]) + 2 <= MaxSigned
       /\ task' = [task EXCEPT ![t] = [Resting EXCEPT
            !.pc = "request", !.op = op, !.r = r, !.user = u]]
  /\ Unwritten

\* get_active_request_by_entity
PendingFor(e) == {r \in Requests : req[r].status = "Pending" /\ req[r].entity = e}

CheckUnique(t) ==
  /\ At(t, "unique")
  /\ IF PendingFor(task[t].entity) = {} THEN Goto(t, "commit") ELSE Finish(t)
  /\ Unwritten

Open(row) == row.status = "Pending"

\* cancel_workflow: the submitter or an administrator.
MayCancel(u, row) == row.by = u \/ u \in Superusers

ReadRequest(t) ==
  LET me == task[t]  row == req[me.r] IN
  /\ At(t, "request")
  /\ IF Open(row) /\ (me.op = "cancel" => MayCancel(me.user, row))
     THEN task' = [task EXCEPT ![t].seen = row,
                     ![t].pc = IF me.op = "cancel" THEN "commit" ELSE "step"]
     ELSE Finish(t)
  /\ Unwritten

\* _user_has_role, for the role of step n.
MaySign(u, n) == u \in Superusers \/ chain[n] \in Holds[u]

ReadStep(t) ==
  LET me == task[t] IN
  /\ At(t, "step")
  /\ IF me.seen.step \in DOMAIN chain /\ MaySign(me.user, me.seen.step)
     THEN Goto(t, IF me.op = "approve" THEN "next" ELSE "commit")
     ELSE Finish(t)
  /\ Unwritten

\* Mistaken forms of LastStep: the step after next, or this one, is looked for.
LastButOne(n) == n + 2 \notin DOMAIN chain
\* The workflow is complete when it has no step with the next number.
LastStep(n) == n + 1 \notin DOMAIN chain

ReadNext(t) ==
  /\ At(t, "next")
  /\ task' = [task EXCEPT ![t].pc = "commit", ![t].last = LastStep(task[t].seen.step)]
  /\ Unwritten

Note(me, action) == [step |-> me.seen.step, action |-> action, by |-> me.user]

\* The history rows a commit inserts.
Signed(me) ==
  CASE me.op = "approve" ->
         <<Note(me, "Approved Step")>>
           \o (IF me.last THEN <<Note(me, "Completed Workflow")>> ELSE <<>>)
    [] me.op = "reject" -> <<Note(me, "Rejected")>>
    [] me.op = "cancel" -> <<Note(me, "Cancelled")>>

\* The columns a commit assigns: the others keep what is stored.
Assigned(me, row) ==
  CASE me.op = "approve" /\ ~ me.last -> [row EXCEPT !.step = me.seen.step + 1]
    [] me.op = "approve" /\ me.last   -> [row EXCEPT !.status = "Approved"]
    [] me.op = "reject"               -> [row EXCEPT !.status = "Rejected"]
    [] me.op = "cancel"               -> [row EXCEPT !.status = "Cancelled"]

Commit(t) ==
  LET me == task[t] IN
  /\ At(t, "commit") /\ me.op # "start"
  /\ req' = [req EXCEPT ![me.r] = Assigned(me, @)]
  /\ history' = [history EXCEPT ![me.r] = @ \o Signed(me)]
  /\ Finish(t)
  /\ UNCHANGED <<chain, scenario>>

CommitStart(t) ==
  LET me == task[t] IN
  /\ At(t, "commit") /\ me.op = "start"
  /\ req[me.r].status = Missing
  /\ req' = [req EXCEPT ![me.r] =
       [status |-> "Pending", step |-> 1, entity |-> me.entity, by |-> me.user]]
  /\ history' = [history EXCEPT ![me.r] =
       <<[step |-> 1, action |-> "Submitting", by |-> me.user]>>]
  /\ Finish(t)
  /\ UNCHANGED <<chain, scenario>>

\* A handler's connection fails before its commit.
Abandon(t) == task[t].pc # "idle" /\ Finish(t) /\ Unwritten

\* update_workflow deletes and inserts the steps in one transaction.
Redefine ==
  /\ chain' \in scenario.chains \ {chain}
  /\ UNCHANGED <<req, history, task, scenario>>

Step(t) ==
  \/ BeginStart(t) \/ Begin(t) \/ CheckUnique(t) \/ ReadRequest(t) \/ ReadStep(t)
  \/ ReadNext(t) \/ Commit(t) \/ CommitStart(t) \/ Abandon(t)

Next == Redefine \/ \E t \in Tasks : Step(t)

Spec == Init /\ [][Next]_vars

----------------------------------------------------------------------------
(* Properties *)

Written(r, action) == {i \in DOMAIN history[r] : history[r][i].action = action}

NotRedefined == \E c \in Chains : scenario.chains = {c}

\* The steps are numbered 1, 2, 3... as the schema asks but nothing enforces.
NoGap == \E k \in StepNumbers : DOMAIN chain = 1..k

\* Nobody gets a document approved without every step of its workflow being
\* signed by someone who holds that step's role, however approvals, lost
\* connections and rejections interleave, if the workflow is not redefined
\* under way and its steps are numbered without a gap; and until then its
\* request is at a step that exists, so that somebody can decide it
\* (approve_step, _user_has_role, get_step_by_number).
EveryStepSigned ==
  NotRedefined /\ NoGap => \A r \in Requests :
    /\ req[r].status = "Pending" => req[r].step \in DOMAIN chain
    /\ req[r].status = "Approved" =>
         \A n \in DOMAIN chain : \E i \in Written(r, "Approved Step") :
           history[r][i].step = n /\ MaySign(history[r][i].by, n)

=============================================================================
