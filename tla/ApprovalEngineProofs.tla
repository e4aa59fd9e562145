------------------------- MODULE ApprovalEngineProofs -------------------------
(***************************************************************************)
(* Proofs about ApprovalEngine for any sets of handlers, requests, users,  *)
(* roles, workflows and scenarios; then about the dashboards beside it.    *)
(***************************************************************************)
EXTENDS ApprovalsAndReports, SequenceTheorems, TLAPS

\* What a handler knows of the request it decides.
Known ==
  \A t \in Tasks : LET me == task[t] IN
    /\ me.pc # "idle" => me.r \in Requests /\ me.user \in Users /\ me.op # Missing
    /\ me.pc = "unique" => me.op = "start"
    /\ me.op = "start" => me.entity \in Entities
    /\ me.pc \in {"request", "step", "next"} => me.op # "start"
    /\ me.pc = "next" => me.op = "approve"
    /\ me.pc # "idle" /\ me.op # "start" => req[me.r].status # Missing
    /\ me.pc \in {"step", "next", "commit"} /\ me.op # "start" => me.seen.step \in StepNumbers
    /\ me.pc = "commit" /\ me.op = "approve" /\ ~ me.last => me.seen.step + 1 \in StepNumbers

\* Step n of request r was signed by someone who holds its role.
SignedBy(r, n) ==
  \E i \in Written(r, "Approved Step") : history[r][i].step = n /\ MaySign(history[r][i].by, n)

\* Every step before n was signed.
SignedBefore(r, n) == \A k \in 1..n - 1 : SignedBy(r, k)

\* Requests, and the handlers that decide them, stand at steps all of whose
\* predecessors were signed, and a handler that approves may sign its step.
Progress ==
  /\ \A r \in Requests : req[r].status # Missing =>
       /\ req[r].step \in DOMAIN chain /\ SignedBefore(r, req[r].step)
       /\ req[r].status = "Approved" => \A n \in DOMAIN chain : SignedBy(r, n)
  /\ \A t \in Tasks : LET me == task[t] IN
       /\ me.pc \in {"step", "next", "commit"} /\ me.op # "start" =>
            me.seen.step \in DOMAIN chain /\ SignedBefore(me.r, me.seen.step)
       /\ me.pc \in {"next", "commit"} /\ me.op = "approve" => MaySign(me.user, me.seen.step)
       /\ me.pc = "commit" /\ me.op = "approve" => me.last = LastStep(me.seen.step)
       /\ me.pc # "idle" /\ me.op = "start" => DOMAIN chain # {}

\* The steps of this behaviour's only workflow.
Fixed == chain \in scenario.chains

IInv == TypeOK /\ Known /\ Fixed /\ (NotRedefined /\ NoGap => Progress)

----------------------------------------------------------------------------

\* The numbers of steps are positive numbers.
LEMMA StepNumbersNat == StepNumbers \subseteq Nat \ {0}
<1>1. ASSUME NEW c \in Chains PROVE DOMAIN c \subseteq Nat \ {0}
  BY ApprovalAssumption
<1> QED
  BY <1>1 DEF StepNumbers

\* The steps of the current workflow are step numbers.
LEMMA ChainSteps == TypeOK => DOMAIN chain \subseteq StepNumbers
BY DEF TypeOK, StepNumbers

\* A program that starts has no request and nobody at work.
LEMMA InitIInv == Init => IInv
<1> SUFFICES ASSUME Init PROVE IInv
  OBVIOUS
<1>1. scenario.chains \subseteq Chains
  BY ApprovalAssumption DEF Init, Scenario
<1>2. Unborn \in Request /\ Resting \in Task
  BY DEF Unborn, Request, Resting, Task
<1>3. TypeOK
  BY <1>1, <1>2 DEF Init, TypeOK, Unborn
<1>4. Known /\ Fixed /\ Progress
  BY DEF Init, Known, Fixed, Progress, Resting, Unborn, Missing
<1> QED
  BY <1>3, <1>4 DEF IInv

\* A handler that goes on, or rests, without writing.
LEMMA GoOn ==
  ASSUME IInv, NEW t \in Tasks, NEW new \in Task, task' = [task EXCEPT ![t] = new], Unwritten,
         /\ new.pc # "idle" => new.r \in Requests /\ new.user \in Users /\ new.op # Missing
         /\ new.pc = "unique" => new.op = "start"
         /\ new.op = "start" => new.entity \in Entities
         /\ new.pc \in {"request", "step", "next"} => new.op # "start"
         /\ new.pc = "next" => new.op = "approve"
         /\ new.pc # "idle" /\ new.op # "start" => req[new.r].status # Missing
         /\ new.pc \in {"step", "next", "commit"} /\ new.op # "start" =>
              new.seen.step \in StepNumbers
         /\ new.pc = "commit" /\ new.op = "approve" /\ ~ new.last =>
              new.seen.step + 1 \in StepNumbers,
         NotRedefined /\ NoGap =>
           /\ new.pc \in {"step", "next", "commit"} /\ new.op # "start" =>
                new.seen.step \in DOMAIN chain /\ SignedBefore(new.r, new.seen.step)
           /\ new.pc \in {"next", "commit"} /\ new.op = "approve" =>
                MaySign(new.user, new.seen.step)
           /\ new.pc = "commit" /\ new.op = "approve" => new.last = LastStep(new.seen.step)
           /\ new.pc # "idle" /\ new.op = "start" => DOMAIN chain # {}
  PROVE  IInv'
<1>1. UNCHANGED <<chain, req, history, scenario>>
  BY DEF Unwritten
<1>2. \A u \in Tasks : task'[u] = IF u = t THEN new ELSE task[u]
  BY DEF IInv, TypeOK
<1>3. TypeOK' /\ Fixed'
  BY <1>1, <1>2 DEF IInv, TypeOK, Fixed
<1>4. Known'
  BY <1>1, <1>2 DEF IInv, Known
<1>5. ASSUME NotRedefined', NoGap' PROVE Progress'
  <2>1. NotRedefined /\ NoGap
    BY <1>1, <1>5 DEF NotRedefined, NoGap
  <2>2. /\ \A r, n : SignedBefore(r, n)' <=> SignedBefore(r, n)
        /\ \A r, n : SignedBy(r, n)' <=> SignedBy(r, n)
        /\ \A u, n : MaySign(u, n)' <=> MaySign(u, n)
        /\ \A n : LastStep(n)' = LastStep(n)
    <3>1. UNCHANGED <<chain, history>>
      BY <1>1
    <3>2. ASSUME NEW r, NEW n PROVE SignedBy(r, n)' <=> SignedBy(r, n)
      BY <3>1 DEF SignedBy, Written, MaySign
    <3>3. ASSUME NEW r, NEW n PROVE SignedBefore(r, n)' <=> SignedBefore(r, n)
      BY <3>2 DEF SignedBefore
    <3>4. \A u, n : MaySign(u, n)' <=> MaySign(u, n)
      BY <3>1 DEF MaySign
    <3>5. \A n : LastStep(n)' = LastStep(n)
      BY <3>1 DEF LastStep
    <3> QED
      BY <3>2, <3>3, <3>4, <3>5
  <2> QED
    BY <1>1, <1>2, <2>1, <2>2 DEF IInv, Progress
<1> QED
  BY <1>3, <1>4, <1>5 DEF IInv

\* A handler that ends without writing.
LEMMA FinishStep ==
  ASSUME IInv, NEW t \in Tasks, Finish(t), Unwritten
  PROVE  IInv'
<1>1. Resting \in Task /\ Resting.pc = "idle" /\ Resting.op = Missing
  BY DEF Resting, Task, Unborn, Request
<1>2. task' = [task EXCEPT ![t] = Resting]
  BY DEF Finish
<1> QED
  BY <1>1, <1>2, GoOn DEF Missing

\* An arriving handler knows only what its caller gave it.
LEMMA BeginStep ==
  ASSUME IInv, NEW t \in Tasks, BeginStart(t) \/ Begin(t)
  PROVE  IInv'
<1>1. CASE BeginStart(t)
  <2>1. PICK r \in scenario.requests, e \in Entities, u \in Users :
          task' = [task EXCEPT ![t] = [Resting EXCEPT
            !.pc = "unique", !.op = "start", !.r = r, !.entity = e, !.user = u]]
    BY <1>1 DEF BeginStart
  <2> DEFINE new == [Resting EXCEPT
            !.pc = "unique", !.op = "start", !.r = r, !.entity = e, !.user = u]
  <2>2. r \in Requests
    BY ApprovalAssumption DEF IInv, TypeOK, Scenario
  <2>3. /\ new \in Task /\ new.pc = "unique" /\ new.op = "start" /\ new.r = r
        /\ new.entity = e /\ new.user = u
    BY <2>2 DEF Resting, Task, Unborn, Request
  <2>4. DOMAIN chain # {} /\ Unwritten /\ task' = [task EXCEPT ![t] = new]
    BY <1>1, <2>1 DEF BeginStart
  <2> HIDE DEF new
  <2> QED
    BY <2>2, <2>3, <2>4, GoOn DEF Missing
<1>2. CASE Begin(t)
  <2>1. PICK op \in {"approve", "reject", "cancel"}, r \in Requests, u \in Users :
          /\ req[r].status # Missing
          /\ task' = [task EXCEPT ![t] = [Resting EXCEPT
               !.pc = "request", !.op = op, !.r = r, !.user = u]]
    BY <1>2 DEF Begin
  <2> DEFINE new == [Resting EXCEPT !.pc = "request", !.op = op, !.r = r, !.user = u]
  <2>2. new \in Task /\ new.pc = "request" /\ new.op = op /\ new.r = r /\ new.user = u
    BY DEF Resting, Task, Unborn, Request
  <2>3. Unwritten /\ task' = [task EXCEPT ![t] = new] /\ req[r].status # Missing
    BY <1>2, <2>1 DEF Begin
  <2> HIDE DEF new
  <2> QED
    BY <2>2, <2>3, GoOn DEF Missing
<1> QED
  BY <1>1, <1>2

\* The check for a pending request of the document writes nothing.
LEMMA CheckUniqueStep ==
  ASSUME IInv, NEW t \in Tasks, CheckUnique(t)
  PROVE  IInv'
<1>1. CASE PendingFor(task[t].entity) = {}
  <2> DEFINE new == [task[t] EXCEPT !.pc = "commit"]
  <2>1. /\ task[t] \in Task /\ task[t].pc = "unique" /\ task[t].op = "start"
        /\ task[t].r \in Requests /\ task[t].user \in Users /\ task[t].entity \in Entities
    BY DEF IInv, TypeOK, Known, CheckUnique, At
  <2>2. /\ new \in Task /\ new.pc = "commit" /\ new.op = "start" /\ new.r = task[t].r
        /\ new.entity = task[t].entity /\ new.user = task[t].user
    BY <2>1 DEF Task
  <2>3. Unwritten /\ task' = [task EXCEPT ![t] = new]
    BY <1>1 DEF CheckUnique, Goto
  <2>4. NotRedefined /\ NoGap => DOMAIN chain # {}
    BY <2>1 DEF IInv, Progress
  <2> HIDE DEF new
  <2> QED
    BY <2>1, <2>2, <2>3, <2>4, GoOn DEF Missing
<1>2. CASE PendingFor(task[t].entity) # {}
  BY <1>2, FinishStep DEF CheckUnique
<1> QED
  BY <1>1, <1>2

\* A handler decides the step at which it read the request.
LEMMA ReadRequestStep ==
  ASSUME IInv, NEW t \in Tasks, ReadRequest(t)
  PROVE  IInv'
<1> DEFINE me == task[t]
           row == req[me.r]
           new == [me EXCEPT !.seen = row, !.pc = IF me.op = "cancel" THEN "commit" ELSE "step"]
<1>1. CASE Open(row) /\ (me.op = "cancel" => MayCancel(me.user, row))
  <2>1. /\ me \in Task /\ me.pc = "request" /\ me.op \notin {"start", Missing}
        /\ me.r \in Requests /\ me.user \in Users /\ row \in Request /\ row.status # Missing
        /\ row.step \in StepNumbers
    BY DEF IInv, TypeOK, Known, ReadRequest, At
  <2>2. /\ new \in Task /\ new.op = me.op /\ new.r = me.r /\ new.user = me.user
        /\ new.seen = row /\ new.pc = IF me.op = "cancel" THEN "commit" ELSE "step"
    BY <2>1 DEF Task
  <2>3. Unwritten /\ task' = [task EXCEPT ![t] = new]
    BY <1>1, <2>1 DEF ReadRequest, IInv, TypeOK
  <2>4. NotRedefined /\ NoGap => row.step \in DOMAIN chain /\ SignedBefore(me.r, row.step)
    BY <2>1 DEF IInv, Progress
  <2>5. /\ new.pc \in {"step", "commit"} /\ (new.pc = "commit" => new.op = "cancel")
        /\ new.r \in Requests /\ new.user \in Users /\ new.op \notin {"start", Missing}
        /\ req[new.r].status # Missing /\ new.seen.step \in StepNumbers
    BY <2>1, <2>2
  <2>6. NotRedefined /\ NoGap =>
          new.seen.step \in DOMAIN chain /\ SignedBefore(new.r, new.seen.step)
    BY <2>2, <2>4
  <2> HIDE DEF new, row, me
  <2> QED
    BY <2>2, <2>3, <2>5, <2>6, GoOn DEF Missing
<1>2. CASE ~ (Open(row) /\ (me.op = "cancel" => MayCancel(me.user, row)))
  BY <1>2, FinishStep DEF ReadRequest
<1> QED
  BY <1>1, <1>2

\* A handler goes on past the role's check only if its user may sign.
LEMMA ReadStepStep ==
  ASSUME IInv, NEW t \in Tasks, ReadStep(t)
  PROVE  IInv'
<1> DEFINE me == task[t]
           new == [me EXCEPT !.pc = IF me.op = "approve" THEN "next" ELSE "commit"]
<1>1. CASE me.seen.step \in DOMAIN chain /\ MaySign(me.user, me.seen.step)
  <2>1. /\ me \in Task /\ me.pc = "step" /\ me.op \notin {"start", Missing}
        /\ me.r \in Requests /\ me.user \in Users /\ me.seen.step \in StepNumbers
        /\ req[me.r].status # Missing
    BY DEF IInv, TypeOK, Known, ReadStep, At
  <2>2. /\ new \in Task /\ new.op = me.op /\ new.r = me.r /\ new.user = me.user
        /\ new.seen = me.seen /\ new.pc = IF me.op = "approve" THEN "next" ELSE "commit"
    BY <2>1 DEF Task
  <2>3. Unwritten /\ task' = [task EXCEPT ![t] = new]
    BY <1>1, <2>1 DEF ReadStep, Goto
  <2>4. NotRedefined /\ NoGap => SignedBefore(me.r, me.seen.step)
    BY <2>1 DEF IInv, Progress
  <2> HIDE DEF new, me
  <2> QED
    BY <1>1, <2>1, <2>2, <2>3, <2>4, GoOn DEF Missing
<1>2. CASE ~ (me.seen.step \in DOMAIN chain /\ MaySign(me.user, me.seen.step))
  BY <1>2, FinishStep DEF ReadStep
<1> QED
  BY <1>1, <1>2

\* The last step is the one no step follows.
LEMMA ReadNextStep ==
  ASSUME IInv, NEW t \in Tasks, ReadNext(t)
  PROVE  IInv'
<1> DEFINE me == task[t]
           new == [me EXCEPT !.pc = "commit", !.last = LastStep(me.seen.step)]
<1>1. /\ me \in Task /\ me.pc = "next" /\ me.op = "approve"
      /\ me.r \in Requests /\ me.user \in Users /\ me.seen.step \in StepNumbers
      /\ req[me.r].status # Missing
  BY DEF IInv, TypeOK, Known, ReadNext, At
<1>2. /\ new \in Task /\ new.op = "approve" /\ new.r = me.r /\ new.user = me.user
      /\ new.seen = me.seen /\ new.pc = "commit" /\ new.last = LastStep(me.seen.step)
  BY <1>1 DEF Task, LastStep
<1>3. Unwritten /\ task' = [task EXCEPT ![t] = new]
  BY <1>1 DEF ReadNext, IInv, TypeOK
<1>4. NotRedefined /\ NoGap =>
        /\ me.seen.step \in DOMAIN chain /\ SignedBefore(me.r, me.seen.step)
        /\ MaySign(me.user, me.seen.step)
  BY <1>1 DEF IInv, Progress
<1>5. ~ new.last => me.seen.step + 1 \in StepNumbers
  BY <1>2, ChainSteps DEF IInv, LastStep
<1> HIDE DEF new, me
<1> QED
  BY <1>1, <1>2, <1>3, <1>4, <1>5, GoOn DEF Missing

\* Rows appended to a single one leave it first.
LEMMA AppendedFirst ==
  ASSUME NEW S, NEW a \in Seq(S), NEW b \in Seq(S), Len(a) = 1
  PROVE  a \o b \in Seq(S) /\ Len(a \o b) >= 1 /\ (a \o b)[1] = a[1]
<1>1. Len(b) \in Nat
  BY LenProperties
<1>2. a \o b \in Seq(S) /\ Len(a \o b) >= 1
  BY <1>1, ConcatProperties
<1>3. 1 \in 1..Len(a) + Len(b)
  BY <1>1
<1>4. (a \o b)[1] = IF 1 <= Len(a) THEN a[1] ELSE b[1 - Len(a)]
  BY <1>3, ConcatProperties
<1> QED
  BY <1>2, <1>4

\* The rows a commit inserts are history, and an approval's first one signs its step.
LEMMA SignedEntries ==
  ASSUME NEW me \in Task, me.op \in {"approve", "reject", "cancel"}, me.user \in Users
  PROVE  /\ Signed(me) \in Seq(Entry)
         /\ me.op = "approve" => Len(Signed(me)) >= 1 /\ Signed(me)[1] = Note(me, "Approved Step")
<1>1. \A action \in Actions : Note(me, action) \in Entry /\ <<Note(me, action)>> \in Seq(Entry)
  BY DEF Note, Entry, Task, Request
<1> DEFINE one == <<Note(me, "Approved Step")>>
           two == IF me.last THEN <<Note(me, "Completed Workflow")>> ELSE <<>>
<1>2. CASE me.op = "approve"
  <2>1. Signed(me) = one \o two
    BY <1>2 DEF Signed
  <2>2. /\ one \in Seq(Entry) /\ Len(one) = 1 /\ one[1] = Note(me, "Approved Step")
        /\ two \in Seq(Entry)
    <3>1. one \in Seq(Entry) /\ Len(one) = 1 /\ one[1] = Note(me, "Approved Step")
      BY <1>1 DEF Actions
    <3>2. <<Note(me, "Completed Workflow")>> \in Seq(Entry)
      BY <1>1 DEF Actions
    <3>3. <<>> \in Seq(Entry)
      OBVIOUS
    <3>4. two \in Seq(Entry)
      BY <3>2, <3>3
    <3> QED
      BY <3>1, <3>4
  <2> HIDE DEF one, two
  <2>3. one \in Seq(Entry) /\ two \in Seq(Entry) /\ Len(one) = 1
    BY <2>2
  <2>4. one \o two \in Seq(Entry) /\ Len(one \o two) >= 1 /\ (one \o two)[1] = one[1]
    BY <2>3, AppendedFirst
  <2>5. one[1] = Note(me, "Approved Step")
    BY <2>2
  <2> QED
    BY <2>1, <2>4, <2>5
<1>3. CASE me.op = "reject"
  <2>1. Signed(me) = <<Note(me, "Rejected")>>
    BY <1>3 DEF Signed
  <2> QED
    BY <1>1, <1>3, <2>1 DEF Actions
<1>4. CASE me.op = "cancel"
  <2>1. Signed(me) = <<Note(me, "Cancelled")>>
    BY <1>4 DEF Signed
  <2> QED
    BY <1>1, <1>4, <2>1 DEF Actions
<1> QED
  BY <1>2, <1>3, <1>4

\* History only grows, so that what was signed stays signed.
LEMMA SignedKept ==
  ASSUME chain' = chain, NEW r \in Requests, NEW s \in Seq(Entry),
         history \in [Requests -> Seq(Entry)], history'[r] = history[r] \o s, NEW n, SignedBy(r, n)
  PROVE  SignedBy(r, n)'
<1>1. PICK i \in DOMAIN history[r] :
        /\ history[r][i].action = "Approved Step" /\ history[r][i].step = n
        /\ MaySign(history[r][i].by, n)
  BY DEF SignedBy, Written
<1> DEFINE old == history[r]
<1>2. old \in Seq(Entry) /\ i \in DOMAIN old
  BY <1>1
<1>3. i \in DOMAIN (old \o s) /\ (old \o s)[i] = old[i]
  <2> HIDE DEF old
  <2> QED
    BY <1>2
<1>4. /\ i \in DOMAIN history'[r]
      /\ history'[r][i].action = "Approved Step" /\ history'[r][i].step = n
      /\ MaySign(history'[r][i].by, n)
  BY <1>1, <1>3
<1> QED
  BY <1>4 DEF SignedBy, Written, MaySign

\* A commit leaves a request open or closed, at a step of the workflow.
LEMMA AssignedRow ==
  ASSUME NEW me \in Task, me.op \in {"approve", "reject", "cancel"}, NEW row \in Request,
         row.status # Missing, row.step \in StepNumbers,
         me.op = "approve" /\ ~ me.last => me.seen.step + 1 \in StepNumbers
  PROVE  LET new == Assigned(me, row) IN
         /\ new \in Request /\ new.status # Missing /\ new.step \in StepNumbers
         /\ new.step = IF me.op = "approve" /\ ~ me.last THEN me.seen.step + 1 ELSE row.step
         /\ new.status = "Approved" =>
              row.status = "Approved" \/ (me.op = "approve" /\ me.last)
<1>1. me.last \in BOOLEAN /\ me.seen.step + 1 \in Nat
  BY DEF Task, Request
<1>2. CASE me.op = "approve" /\ ~ me.last
  <2>1. Assigned(me, row) = [row EXCEPT !.step = me.seen.step + 1]
    BY <1>2 DEF Assigned
  <2> QED
    BY <1>1, <1>2, <2>1 DEF Request
<1>3. CASE me.op = "approve" /\ me.last
  <2>1. Assigned(me, row) = [row EXCEPT !.status = "Approved"]
    BY <1>3 DEF Assigned
  <2> QED
    BY <1>3, <2>1 DEF Request, Closed, Missing
<1>4. CASE me.op = "reject"
  <2>1. Assigned(me, row) = [row EXCEPT !.status = "Rejected"]
    BY <1>4 DEF Assigned
  <2> QED
    BY <1>4, <2>1 DEF Request, Closed, Missing
<1>5. CASE me.op = "cancel"
  <2>1. Assigned(me, row) = [row EXCEPT !.status = "Cancelled"]
    BY <1>5 DEF Assigned
  <2> QED
    BY <1>5, <2>1 DEF Request, Closed, Missing
<1> QED
  BY <1>1, <1>2, <1>3, <1>4, <1>5

\* A commit that lets one request advance, by a handler that then rests.
LEMMA CommitStep ==
  ASSUME IInv, NEW t \in Tasks, NEW r \in Requests, NEW new \in Request, NEW s \in Seq(Entry),
         new.status # Missing, new.step \in StepNumbers, Finish(t),
         req' = [req EXCEPT ![r] = new], history' = [history EXCEPT ![r] = @ \o s],
         UNCHANGED <<chain, scenario>>,
         NotRedefined /\ NoGap /\ (\A n : SignedBy(r, n) => SignedBy(r, n)') =>
           /\ new.step \in DOMAIN chain /\ SignedBefore(r, new.step)'
           /\ new.status = "Approved" => \A n \in DOMAIN chain : SignedBy(r, n)'
  PROVE  IInv'
<1>1. /\ \A u \in Tasks : task'[u] = IF u = t THEN Resting ELSE task[u]
      /\ \A q \in Requests : req'[q] = IF q = r THEN new ELSE req[q]
      /\ \A q \in Requests : history'[q] = IF q = r THEN history[q] \o s ELSE history[q]
      /\ Resting \in Task /\ Resting.pc = "idle" /\ Resting.op = Missing
  BY DEF IInv, TypeOK, Finish, Resting, Task, Unborn, Request
<1>2. TypeOK' /\ Fixed'
  BY <1>1 DEF IInv, TypeOK, Fixed, Finish
<1>3. Known'
  BY <1>1 DEF IInv, Known, Missing
<1>5. chain' = chain
  OBVIOUS
<1>4. ASSUME NotRedefined', NoGap' PROVE Progress'
  <2>1. NotRedefined /\ NoGap
    BY <1>4 DEF NotRedefined, NoGap
  <2>2. ASSUME NEW q \in Requests, NEW n, SignedBy(q, n) PROVE SignedBy(q, n)'
    <3>1. CASE q = r
      BY <1>1, <2>2, <3>1, SignedKept DEF IInv, TypeOK
    <3>2. CASE q # r
      <4>1. history'[q] = history[q]
        BY <1>1, <3>2
      <4>2. PICK i \in DOMAIN history[q] :
              /\ history[q][i].action = "Approved Step" /\ history[q][i].step = n
              /\ MaySign(history[q][i].by, n)
        BY <2>2 DEF SignedBy, Written
      <4>3. /\ i \in DOMAIN history'[q] /\ history'[q][i].action = "Approved Step"
            /\ history'[q][i].step = n /\ MaySign(history'[q][i].by, n)
        BY <4>1, <4>2
      <4> QED
        BY <1>5, <4>3 DEF SignedBy, Written, MaySign
    <3> QED
      BY <3>1, <3>2
  <2>3. ASSUME NEW q \in Requests, NEW n, SignedBefore(q, n) PROVE SignedBefore(q, n)'
    BY <2>2, <2>3 DEF SignedBefore
  <2>4. /\ \A u, n : MaySign(u, n)' <=> MaySign(u, n)
        /\ \A n : LastStep(n)' = LastStep(n)
    BY DEF MaySign, LastStep
  <2>5. Progress
    BY <2>1 DEF IInv
  <2>6. /\ new.step \in DOMAIN chain /\ SignedBefore(r, new.step)'
        /\ new.status = "Approved" => \A n \in DOMAIN chain : SignedBy(r, n)'
    BY <2>1, <2>2
  <2>7. ASSUME NEW q \in Requests, req'[q].status # Missing
        PROVE  (/\ req[q].step \in DOMAIN chain /\ SignedBefore(q, req[q].step)
                /\ req[q].status = "Approved" => \A n \in DOMAIN chain : SignedBy(q, n))'
    <3>1. CASE q = r
      <4>1. req'[q] = new
        BY <1>1, <3>1
      <4>2. SignedBefore(q, new.step)' /\ (new.status = "Approved" => \A n \in DOMAIN chain : SignedBy(q, n)')
        BY <2>6, <3>1
      <4> QED
        BY <1>5, <2>6, <4>1, <4>2 DEF SignedBefore
    <3>2. CASE q # r
      <4>1. req'[q] = req[q]
        BY <1>1, <3>2
      <4>2. /\ req[q].step \in DOMAIN chain /\ SignedBefore(q, req[q].step)
            /\ req[q].status = "Approved" => \A n \in DOMAIN chain : SignedBy(q, n)
        BY <2>5, <2>7, <4>1 DEF Progress
      <4>3. \A k : SignedBefore(q, k) => SignedBefore(q, k)'
        BY <2>3
      <4>4. SignedBefore(q, req[q].step)'
        BY <4>1, <4>2, <4>3 DEF SignedBefore
      <4> QED
        BY <1>5, <2>2, <4>1, <4>2, <4>4
    <3> QED
      BY <3>1, <3>2
  <2>8. ASSUME NEW u \in Tasks
        PROVE  (LET me == task[u] IN
          /\ me.pc \in {"step", "next", "commit"} /\ me.op # "start" =>
               me.seen.step \in DOMAIN chain /\ SignedBefore(me.r, me.seen.step)
          /\ me.pc \in {"next", "commit"} /\ me.op = "approve" => MaySign(me.user, me.seen.step)
          /\ me.pc = "commit" /\ me.op = "approve" => me.last = LastStep(me.seen.step)
          /\ me.pc # "idle" /\ me.op = "start" => DOMAIN chain # {})'
    <3>1. CASE u = t
      BY <1>1, <3>1 DEF Missing
    <3>2. CASE u # t
      <4>1. task'[u] = task[u] /\ (task[u].pc # "idle" => task[u].r \in Requests)
        BY <1>1, <3>2 DEF IInv, Known
      <4>2. ASSUME task[u].pc \in {"step", "next", "commit"}, task[u].op # "start"
            PROVE  task[u].seen.step \in DOMAIN chain
                   /\ SignedBefore(task[u].r, task[u].seen.step)'
        <5>1. task[u].seen.step \in DOMAIN chain /\ SignedBefore(task[u].r, task[u].seen.step)
              /\ task[u].r \in Requests
          BY <4>1, <4>2, <2>5 DEF Progress
        <5>2. PICK q \in Requests : q = task[u].r
          BY <5>1
        <5>3. PICK n : n = task[u].seen.step
          OBVIOUS
        <5>4. SignedBefore(q, n)'
          BY <2>3, <5>1, <5>2, <5>3
        <5> QED
          BY <4>1, <5>1, <5>2, <5>3, <5>4 DEF SignedBefore
      <4>3. /\ task[u].pc \in {"next", "commit"} /\ task[u].op = "approve" =>
                 MaySign(task[u].user, task[u].seen.step)
            /\ task[u].pc = "commit" /\ task[u].op = "approve" =>
                 task[u].last = LastStep(task[u].seen.step)
            /\ task[u].pc # "idle" /\ task[u].op = "start" => DOMAIN chain # {}
        BY <2>5 DEF Progress
      <4> QED
        BY <1>5, <4>1, <4>2, <4>3 DEF MaySign, LastStep
    <3> QED
      BY <3>1, <3>2
  <2> QED
    BY <2>7, <2>8 DEF Progress
<1> QED
  BY <1>2, <1>3, <1>4 DEF IInv

\* A decision signs its step, and the last of them approves the request.
LEMMA CommitDecisionStep ==
  ASSUME IInv, NEW t \in Tasks, Commit(t)
  PROVE  IInv'
<1> DEFINE me == task[t]
           r == me.r
           row == req[r]
           new == Assigned(me, row)
           s == Signed(me)
<1>1. /\ me \in Task /\ me.pc = "commit" /\ me.op \in {"approve", "reject", "cancel"}
      /\ r \in Requests /\ me.user \in Users /\ row \in Request /\ row.status # Missing
      /\ row.step \in StepNumbers /\ history[r] \in Seq(Entry)
      /\ me.op = "approve" /\ ~ me.last => me.seen.step + 1 \in StepNumbers
  <2>1. me \in Task /\ me.pc = "commit" /\ me.op \notin {"start", Missing}
    BY DEF IInv, TypeOK, Known, Commit, At
  <2>2. me.op \in {"approve", "reject", "cancel"}
    BY <2>1 DEF Task
  <2>3. r \in Requests /\ me.user \in Users /\ row.status # Missing
    BY <2>1 DEF IInv, Known
  <2> QED
    BY <2>1, <2>2, <2>3 DEF IInv, TypeOK, Known
<1>2. /\ new \in Request /\ new.status # Missing /\ new.step \in StepNumbers
      /\ new.step = IF me.op = "approve" /\ ~ me.last THEN me.seen.step + 1 ELSE row.step
      /\ new.status = "Approved" => row.status = "Approved" \/ (me.op = "approve" /\ me.last)
  <2> HIDE DEF me, row
  <2> QED
    BY <1>1, AssignedRow
<1>3. /\ s \in Seq(Entry)
      /\ me.op = "approve" => Len(s) >= 1 /\ s[1] = Note(me, "Approved Step")
  <2> HIDE DEF me
  <2> QED
    BY <1>1, SignedEntries
<1>4. /\ req' = [req EXCEPT ![r] = new] /\ history' = [history EXCEPT ![r] = @ \o s]
      /\ Finish(t) /\ UNCHANGED <<chain, scenario>>
  BY DEF Commit
<1>5. ASSUME me.op = "approve", NotRedefined, NoGap,
             NEW q \in Requests, q = r, NEW k, k = me.seen.step
      PROVE  SignedBy(q, k)'
  <2> DEFINE old == history[r]  i == Len(old) + 1  n == me.seen.step
  <2>1. /\ i \in DOMAIN (old \o s) /\ (old \o s)[i] = s[1]
    <3>1. old \in Seq(Entry) /\ s \in Seq(Entry) /\ Len(s) >= 1
      BY <1>1, <1>3, <1>5
    <3> HIDE DEF old, s
    <3>2. /\ Len(old) \in Nat /\ Len(s) \in Nat /\ old \o s \in Seq(Entry)
          /\ Len(old \o s) = Len(old) + Len(s)
      BY <3>1, LenProperties, ConcatProperties
    <3>3. DOMAIN (old \o s) = 1..Len(old) + Len(s)
      BY <3>2, LenProperties
    <3>4. i \in 1..Len(old) + Len(s)
      BY <3>1, <3>2
    <3>5. (old \o s)[i] = IF i <= Len(old) THEN old[i] ELSE s[i - Len(old)]
      BY <3>1, <3>4, ConcatProperties
    <3> QED
      BY <3>2, <3>3, <3>4, <3>5
  <2>2. history'[r] = old \o s
    BY <1>1, <1>4 DEF IInv, TypeOK
  <2>3. MaySign(me.user, n)
    BY <1>1, <1>5 DEF IInv, Progress
  <2>4. s[1].action = "Approved Step" /\ s[1].step = n /\ s[1].by = me.user
    <3> DEFINE note == Note(me, "Approved Step")
    <3>1. s[1] = note
      BY <1>3, <1>5
    <3>2. note.action = "Approved Step" /\ note.step = n /\ note.by = me.user
      BY DEF Note
    <3> HIDE DEF s, note
    <3> QED
      BY <3>1, <3>2
  <2> HIDE DEF s
  <2>5. /\ i \in DOMAIN history'[r] /\ history'[r][i].action = "Approved Step"
        /\ history'[r][i].step = n /\ MaySign(history'[r][i].by, n)
    BY <2>1, <2>2, <2>3, <2>4
  <2> QED
    BY <1>4, <1>5, <2>5 DEF SignedBy, Written, MaySign
<1>6. PICK q \in Requests, v \in Request, z \in Seq(Entry), k \in Nat :
        q = r /\ v = new /\ z = s /\ k = me.seen.step
  BY <1>1, <1>2, <1>3 DEF Task, Request
<1>7. /\ v.status # Missing /\ v.step \in StepNumbers
      /\ req' = [req EXCEPT ![q] = v] /\ history' = [history EXCEPT ![q] = @ \o z]
  <2> HIDE DEF me, row, new, s
  <2> QED
    BY <1>2, <1>4, <1>6
<1>8. ASSUME NotRedefined, NoGap, \A n : SignedBy(q, n) => SignedBy(q, n)'
      PROVE  /\ v.step \in DOMAIN chain /\ SignedBefore(q, v.step)'
             /\ v.status = "Approved" => \A n \in DOMAIN chain : SignedBy(q, n)'
  <2>1. /\ row.step \in DOMAIN chain /\ SignedBefore(q, row.step)
        /\ row.status = "Approved" => \A n \in DOMAIN chain : SignedBy(q, n)
    BY <1>1, <1>6, <1>8 DEF IInv, Progress
  <2>2. k \in DOMAIN chain /\ SignedBefore(q, k)
    BY <1>1, <1>6, <1>8 DEF IInv, Progress
  <2>3. me.op = "approve" => me.last = LastStep(k)
    BY <1>1, <1>6, <1>8 DEF IInv, Progress
  <2>4. me.op = "approve" => SignedBy(q, k)'
    BY <1>5, <1>6, <1>8
  <2>5. PICK top \in Nat : DOMAIN chain = 1..top
    BY <1>8, StepNumbersNat DEF NoGap
  <2>6. me.last \in BOOLEAN
    BY <1>1 DEF Task
  <2> HIDE DEF me, row, new, s, r
  <2>7. CASE me.op = "approve" /\ ~ me.last
    <3>1. v.step = k + 1 /\ k + 1 \in DOMAIN chain
      BY <1>2, <1>6, <2>3, <2>7 DEF LastStep
    <3>2. ASSUME NEW n \in 1..k PROVE SignedBy(q, n)'
      <4>1. n = k \/ n \in 1..k - 1
        BY <1>6
      <4> QED
        BY <1>8, <2>2, <2>4, <2>7, <4>1 DEF SignedBefore
    <3>3. 1..(k + 1) - 1 = 1..k
      BY <1>6
    <3>4. SignedBefore(q, v.step)'
      BY <3>1, <3>2, <3>3 DEF SignedBefore
    <3>5. v.status = "Approved" => row.status = "Approved"
      BY <1>2, <1>6, <2>7
    <3> QED
      BY <1>8, <2>1, <3>1, <3>4, <3>5
  <2>8. CASE me.op = "approve" /\ me.last
    <3>1. k = top
      <4>1. LastStep(k)
        BY <2>3, <2>8
      <4> QED
        BY <1>6, <2>2, <2>5, <4>1 DEF LastStep
    <3>2. ASSUME NEW n \in DOMAIN chain PROVE SignedBy(q, n)'
      <4>1. n = k \/ n \in 1..k - 1
        BY <2>5, <3>1
      <4> QED
        BY <1>8, <2>2, <2>4, <2>8, <4>1 DEF SignedBefore
    <3>3. v.step = row.step
      BY <1>2, <1>6, <2>8
    <3>4. SignedBefore(q, v.step)'
      BY <1>8, <2>1, <3>3 DEF SignedBefore
    <3> QED
      BY <2>1, <3>2, <3>3, <3>4
  <2>9. CASE me.op # "approve"
    <3>1. v.step = row.step /\ (v.status = "Approved" => row.status = "Approved")
      BY <1>2, <1>6, <2>9
    <3>2. SignedBefore(q, v.step)'
      BY <1>8, <2>1, <3>1 DEF SignedBefore
    <3> QED
      BY <1>8, <2>1, <3>1, <3>2
  <2> QED
    BY <2>6, <2>7, <2>8, <2>9
<1> HIDE DEF me, row, new, s, r
<1> QED
  BY <1>4, <1>7, <1>8, CommitStep

\* A request starts at the first step.
LEMMA CommitStartStep ==
  ASSUME IInv, NEW t \in Tasks, CommitStart(t)
  PROVE  IInv'
<1> DEFINE me == task[t]
           r == me.r
           new == [status |-> "Pending", step |-> 1, entity |-> me.entity, by |-> me.user]
           s == <<[step |-> 1, action |-> "Submitting", by |-> me.user]>>
<1>1. /\ me \in Task /\ me.op = "start" /\ r \in Requests /\ me.user \in Users
      /\ me.entity \in Entities /\ req[r].status = Missing /\ me.pc = "commit"
  BY DEF IInv, TypeOK, Known, CommitStart, At
<1>2. new \in Request /\ 1 \in StepNumbers /\ s \in Seq(Entry) /\ new.status # Missing
  <2>1. [step |-> 1, action |-> "Submitting", by |-> me.user] \in Entry
    BY <1>1 DEF Entry, Actions
  <2> QED
    BY <1>1, <2>1 DEF Request, StepNumbers, Missing
<1>3. /\ req' = [req EXCEPT ![r] = new] /\ history' = [history EXCEPT ![r] = s]
      /\ Finish(t) /\ UNCHANGED <<chain, scenario>>
  BY DEF CommitStart
<1>4. /\ \A u \in Tasks : task'[u] = IF u = t THEN Resting ELSE task[u]
      /\ \A q \in Requests : req'[q] = IF q = r THEN new ELSE req[q]
      /\ \A q \in Requests : history'[q] = IF q = r THEN s ELSE history[q]
      /\ Resting \in Task /\ Resting.pc = "idle" /\ Resting.op = Missing
  BY <1>3 DEF IInv, TypeOK, Finish, Resting, Task, Unborn, Request
<1>5. new.status = "Pending" /\ new.step = 1 /\ chain' = chain
  BY <1>3
<1> HIDE DEF new, s
<1>6. TypeOK' /\ Fixed'
  BY <1>2, <1>3, <1>4, <1>5 DEF IInv, TypeOK, Fixed, Finish
<1>7. Known'
  BY <1>1, <1>2, <1>4 DEF IInv, Known, Missing
<1>8. ASSUME NotRedefined', NoGap' PROVE Progress'
  <2>1. NotRedefined /\ NoGap
    BY <1>3, <1>8 DEF NotRedefined, NoGap
  <2>2. Progress
    BY <2>1 DEF IInv
  <2>3. ASSUME NEW q \in Requests, q # r, NEW n PROVE SignedBy(q, n)' <=> SignedBy(q, n)
    <3>1. history'[q] = history[q]
      BY <1>4, <2>3
    <3> QED
      BY <1>5, <3>1 DEF SignedBy, Written, MaySign
  <2>4. ASSUME NEW q \in Requests, q # r, NEW n PROVE SignedBefore(q, n)' <=> SignedBefore(q, n)
    BY <2>3, <2>4 DEF SignedBefore
  <2>5. ASSUME NEW q \in Requests, req'[q].status # Missing
        PROVE  (/\ req[q].step \in DOMAIN chain /\ SignedBefore(q, req[q].step)
                /\ req[q].status = "Approved" => \A n \in DOMAIN chain : SignedBy(q, n))'
    <3>1. CASE q = r
      <4>1. req'[q] = new
        BY <1>4, <3>1
      <4>2. 1 \in DOMAIN chain
        <5>1. DOMAIN chain # {}
          BY <1>1, <2>2 DEF Progress
        <5> QED
          BY <2>1, <5>1, StepNumbersNat DEF NoGap
      <4>3. \A n \in 1..1 - 1 : FALSE
        OBVIOUS
      <4> QED
        BY <1>5, <4>1, <4>2, <4>3 DEF SignedBefore
    <3>2. CASE q # r
      <4>1. req'[q] = req[q]
        BY <1>4, <3>2
      <4>2. /\ req[q].step \in DOMAIN chain /\ SignedBefore(q, req[q].step)
            /\ req[q].status = "Approved" => \A n \in DOMAIN chain : SignedBy(q, n)
        BY <2>2, <2>5, <4>1 DEF Progress
      <4>3. PICK n : n = req[q].step
        OBVIOUS
      <4>4. SignedBefore(q, n)'
        BY <2>4, <3>2, <4>2, <4>3
      <4>5. SignedBefore(q, req[q].step)'
        BY <4>1, <4>3, <4>4 DEF SignedBefore
      <4> QED
        BY <1>5, <2>3, <3>2, <4>1, <4>2, <4>5
    <3> QED
      BY <3>1, <3>2
  <2>6. ASSUME NEW u \in Tasks
        PROVE  (LET w == task[u] IN
          /\ w.pc \in {"step", "next", "commit"} /\ w.op # "start" =>
               w.seen.step \in DOMAIN chain /\ SignedBefore(w.r, w.seen.step)
          /\ w.pc \in {"next", "commit"} /\ w.op = "approve" => MaySign(w.user, w.seen.step)
          /\ w.pc = "commit" /\ w.op = "approve" => w.last = LastStep(w.seen.step)
          /\ w.pc # "idle" /\ w.op = "start" => DOMAIN chain # {})'
    <3>1. CASE u = t
      BY <1>4, <3>1 DEF Missing
    <3>2. CASE u # t
      <4>1. task'[u] = task[u]
        BY <1>4, <3>2
      <4>2. ASSUME task[u].pc \in {"step", "next", "commit"}, task[u].op # "start"
            PROVE  /\ task[u].seen.step \in DOMAIN chain
                   /\ SignedBefore(task[u].r, task[u].seen.step)'
        <5>1. /\ task[u].seen.step \in DOMAIN chain /\ SignedBefore(task[u].r, task[u].seen.step)
              /\ task[u].r \in Requests /\ req[task[u].r].status # Missing
          BY <4>2, <2>2 DEF IInv, Known, Progress
        <5>2. PICK q \in Requests : q = task[u].r
          BY <5>1
        <5>3. PICK n : n = task[u].seen.step
          OBVIOUS
        <5>4. q # r
          BY <1>1, <5>1, <5>2
        <5>5. SignedBefore(q, n)'
          BY <2>4, <5>1, <5>2, <5>3, <5>4
        <5> QED
          BY <4>1, <5>1, <5>2, <5>3, <5>5 DEF SignedBefore
      <4>3. /\ task[u].pc \in {"next", "commit"} /\ task[u].op = "approve" =>
                 MaySign(task[u].user, task[u].seen.step)
            /\ task[u].pc = "commit" /\ task[u].op = "approve" =>
                 task[u].last = LastStep(task[u].seen.step)
            /\ task[u].pc # "idle" /\ task[u].op = "start" => DOMAIN chain # {}
        BY <2>2 DEF Progress
      <4> QED
        BY <1>5, <4>1, <4>2, <4>3 DEF MaySign, LastStep
    <3> QED
      BY <3>1, <3>2
  <2> QED
    BY <2>5, <2>6 DEF Progress
<1> QED
  BY <1>6, <1>7, <1>8 DEF IInv

\* A workflow is redefined only in a behaviour that has several.
LEMMA RedefineStep ==
  ASSUME IInv, Redefine
  PROVE  IInv'
<1>1. chain' \in scenario.chains \ {chain} /\ UNCHANGED <<req, history, task, scenario>>
  BY DEF Redefine
<1>2. chain' \in Chains
  BY <1>1, ApprovalAssumption DEF IInv, TypeOK, Scenario
<1>3. TypeOK' /\ Fixed'
  BY <1>1, <1>2 DEF IInv, TypeOK, Fixed
<1>4. Known'
  BY <1>1 DEF IInv, Known
<1>5. ~ NotRedefined'
  BY <1>1 DEF IInv, Fixed, NotRedefined
<1> QED
  BY <1>3, <1>4, <1>5 DEF IInv

\* Every step keeps the invariant.
LEMMA NextIInv == IInv /\ [Next]_vars => IInv'
<1> SUFFICES ASSUME IInv, [Next]_vars PROVE IInv'
  OBVIOUS
<1>1. CASE Redefine
  BY <1>1, RedefineStep
<1>2. ASSUME NEW t \in Tasks, Step(t) PROVE IInv'
  <2>1. CASE BeginStart(t) \/ Begin(t)
    BY <2>1, BeginStep
  <2>2. CASE CheckUnique(t)
    BY <2>2, CheckUniqueStep
  <2>3. CASE ReadRequest(t)
    BY <2>3, ReadRequestStep
  <2>4. CASE ReadStep(t)
    BY <2>4, ReadStepStep
  <2>5. CASE ReadNext(t)
    BY <2>5, ReadNextStep
  <2>6. CASE Commit(t)
    BY <2>6, CommitDecisionStep
  <2>7. CASE CommitStart(t)
    BY <2>7, CommitStartStep
  <2>8. CASE Abandon(t)
    BY <2>8, FinishStep DEF Abandon
  <2> QED
    BY <1>2, <2>1, <2>2, <2>3, <2>4, <2>5, <2>6, <2>7, <2>8 DEF Step
<1>3. CASE UNCHANGED vars
  <2>1. UNCHANGED <<chain, req, history, task, scenario>>
    BY <1>3 DEF vars
  <2>2. (TypeOK /\ Known /\ Fixed)'
    BY <2>1 DEF IInv, TypeOK, Known, Fixed
  <2>3. (NotRedefined' /\ NoGap') = (NotRedefined /\ NoGap)
    BY <2>1 DEF NotRedefined, NoGap
  <2>4. Progress' = Progress
    BY <2>1 DEF Progress, SignedBefore, SignedBy, Written, MaySign, LastStep
  <2> QED
    BY <2>2, <2>3, <2>4 DEF IInv
<1> QED
  BY <1>1, <1>2, <1>3 DEF Next

----------------------------------------------------------------------------

\* Requests, their history and the handlers keep their types; a request is at
\* a number some workflow gives a step (approve_step, start_workflow).
THEOREM TypeCorrect == Spec => []TypeOK
<1>1. IInv => TypeOK
  BY DEF IInv
<1> QED
  BY <1>1, InitIInv, NextIInv, PTL DEF Spec

\* Nobody gets a document approved without every step of its workflow being
\* signed by someone who holds that step's role, for any workflow whose steps
\* are numbered without a gap and which is not redefined, and for any number
\* of deciders at once (approve_step, _user_has_role, get_step_by_number).
THEOREM StepsSigned == Spec => []EveryStepSigned
<1>1. IInv => EveryStepSigned
  BY DEF IInv, Progress, SignedBy, EveryStepSigned, Missing
<1> QED
  BY <1>1, InitIInv, NextIInv, PTL DEF Spec

----------------------------------------------------------------------------
(* Dashboards *)

KpiNames == {"revenue", "expenses", "sales"}

\* An answer that is kept was read in a minute that has come.
CachedPast == \A c \in cached : c.made \in Nat /\ c.made <= clock

\* What a request being answered has: read now, or kept for less than the
\* lifetime of what it asks for; only some are committed by a task.
Printed(p) ==
  /\ DOMAIN p = {"name", "dated", "keeps", "next", "done", "again", "key", "made", "since",
                 "upto", "figures"}
  /\ p.dated \in BOOLEAN /\ p.key = Boards!KeyOf(p.name, p.dated)
  /\ p.made \in Nat /\ p.made <= clock
  /\ p.again => clock < p.made + Boards!Lifetime(p.name)
  /\ ~ p.again => p.made = clock
  /\ p.keeps => p.name = "summary" \/ p.name \in KpiNames

BoardInv ==
  /\ clock \in Nat /\ CachedPast
  /\ ~ Boards!Idle => Printed(printed)
  /\ \A k \in kept : k.at < k.made + Boards!Lifetime("summary")

\* How long an answer is kept; those of the KPIs are not.
LEMMA Lifetimes ==
  /\ Boards!Lifetime("summary") = 5
  /\ DOMAIN Boards!Kpi = KpiNames /\ \A name \in KpiNames : Boards!Lifetime(name) = 0
<1>1. "summary" \notin Boards!Boards
  BY DEF Boards!Boards
<1>2. DOMAIN Boards!Kpi = KpiNames
  BY DEF Boards!Kpi, KpiNames
<1>3. \A name \in KpiNames : name \notin Boards!Boards /\ name # "summary"
  BY DEF Boards!Boards, KpiNames
<1>4. ASSUME NEW name
      PROVE  Boards!Lifetime(name) = IF name \in Boards!Boards THEN 3 ELSE IF name = "summary" THEN 5 ELSE 0
  BY <1>1 DEF Boards!Lifetime
<1> QED
  BY <1>1, <1>2, <1>3, <1>4

\* A request begins: what is fresh is given again.
LEMMA BoardAsk ==
  ASSUME BoardInv, NEW name, NEW dated \in BOOLEAN, Boards!Ask(name, dated)
  PROVE  BoardInv'
<1>1. /\ clock' = clock /\ cached' = cached /\ kept' = kept
      /\ \E keeps \in IF name \in DOMAIN Boards!Kpi THEN {TRUE}
                      ELSE IF name = "summary" /\ ~ dated THEN BOOLEAN ELSE {FALSE} :
           LET known == {c \in cached : c.key = Boards!KeyOf(name, dated) /\ Boards!Fresh(c)}
               begun == Boards!Printing(name, dated, keeps)
           IN printed' = IF known = {} THEN begun ELSE Boards!Again(begun, CHOOSE c \in known : TRUE)
  BY DEF Boards!Ask
<1>2. PICK keeps \in IF name \in DOMAIN Boards!Kpi THEN {TRUE}
                     ELSE IF name = "summary" /\ ~ dated THEN BOOLEAN ELSE {FALSE} :
        \/ printed' = Boards!Printing(name, dated, keeps)
        \/ \E c \in cached : /\ c.key = Boards!KeyOf(name, dated) /\ Boards!Fresh(c)
                             /\ printed' = Boards!Again(Boards!Printing(name, dated, keeps), c)
  <2>1. PICK keeps \in IF name \in DOMAIN Boards!Kpi THEN {TRUE}
                       ELSE IF name = "summary" /\ ~ dated THEN BOOLEAN ELSE {FALSE} :
          LET known == {c \in cached : c.key = Boards!KeyOf(name, dated) /\ Boards!Fresh(c)}
              begun == Boards!Printing(name, dated, keeps)
          IN printed' = IF known = {} THEN begun ELSE Boards!Again(begun, CHOOSE c \in known : TRUE)
    BY <1>1
  <2> QED
    BY <2>1
<1>3. keeps => name = "summary" \/ name \in KpiNames
  BY <1>2, Lifetimes
<1>4. clock \in Nat
  BY DEF BoardInv
<1>5. CASE printed' = Boards!Printing(name, dated, keeps)
  <2>1. /\ DOMAIN printed' = {"name", "dated", "keeps", "next", "done", "again", "key", "made",
                             "since", "upto", "figures"}
        /\ printed'.name = name /\ printed'.dated = dated /\ printed'.keeps = keeps
        /\ printed'.key = Boards!KeyOf(name, dated) /\ printed'.made = clock
        /\ printed'.again = FALSE
    BY <1>5 DEF Boards!Printing
  <2>2. Printed(printed)'
    BY <1>1, <1>3, <1>4, <2>1 DEF Printed
  <2> QED
    BY <1>1, <2>2 DEF BoardInv, CachedPast
<1>6. ASSUME NEW c \in cached, c.key = Boards!KeyOf(name, dated), Boards!Fresh(c),
             printed' = Boards!Again(Boards!Printing(name, dated, keeps), c)
      PROVE  BoardInv'
  <2>1. c.made \in Nat /\ c.made <= clock
    BY DEF BoardInv, CachedPast
  <2>2. clock < c.made + Boards!Lifetime(name)
    BY <1>6 DEF Boards!Fresh, Boards!KeyOf
  <2>3. Printed(printed)'
    BY <1>1, <1>3, <1>6, <2>1, <2>2 DEF Printed, Boards!Printing, Boards!Again
  <2> QED
    BY <1>1, <2>3 DEF BoardInv, CachedPast
<1> QED
  BY <1>2, <1>5, <1>6

\* A request ends: what was read now is kept, and committed by a task.
LEMMA BoardAnswer == ASSUME BoardInv, Boards!Answer PROVE BoardInv'
<1>1. /\ Printed(printed) /\ clock \in Nat /\ clock' = clock /\ printed' = None
      /\ \A k \in kept : k.at < k.made + Boards!Lifetime("summary")
  BY DEF Boards!Answer, BoardInv
<1>2. CachedPast'
  BY <1>1 DEF Boards!Answer, BoardInv, CachedPast, Printed
<1>3. printed.keeps => clock < printed.made + Boards!Lifetime("summary")
  BY <1>1, Lifetimes DEF Printed
<1>4. \A k \in kept' : k.at < k.made + Boards!Lifetime("summary")
  BY <1>1, <1>3 DEF Boards!Answer
<1> QED
  BY <1>1, <1>2, <1>4 DEF BoardInv, Boards!Idle

\* Every step of the reports keeps the invariant.
LEMMA BoardNext == ASSUME BoardInv, [Boards!Next]_(Boards!vars) PROVE BoardInv'
<1>1. ASSUME NEW name, NEW dated \in IF asked.dates THEN BOOLEAN ELSE {FALSE}, Boards!Ask(name, dated)
      PROVE  BoardInv'
  <2>1. dated \in BOOLEAN
    OBVIOUS
  <2> QED
    BY <1>1, <2>1, BoardAsk
<1>2. CASE Boards!Read
  <2>1. /\ Printed(printed) /\ clock' = clock /\ cached' = cached /\ kept' = kept
        /\ \E f, n, m, d : printed' = [printed EXCEPT !.figures = f, !.next = n, !.upto = m, !.done = d]
    BY <1>2 DEF Boards!Read, BoardInv
  <2>2. Printed(printed)'
    BY <2>1 DEF Printed
  <2> QED
    BY <2>1, <2>2 DEF BoardInv, CachedPast
<1>3. CASE Boards!Tick
  <2>1. clock \in Nat /\ clock' = clock + 1 /\ cached' = cached /\ kept' = kept /\ printed' = printed
        /\ printed = None
    BY <1>3 DEF Boards!Tick, Boards!Idle, BoardInv
  <2> QED
    BY <2>1 DEF BoardInv, CachedPast, Boards!Idle
<1>4. ASSUME UNCHANGED <<clock, printed, cached, kept>> PROVE BoardInv'
  BY <1>4 DEF BoardInv, CachedPast, Boards!Idle, Printed
<1>5. ASSUME NEW i, NEW row, Boards!Commit(i, row) PROVE BoardInv'
  BY <1>4, <1>5 DEF Boards!Commit
<1>6. CASE UNCHANGED Boards!vars
  BY <1>4, <1>6 DEF Boards!vars
<1> QED
  BY <1>1, <1>2, <1>3, <1>5, <1>6, BoardAnswer DEF Boards!Next

\* No dashboard is older than its time to live, and none is of other dates than
\* those asked for, nor does a task commit a snapshot older than that
\* (get_dashboard_by_type, get_dashboard_summary, generate_analytics_snapshot).
THEOREM RecentDashboards == Boards!Spec => []DashboardsAreRecent
<1>1. Boards!Init => BoardInv
  BY DEF Boards!Init, BoardInv, CachedPast, Boards!Idle
<1>2. BoardInv /\ [Boards!Next]_(Boards!vars) => BoardInv'
  BY BoardNext
<1>3. BoardInv => DashboardsAreRecent
  <2> SUFFICES ASSUME BoardInv PROVE Boards!DashboardsAreRecent
    BY DEF DashboardsAreRecent
  <2>1. ASSUME ~ Boards!Idle
        PROVE  /\ printed.again => clock < printed.made + Boards!Lifetime(printed.name)
               /\ ~ printed.again => printed.made = clock
               /\ printed.name = "summary" => printed.key[2] = printed.dated
    <3>1. Printed(printed)
      BY <2>1 DEF BoardInv
    <3>2. "summary" \notin Boards!Boards
      BY DEF Boards!Boards
    <3>3. printed.name = "summary" => printed.key[2] = printed.dated
      BY <3>1, <3>2 DEF Printed, Boards!KeyOf
    <3> QED
      BY <3>1, <3>3 DEF Printed
  <2> QED
    BY <2>1 DEF BoardInv, Boards!DashboardsAreRecent
<1> QED
  BY <1>1, <1>2, <1>3, PTL DEF Boards!Spec

=============================================================================
