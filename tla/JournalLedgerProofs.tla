-------------------------- MODULE JournalLedgerProofs --------------------------
(***************************************************************************)
(* Proofs about JournalLedger for any finite sets of handlers, journals    *)
(* and accounts, any periods, lines and scenarios; in the last sections,   *)
(* about FinanceDocuments, whose documents post to the ledger.             *)
(***************************************************************************)
EXTENDS LedgerAndDocuments, Sums, SequenceTheorems

Busy(t) == task[t].pc # "idle"
Writing == {"create", "entry", "update"}
Deciding == {"update", "post", "reverse", "cancel", "delete"}
PeriodOps == {"lock", "unlock", "close"}
AccountOps == {"drop", "retype"}

\* Line sets whose debits equal their credits.
Zero(body) == Sum(body, Accounts) = 0
ZeroLines(lines) == IsFiniteSet(lines) /\ \A b \in lines : Zero(b.body)

\* What a handler was given, has checked and has read.
Known(me) ==
  /\ me.pc # "idle" => me.op \in AllOps
  /\ me.pc # "idle" /\ me.op \in Writing \cup Deciding => me.j \in Journals
  /\ me.pc # "idle" /\ me.op \in Writing \cup PeriodOps => me.period \in Periods
  /\ me.pc # "idle" /\ me.op \in AccountOps => me.account \in Accounts
  /\ me.pc # "idle" /\ me.op = "retype" => me.new \in Kind
  /\ me.pc = "check" => me.op \in {"create", "entry"}
  /\ me.pc = "validate" => me.op \in {"update", "post"}
  /\ me.pc = "header" => me.op \in {"create", "reverse"}
  /\ me.pc \in {"header", "commit"} /\ me.op \in Writing => Balanced(me.body)
  /\ me.pc = "commit" /\ me.op = "reverse" => me.r \in Journals
  /\ ZeroLines(me.seen.lines)

AllBalanced == \A j \in Journals : ZeroLines(journal[j].lines)

\* A journal has one reversal.
OneReversal ==
  \A q, r \in Journals : journal[q].reverses = journal[r].reverses /\ journal[q].reverses # Missing =>
    q = r

Alone == \A t, u \in Tasks : Busy(t) /\ Busy(u) => t = u

\* The row of a journal, handled one at a time.
Shaped(row) ==
  /\ row.status = Missing => row = Blank
  /\ row.status \in {"Draft", "PendingApproval"} => ~ row.posted
  /\ row.status = "Posted" => row.posted /\ ~ row.deleted
  /\ \A b \in row.lines :
       row.lines = {b} /\ (row.reverses = Missing => row.total = Debits(b.body))
  /\ row.posted /\ row.reverses = Missing => row.lines # {}
  /\ row.status = "Posted" => Touched(row.lines) \cap dropped = {}

\* What a handler has read still holds when no other is under way.
Ready(me) ==
  /\ me.pc = "check" => journal[me.j].status = Missing
  /\ me.pc # "idle" /\ me.op \in Deciding => journal[me.j].status # Missing
  /\ me.pc \in {"header", "commit"} /\ me.op \in {"create", "entry"} =>
       /\ me.bal = balance /\ me.kinds = kind /\ ~ Barred(me.period) /\ Live(me.body)
       /\ me.pc = "header" \/ me.op = "entry" => journal[me.j].status = Missing
  /\ me.pc = "commit" /\ me.op = "create" =>
       LET row == journal[me.j] IN
       row.status \in {"Draft", "PendingApproval"} /\ row.lines = {} /\ row.total = Debits(me.body)
  /\ me.pc \in {"validate", "header", "commit"} /\ me.op \in Deciding =>
       /\ me.seen = journal[me.j] /\ me.bal = balance /\ me.kinds = kind /\ ~ me.seen.deleted
       /\ me.op = "post" => Postable(me.seen)
       /\ me.op # "post" => Alterable(me.op, me.seen)
       /\ me.op \in {"post", "reverse"} => ~ Barred(me.seen.period)
  /\ me.pc = "commit" /\ me.op = "post" => Touched(me.seen.lines) \cap dropped = {}
  /\ me.pc = "commit" /\ me.op = "reverse" =>
       LET row == journal[me.r] IN
       me.r # me.j /\ row.lines = {} /\ row.posted /\ row.status = "Posted" /\ row.reverses # Missing
  /\ me.pc = "commit" /\ me.op = "drop" => MayDrop(me.account)

\* What a journal puts on an account, once it is posted; a balance is the sum,
\* but for accounts that changed sides while they had one.
Worth(row, a) == IF row.posted THEN Normal(a, Net(row.lines, a)) ELSE 0
Books ==
  \A a \in Accounts \ turned : balance[a] = Sum([j \in Journals |-> Worth(journal[j], a)], Journals)

Orderly ==
  /\ Alone /\ Books
  /\ \A j \in Journals : Shaped(journal[j])
  /\ \A t \in Tasks : Ready(task[t])

IInv ==
  /\ TypeOK /\ AllBalanced /\ OneReversal
  /\ \A t \in Tasks : Known(task[t])
  /\ OneAtATime => Orderly

----------------------------------------------------------------------------
(* Lines and sums *)

\* The sums of the model are those of Sums.
LEMMA SumIs == \A f, S : Sum(f, S) = SumOver(f, S)
BY DEF Sum, SumOver

\* The accounts are finitely many.
LEMMA FiniteAccounts == IsFiniteSet(Accounts)
BY LedgerAssumption

\* The debits and credits of typed lines are amounts, and differ by their sum.
LEMMA DebitsLessCredits ==
  ASSUME NEW body \in [Accounts -> Int]
  PROVE  /\ Debits(body) \in Nat /\ Credits(body) \in Nat
         /\ Sum(body, Accounts) = Debits(body) - Credits(body)
<1> DEFINE d == [a \in Accounts |-> IF body[a] > 0 THEN body[a] ELSE 0]
           c == [a \in Accounts |-> IF body[a] < 0 THEN - body[a] ELSE 0]
<1>1. IsFiniteSet(Accounts)
  BY LedgerAssumption
<1>2. \A a \in Accounts : d[a] \in Nat /\ c[a] \in Nat /\ body[a] \in Int /\ d[a] = body[a] + c[a]
  OBVIOUS
<1>3. Debits(body) = SumOver(d, Accounts) /\ Credits(body) = SumOver(c, Accounts)
  BY SumIs DEF Debits, Credits
<1> HIDE DEF c, d
<1>4. SumOver(d, Accounts) \in Nat /\ SumOver(c, Accounts) \in Nat
  BY <1>1, <1>2, SumNat
<1>5. SumOver(d, Accounts) = SumOver(body, Accounts) + SumOver(c, Accounts)
  BY <1>1, <1>2, SumPlus
<1>6. SumOver(body, Accounts) \in Int
  BY <1>1, <1>2, SumInt
<1> QED
  BY <1>3, <1>4, <1>5, <1>6, SumIs

\* Lines that pass the check sum to zero (create_journal, update_journal).
LEMMA BalancedZero ==
  ASSUME NEW body \in [Accounts -> Int], Balanced(body)
  PROVE  Zero(body)
BY DebitsLessCredits DEF Balanced, Zero

\* What finitely many line sets put on an account is a number.
LEMMA NetInt ==
  ASSUME NEW lines, lines \subseteq Numbered, IsFiniteSet(lines), NEW a \in Accounts
  PROVE  Net(lines, a) \in Int /\ Normal(a, Net(lines, a)) \in Int
<1> DEFINE f == [b \in lines |-> b.body[a]]
<1>1. \A b \in lines : f[b] \in Int
  BY DEF Numbered
<1>2. Net(lines, a) = SumOver(f, lines)
  BY SumIs DEF Net
<1>3. SumOver(f, lines) \in Int
  <2> HIDE DEF f
  <2> QED
    BY <1>1, SumInt
<1> QED
  BY <1>2, <1>3 DEF Normal, Signed

\* No line set leaves an account as it is.
LEMMA NetNothing == \A a : Net({}, a) = 0
BY SumIs, SumEmpty DEF Net

\* Lines that do not touch an account put nothing on it.
LEMMA NetUntouched ==
  ASSUME NEW lines, IsFiniteSet(lines), NEW a \in Accounts, a \notin Touched(lines)
  PROVE  Net(lines, a) = 0
<1> DEFINE f == [b \in lines |-> b.body[a]]
<1>1. \A b \in lines : f[b] = 0
  BY DEF Touched
<1>2. Net(lines, a) = SumOver(f, lines)
  BY SumIs DEF Net
<1> HIDE DEF f
<1> QED
  BY <1>1, <1>2, SumZero

\* A new line set has a positive number and keeps what is checked of its body.
LEMMA NewLinesZero ==
  ASSUME TypeOK, AllBalanced, \A u \in Tasks : Known(task[u]),
         NEW j \in Journals, NEW body \in [Accounts -> Int], Balanced(body)
  PROVE  /\ NewLines(j, body) \subseteq Numbered /\ ZeroLines(NewLines(j, body))
         /\ \E b \in Numbered : NewLines(j, body) = {b} /\ b.body = body
<1> DEFINE T == {v \in Tasks : task[v].j = j}
           L == {task[u].seen.lines : u \in T}
           all == journal[j].lines \cup UNION L
           used == {b.no : b \in all}
<1>1. IsFiniteSet(used)
  <2>1. IsFiniteSet(T)
    BY LedgerAssumption, FS_Subset
  <2>2. IsFiniteSet(L)
    <3> DEFINE f == [u \in T |-> task[u].seen.lines]
    <3>1. L = {f[u] : u \in T}
      OBVIOUS
    <3> HIDE DEF L, f
    <3> QED
      BY <2>1, <3>1, FiniteImage
  <2>3. \A l \in L : IsFiniteSet(l)
    BY DEF Known, ZeroLines
  <2>4. IsFiniteSet(UNION L)
    <3> HIDE DEF L
    <3> QED
      BY <2>2, <2>3, FS_UNION
  <2>5. IsFiniteSet(all)
    <3> HIDE DEF L
    <3> QED
      BY <2>4, FS_Union DEF AllBalanced, ZeroLines
  <2> DEFINE f == [b \in all |-> b.no]
  <2>6. used = {f[b] : b \in all}
    OBVIOUS
  <2> HIDE DEF all, f, used
  <2> QED
    BY <2>5, <2>6, FiniteImage
<1> HIDE DEF used
<1>2. PICK n \in 1..Cardinality(used) + 1 : n \notin used
  <2>1. Cardinality(used) \in Nat
    BY <1>1, FS_CardinalityType
  <2>2. IsFiniteSet(1..Cardinality(used) + 1)
        /\ Cardinality(1..Cardinality(used) + 1) = Cardinality(used) + 1
    BY <2>1, FS_Interval
  <2>3. ~ (1..Cardinality(used) + 1 \subseteq used)
    BY <1>1, <2>1, <2>2, FS_Subset
  <2> QED
    BY <2>3
<1>3. NewNo(j) \in 1..Cardinality(used) + 1
  BY <1>2 DEF NewNo, used
<1>4. Cardinality(used) \in Nat
  BY <1>1, FS_CardinalityType
<1>5. [no |-> NewNo(j), body |-> body] \in Numbered
  BY <1>3, <1>4 DEF Numbered
<1>6. IsFiniteSet(NewLines(j, body)) /\ Zero(body)
  BY FS_Singleton, BalancedZero DEF NewLines
<1> QED
  BY <1>5, <1>6 DEF NewLines, ZeroLines

\* Swapping debits and credits keeps lines typed, balanced and where they were.
LEMMA SwappedZero ==
  ASSUME NEW lines, lines \subseteq Numbered, ZeroLines(lines)
  PROVE  /\ Swapped(lines) \subseteq Numbered /\ ZeroLines(Swapped(lines))
         /\ Touched(Swapped(lines)) = Touched(lines)
<1> DEFINE S(b) == [b EXCEPT !.body = [a \in Accounts |-> - b.body[a]]]
<1>1. Swapped(lines) = {S(b) : b \in lines}
  BY DEF Swapped
<1>2. IsFiniteSet({S(b) : b \in lines})
  <2> DEFINE f == [b \in lines |-> S(b)]
  <2>1. {S(b) : b \in lines} = {f[b] : b \in lines} /\ IsFiniteSet(lines)
    BY DEF ZeroLines
  <2> HIDE DEF S, f
  <2> QED
    BY <2>1, FiniteImage
<1>3. ASSUME NEW b \in lines
      PROVE  S(b) \in Numbered /\ S(b).body = [a \in Accounts |-> - b.body[a]] /\ Zero(S(b).body)
  <2>1. b \in Numbered /\ \A a \in Accounts : b.body[a] \in Int
    BY DEF Numbered
  <2>2. S(b) \in Numbered /\ S(b).body = [a \in Accounts |-> - b.body[a]]
    BY <2>1 DEF Numbered
  <2> DEFINE f == b.body  g == [a \in Accounts |-> - f[a]]  z == [a \in Accounts |-> 0]
  <2>3. \A a \in Accounts : f[a] \in Int /\ g[a] \in Int /\ z[a] = f[a] + g[a] /\ z[a] = 0
    BY <2>1
  <2>4. SumOver(f, Accounts) = 0
    BY SumIs DEF ZeroLines, Zero
  <2> HIDE DEF f, g, z
  <2>5. SumOver(z, Accounts) = SumOver(f, Accounts) + SumOver(g, Accounts)
    BY <2>3, LedgerAssumption, SumPlus
  <2>6. SumOver(z, Accounts) = 0 /\ SumOver(g, Accounts) \in Int
    BY <2>3, LedgerAssumption, SumZero, SumInt
  <2>7. SumOver(g, Accounts) = 0
    BY <2>4, <2>5, <2>6
  <2> USE DEF f, g
  <2> HIDE DEF S
  <2> QED
    BY <2>2, <2>7, SumIs DEF Zero
<1>4. Touched({S(b) : b \in lines}) = Touched(lines)
  <2>1. \A b \in lines, a \in Accounts : b.body[a] \in Int
    BY DEF Numbered
  <2>2. \A b \in lines, a \in Accounts : S(b).body[a] # 0 <=> b.body[a] # 0
    BY <1>3, <2>1
  <2> HIDE DEF S
  <2> QED
    BY <2>2 DEF Touched
<1> HIDE DEF S
<1> QED
  BY <1>1, <1>2, <1>3, <1>4 DEF ZeroLines

----------------------------------------------------------------------------
(* Steps *)

\* A row that does not exist yet and a handler that rests are typed and in order.
LEMMA Rests ==
  /\ Blank \in Row /\ ZeroLines(Blank.lines) /\ Shaped(Blank)
  /\ Resting \in Task /\ Known(Resting) /\ Ready(Resting) /\ Resting.pc = "idle"
<1>1. ZeroLines({})
  BY FS_EmptySet DEF ZeroLines
<1>2. Blank \in Row /\ Blank.lines = {} /\ NoBody \in [Accounts -> Int]
  BY DEF Blank, Row, NoBody
<1>3. Shaped(Blank)
  BY DEF Blank, Shaped, Missing
<1>4. /\ Resting \in Task /\ Resting.pc = "idle" /\ Resting.op = Missing
      /\ Resting.seen.lines = {}
  BY <1>2, LedgerAssumption DEF Resting, Task
<1> QED
  BY <1>1, <1>2, <1>3, <1>4 DEF Known, Ready

\* Handled one at a time, a handler begins when all others rest.
LEMMA NobodyElse ==
  ASSUME TypeOK, OneAtATime, NEW t \in Tasks, MayBegin(t)
  PROVE  \A u \in Tasks : ~ Busy(u)
<1> DEFINE B == {u \in Tasks : task[u].pc # "idle"}
<1>1. IsFiniteSet(B)
  BY LedgerAssumption, FS_Subset
<1>2. Cardinality(B) < 1
  BY DEF MayBegin, OneAtATime
<1>3. Cardinality(B) \in Nat /\ (Cardinality(B) = 0 <=> B = {})
  BY <1>1, FS_CardinalityType, FS_EmptySet
<1> QED
  BY <1>2, <1>3 DEF Busy

\* Handled one at a time, nobody else is under way beside a handler.
LEMMA OthersRest ==
  ASSUME IInv, OneAtATime, NEW t \in Tasks, Busy(t)
  PROVE  \A u \in Tasks \ {t} : ~ Busy(u)
BY DEF IInv, Orderly, Alone

\* A program that starts has empty books and nobody at work.
LEMMA InitIInv == Init => IInv
<1> SUFFICES ASSUME Init PROVE IInv
  OBVIOUS
<1>1. /\ \A j \in Journals : journal[j] = Blank
      /\ \A t \in Tasks : task[t] = Resting
  BY DEF Init
<1>2. TypeOK
  BY Rests, LedgerAssumption DEF Init, TypeOK, NoBody
<1>3. AllBalanced /\ OneReversal /\ \A t \in Tasks : Known(task[t])
  <2>1. Blank.reverses = Missing
    BY DEF Blank
  <2> QED
    BY <1>1, <2>1, Rests DEF AllBalanced, OneReversal
<1>4. Alone /\ (\A j \in Journals : Shaped(journal[j])) /\ (\A t \in Tasks : Ready(task[t]))
  BY <1>1, Rests DEF Alone, Busy
<1>5. Books
  <2>1. ASSUME NEW a \in Accounts
        PROVE  balance[a] = Sum([j \in Journals |-> Worth(journal[j], a)], Journals)
    <3> DEFINE f == [j \in Journals |-> Worth(journal[j], a)]
    <3>1. \A j \in Journals : f[j] = 0
      BY <1>1 DEF Worth, Blank
    <3>2. SumOver(f, Journals) = 0
      <4> HIDE DEF f
      <4> QED
        BY <3>1, LedgerAssumption, SumZero
    <3> QED
      BY <3>2, SumIs DEF Init, NoBody
  <2> QED
    BY <2>1 DEF Books
<1> QED
  BY <1>2, <1>3, <1>4, <1>5 DEF IInv, Orderly

\* A handler that goes on, or rests, without writing.
LEMMA GoOn ==
  ASSUME IInv, NEW t \in Tasks, NEW new \in Task, task' = [task EXCEPT ![t] = new], Unwritten,
         Known(new),
         OneAtATime => /\ new.pc = "idle" \/ \A u \in Tasks \ {t} : ~ Busy(u)
                       /\ Ready(new)
  PROVE  IInv'
<1>1. UNCHANGED <<journal, balance, dropped, kind, turned, locked, closed, scenario>>
  BY DEF Unwritten
<1>2. \A u \in Tasks : task'[u] = IF u = t THEN new ELSE task[u]
  BY DEF IInv, TypeOK
<1>3. TypeOK'
  BY <1>1, <1>2 DEF IInv, TypeOK
<1>4. (AllBalanced /\ OneReversal)'
  BY <1>1 DEF IInv, AllBalanced, OneReversal
<1>5. ASSUME NEW u \in Tasks PROVE Known(task'[u])
  BY <1>2 DEF IInv
<1>6. ASSUME OneAtATime' PROVE Orderly'
  <2>1. OneAtATime /\ Orderly
    BY <1>1, <1>6 DEF OneAtATime, IInv
  <2>2. Books' /\ \A j \in Journals : Shaped(journal[j])'
    BY <1>1, <2>1 DEF Orderly, Books, Worth, Normal, Shaped
  <2>3. Alone'
    BY <1>2, <2>1 DEF Orderly, Alone, Busy
  <2>4. ASSUME NEW u \in Tasks PROVE Ready(task[u])'
    <3>1. Ready(task'[u])
      BY <1>2, <2>1 DEF Orderly
    <3> QED
      BY <1>1, <3>1 DEF Ready, MayDrop, Barred, Live
  <2> QED
    BY <2>2, <2>3, <2>4 DEF Orderly
<1> QED
  BY <1>3, <1>4, <1>5, <1>6 DEF IInv

\* A handler that ends without writing.
LEMMA FinishStep ==
  ASSUME IInv, NEW t \in Tasks, Finish(t), Unwritten
  PROVE  IInv'
BY Rests, GoOn DEF Finish

\* An arriving handler knows only what its caller gave it.
LEMMA BeginStep ==
  ASSUME IInv, NEW t \in Tasks, BeginNew(t) \/ BeginUpdate(t) \/ BeginDecision(t) \/ BeginAdmin(t)
  PROVE  IInv'
<1>1. Unwritten /\ MayBegin(t)
  BY DEF BeginNew, BeginUpdate, BeginDecision, BeginAdmin
<1>2. OneAtATime => \A u \in Tasks \ {t} : ~ Busy(u)
  BY <1>1, NobodyElse DEF IInv
<1>3. ASSUME NEW new \in Task, task' = [task EXCEPT ![t] = new], Known(new),
             new.pc = "check" => journal[new.j].status = Missing, new.pc \in {"check", "load"},
             new.op \in Deciding => journal[new.j].status # Missing
      PROVE  IInv'
  <2>1. Ready(new)
    BY <1>3 DEF Ready
  <2> QED
    BY <1>1, <1>2, <1>3, <2>1, GoOn
<1>4. Resting \in Task /\ ZeroLines(Resting.seen.lines)
  BY Rests DEF Known
<1>5. scenario.bodies \subseteq [Accounts -> Int] /\ scenario.journals \subseteq Journals
      /\ scenario.ops \subseteq AllOps
  BY LedgerAssumption DEF IInv, TypeOK, Scenario
<1>6. CASE BeginNew(t)
  <2>1. PICK op \in scenario.ops \cap {"create", "entry"}, j \in scenario.journals,
             body \in scenario.bodies, p \in Periods :
          /\ journal[j].status = Missing
          /\ \A u \in Tasks : j \notin {task[u].j, task[u].r}
          /\ task' = [task EXCEPT ![t] = [Resting EXCEPT
               !.pc = "check", !.op = op, !.j = j, !.body = body, !.period = p]]
    BY <1>6, Zenon DEF BeginNew
  <2> DEFINE new == [Resting EXCEPT
               !.pc = "check", !.op = op, !.j = j, !.body = body, !.period = p]
  <2>2. /\ new \in Task /\ new.pc = "check" /\ new.op = op /\ new.j = j /\ new.period = p
        /\ new.seen = Resting.seen
    BY <1>4, <1>5 DEF Task
  <2>3. task' = [task EXCEPT ![t] = new]
    BY <2>1
  <2> HIDE DEF new
  <2>4. Known(new)
    BY <1>4, <1>5, <2>2 DEF Known, AllOps, PeriodOps, AccountOps
  <2> QED
    BY <1>3, <2>1, <2>2, <2>3, <2>4 DEF Deciding
<1>7. CASE BeginUpdate(t)
  <2>1. PICK j \in scenario.journals, body \in scenario.bodies, p \in Periods :
          /\ journal[j].status # Missing
          /\ task' = [task EXCEPT ![t] = [Resting EXCEPT
               !.pc = "load", !.op = "update", !.j = j, !.body = body, !.period = p]]
    BY <1>7 DEF BeginUpdate
  <2> DEFINE new == [Resting EXCEPT
            !.pc = "load", !.op = "update", !.j = j, !.body = body, !.period = p]
  <2>2. /\ new \in Task /\ new.pc = "load" /\ new.op = "update" /\ new.j = j /\ new.period = p
        /\ new.seen = Resting.seen
    BY <1>4, <1>5 DEF Task, AllOps
  <2>3. task' = [task EXCEPT ![t] = new]
    BY <2>1
  <2> HIDE DEF new
  <2>4. Known(new)
    BY <1>4, <1>5, <2>2 DEF Known, AllOps, PeriodOps, AccountOps
  <2> QED
    BY <1>3, <2>1, <2>2, <2>3, <2>4
<1>8. CASE BeginDecision(t)
  <2>1. PICK op \in scenario.ops \cap {"post", "reverse", "cancel", "delete"},
             j \in scenario.journals :
          /\ journal[j].status # Missing
          /\ task' = [task EXCEPT ![t] = [Resting EXCEPT !.pc = "load", !.op = op, !.j = j]]
    BY <1>8 DEF BeginDecision
  <2> DEFINE new == [Resting EXCEPT !.pc = "load", !.op = op, !.j = j]
  <2>2. /\ new \in Task /\ new.pc = "load" /\ new.op = op /\ new.j = j
        /\ new.seen = Resting.seen
    BY <1>4, <1>5 DEF Task
  <2>3. task' = [task EXCEPT ![t] = new]
    BY <2>1
  <2> HIDE DEF new
  <2>4. Known(new)
    BY <1>4, <1>5, <2>2 DEF Known, AllOps, PeriodOps, AccountOps, Writing
  <2> QED
    BY <1>3, <2>1, <2>2, <2>3, <2>4
<1>9. CASE BeginAdmin(t)
  <2>1. CASE \E op \in scenario.ops \cap {"lock", "unlock", "close"}, p \in Periods :
          task' = [task EXCEPT ![t] = [Resting EXCEPT !.pc = "load", !.op = op, !.period = p]]
    <3>1. PICK op \in scenario.ops \cap {"lock", "unlock", "close"}, p \in Periods :
            task' = [task EXCEPT ![t] = [Resting EXCEPT !.pc = "load", !.op = op, !.period = p]]
      BY <2>1
    <3> DEFINE new == [Resting EXCEPT !.pc = "load", !.op = op, !.period = p]
    <3>2. /\ new \in Task /\ new.pc = "load" /\ new.op = op /\ new.period = p
          /\ new.seen = Resting.seen
      BY <1>4, <1>5 DEF Task
    <3>3. task' = [task EXCEPT ![t] = new]
      BY <3>1
    <3> HIDE DEF new
    <3>4. Known(new)
      BY <1>4, <1>5, <3>2 DEF Known, AllOps, PeriodOps, AccountOps, Writing, Deciding
    <3> QED
      BY <1>3, <3>1, <3>2, <3>3, <3>4 DEF Deciding
  <2>2. CASE \E a \in Accounts : "drop" \in scenario.ops /\
          task' = [task EXCEPT ![t] = [Resting EXCEPT
            !.pc = "load", !.op = "drop", !.account = a]]
    <3>1. PICK a \in Accounts :
            task' = [task EXCEPT ![t] = [Resting EXCEPT
              !.pc = "load", !.op = "drop", !.account = a]]
      BY <2>2
    <3> DEFINE new == [Resting EXCEPT !.pc = "load", !.op = "drop", !.account = a]
    <3>2. /\ new \in Task /\ new.pc = "load" /\ new.op = "drop" /\ new.account = a
          /\ new.seen = Resting.seen
      BY <1>4, <1>5 DEF Task, AllOps
    <3>3. task' = [task EXCEPT ![t] = new]
      BY <3>1
    <3> HIDE DEF new
    <3>4. Known(new)
      BY <1>4, <1>5, <3>2 DEF Known, AllOps, PeriodOps, AccountOps, Writing, Deciding
    <3> QED
      BY <1>3, <3>1, <3>2, <3>3, <3>4 DEF Deciding
  <2>3. CASE \E a \in Accounts, k \in Kind : "retype" \in scenario.ops /\
          task' = [task EXCEPT ![t] = [Resting EXCEPT
            !.pc = "load", !.op = "retype", !.account = a, !.new = k]]
    <3>1. PICK a \in Accounts, k \in Kind :
            task' = [task EXCEPT ![t] = [Resting EXCEPT
              !.pc = "load", !.op = "retype", !.account = a, !.new = k]]
      BY <2>3
    <3> DEFINE new == [Resting EXCEPT !.pc = "load", !.op = "retype", !.account = a, !.new = k]
    <3>2. /\ new \in Task /\ new.pc = "load" /\ new.op = "retype" /\ new.account = a
          /\ new.new = k /\ new.seen = Resting.seen
      BY <1>4, <1>5 DEF Task, AllOps
    <3>3. task' = [task EXCEPT ![t] = new]
      BY <3>1
    <3> HIDE DEF new
    <3>4. Known(new)
      BY <1>4, <1>5, <3>2 DEF Known, AllOps, PeriodOps, AccountOps, Writing, Deciding
    <3> QED
      BY <1>3, <3>1, <3>2, <3>3, <3>4 DEF Deciding
  <2> QED
    BY <1>9, <2>1, <2>2, <2>3 DEF BeginAdmin
<1> QED
  BY <1>6, <1>7, <1>8, <1>9

\* Only balanced lines on living accounts and in an open period pass the checks.
LEMMA CheckStep ==
  ASSUME IInv, NEW t \in Tasks, Check(t)
  PROVE  IInv'
<1> DEFINE me == task[t]
           pc == IF me.op = "create" THEN "header" ELSE "commit"
           new == [me EXCEPT !.pc = pc, !.bal = balance, !.kinds = kind]
<1>1. CASE ~ Barred(me.period) /\ Balanced(me.body) /\ Live(me.body)
  <2>1. /\ me \in Task /\ me.pc = "check" /\ me.op \in {"create", "entry"} /\ Known(me)
        /\ balance \in [Accounts -> Int] /\ kind \in [Accounts -> Kind]
    BY DEF IInv, TypeOK, Known, Check, At
  <2>2. task' = [task EXCEPT ![t] = new] /\ Unwritten
    BY <1>1, <2>1 DEF Check, IInv, TypeOK
  <2>3. pc \in {"header", "commit"}
    OBVIOUS
  <2> HIDE DEF pc
  <2>4. /\ new \in Task /\ new.op = me.op /\ new.j = me.j /\ new.body = me.body
        /\ new.period = me.period /\ new.seen = me.seen /\ new.bal = balance
        /\ new.kinds = kind /\ new.pc = pc
    BY <2>1, <2>3 DEF Task
  <2>5. OneAtATime => journal[me.j].status = Missing /\ \A u \in Tasks \ {t} : ~ Busy(u)
    BY <2>1, OthersRest DEF Busy, IInv, Orderly, Ready
  <2> HIDE DEF new, me
  <2>6. Known(new)
    BY <1>1, <2>1, <2>4 DEF Known, Writing, PeriodOps, AccountOps, Deciding, pc
  <2>7. OneAtATime => Ready(new)
    BY <1>1, <2>1, <2>4, <2>5 DEF Ready, Deciding, pc
  <2> QED
    BY <2>2, <2>4, <2>5, <2>6, <2>7, GoOn
<1>2. CASE ~ (~ Barred(me.period) /\ Balanced(me.body) /\ Live(me.body))
  BY <1>2, FinishStep DEF Check
<1> QED
  BY <1>1, <1>2

\* A journal is loaded when it may be decided on.
LEMMA LoadStep ==
  ASSUME IInv, NEW t \in Tasks, Load(t)
  PROVE  IInv'
<1> DEFINE me == task[t]
           row == journal[me.j]
           Fit == /\ ~ row.deleted
                  /\ IF me.op = "post" THEN Postable(row) ELSE Alterable(me.op, row)
                  /\ me.op \in {"post", "reverse"} => ~ Barred(row.period)
           pc == CASE me.op \in {"update", "post"} -> "validate"
                   [] me.op = "reverse" -> "header"
                   [] OTHER -> "commit"
           new == [me EXCEPT !.seen = row, !.bal = balance, !.kinds = kind, !.pc = pc]
<1>1. CASE Fit
  <2>1. /\ me \in Task /\ me.pc = "load" /\ me.op \in Deciding /\ Known(me) /\ me.j \in Journals
        /\ balance \in [Accounts -> Int] /\ kind \in [Accounts -> Kind]
        /\ row \in Row /\ ZeroLines(row.lines)
    BY DEF IInv, TypeOK, Known, Load, At, AllBalanced, Deciding
  <2>2. \/ pc = "validate" /\ me.op \in {"update", "post"}
        \/ pc = "header" /\ me.op = "reverse"
        \/ pc = "commit" /\ me.op \in {"cancel", "delete"}
    <3>1. CASE me.op \in {"update", "post"}
      BY <3>1
    <3>2. CASE me.op = "reverse"
      BY <3>2
    <3>3. CASE me.op \in {"cancel", "delete"}
      BY <3>3
    <3> QED
      BY <2>1, <3>1, <3>2, <3>3 DEF Deciding
  <2>3. task' = [task EXCEPT ![t] = new] /\ Unwritten
    BY <1>1, <2>1 DEF Load, IInv, TypeOK
  <2> HIDE DEF pc
  <2>4. /\ new \in Task /\ new.op = me.op /\ new.j = me.j /\ new.body = me.body
        /\ new.period = me.period /\ new.seen = row /\ new.bal = balance /\ new.kinds = kind
        /\ new.pc = pc
    BY <2>1, <2>2 DEF Task
  <2>5. OneAtATime => row.status # Missing /\ \A u \in Tasks \ {t} : ~ Busy(u)
    BY <2>1, OthersRest DEF Busy, IInv, Orderly, Ready
  <2> HIDE DEF new, me, row
  <2>6. Known(new)
    BY <2>1, <2>2, <2>4 DEF Known, Writing, PeriodOps, AccountOps, Deciding
  <2>7. OneAtATime => Ready(new)
    BY <1>1, <2>1, <2>2, <2>4, <2>5 DEF Ready, Deciding, row
  <2> QED
    BY <2>3, <2>4, <2>5, <2>6, <2>7, GoOn
<1>2. CASE ~ Fit
  BY <1>2, FinishStep DEF Load
<1> QED
  BY <1>1, <1>2

\* Posting finds its accounts, and a change its new lines, in order.
LEMMA ValidateStep ==
  ASSUME IInv, NEW t \in Tasks, Validate(t)
  PROVE  IInv'
<1> DEFINE me == task[t]
<1>1. /\ me \in Task /\ me.pc = "validate" /\ Known(me) /\ me.op \in {"update", "post"}
      /\ me.j \in Journals /\ journal[me.j] \in Row /\ ZeroLines(journal[me.j].lines)
  <2>1. me \in Task /\ me.pc = "validate" /\ Known(me) /\ me.op \in {"update", "post"}
    BY DEF IInv, TypeOK, Known, Validate, At
  <2>2. me.j \in Journals
    BY <2>1 DEF Known, Deciding
  <2> QED
    BY <2>1, <2>2 DEF IInv, TypeOK, AllBalanced
<1>2. OneAtATime => Ready(me) /\ \A u \in Tasks \ {t} : ~ Busy(u)
  BY <1>1, OthersRest DEF Busy, IInv, Orderly
<1>3. CASE me.op = "post" /\ Touched(me.seen.lines) \cap dropped = {}
  <2> DEFINE new == [me EXCEPT !.pc = "commit"]
  <2>1. task' = [task EXCEPT ![t] = new] /\ Unwritten
    BY <1>3 DEF Validate, Goto
  <2>2. /\ new \in Task /\ new.op = me.op /\ new.j = me.j /\ new.body = me.body
        /\ new.period = me.period /\ new.seen = me.seen /\ new.bal = me.bal /\ new.kinds = me.kinds
        /\ new.pc = "commit"
    BY <1>1 DEF Task
  <2> HIDE DEF new, me
  <2>3. Known(new)
    BY <1>1, <1>3, <2>2 DEF Known, Writing, PeriodOps, AccountOps, Deciding
  <2>4. OneAtATime => Ready(new)
    BY <1>1, <1>2, <1>3, <2>2 DEF Ready, Deciding
  <2> QED
    BY <1>2, <2>1, <2>2, <2>3, <2>4, GoOn
<1>4. CASE me.op = "update" /\ ~ Barred(me.period) /\ Balanced(me.body) /\ Live(me.body)
  <2> DEFINE new == [me EXCEPT !.pc = "commit", !.seen.lines = journal[me.j].lines]
  <2>1. task' = [task EXCEPT ![t] = new] /\ Unwritten
    BY <1>1, <1>4 DEF Validate, IInv, TypeOK
  <2>2. /\ new \in Task /\ new.op = me.op /\ new.j = me.j /\ new.body = me.body
        /\ new.period = me.period /\ new.bal = me.bal /\ new.kinds = me.kinds /\ new.pc = "commit"
        /\ new.seen.lines = journal[me.j].lines
        /\ (journal[me.j].lines = me.seen.lines => new.seen = me.seen)
    <3> DEFINE seen == [me.seen EXCEPT !.lines = journal[me.j].lines]
    <3>1. me.seen \in Row
      BY <1>1 DEF Task
    <3>2. seen \in Row /\ seen.lines = journal[me.j].lines
      BY <1>1, <3>1 DEF Row
    <3>3. journal[me.j].lines = me.seen.lines => seen = me.seen
      BY <3>1 DEF Row
    <3>4. new = [me EXCEPT !.pc = "commit", !.seen = seen]
      BY <1>1 DEF Task
    <3> HIDE DEF seen, new
    <3> QED
      BY <1>1, <3>2, <3>3, <3>4 DEF Task
  <2> HIDE DEF new, me
  <2>3. Known(new)
    BY <1>1, <1>4, <2>2 DEF Known, Writing, PeriodOps, AccountOps, Deciding
  <2>4. OneAtATime => Ready(new)
    BY <1>1, <1>2, <1>4, <2>2 DEF Ready, Deciding
  <2> QED
    BY <1>2, <2>1, <2>2, <2>3, <2>4, GoOn
<1>5. CASE Finish(t)
  BY <1>5, FinishStep DEF Validate
<1> QED
  BY <1>1, <1>3, <1>4, <1>5 DEF Validate

\* An account is dropped when no posted line names it.
LEMMA LoadAdminStep ==
  ASSUME IInv, NEW t \in Tasks, LoadAdmin(t)
  PROVE  IInv'
<1> DEFINE me == task[t]
           new == [me EXCEPT !.pc = "commit", !.kinds = kind]
<1>1. /\ me \in Task /\ me.pc = "load" /\ Known(me)
      /\ me.op \in {"drop", "retype", "lock", "unlock", "close"} /\ kind \in [Accounts -> Kind]
      /\ OneAtATime => \A u \in Tasks \ {t} : ~ Busy(u)
  BY OthersRest DEF IInv, TypeOK, LoadAdmin, At, Busy
<1>2. CASE task' = [task EXCEPT ![t] = new] /\ (me.op = "drop" => MayDrop(me.account))
  <2>1. /\ new \in Task /\ new.op = me.op /\ new.account = me.account
        /\ new.new = me.new /\ new.period = me.period /\ new.seen = me.seen /\ new.pc = "commit"
    BY <1>1 DEF Task
  <2>2. Unwritten /\ task' = [task EXCEPT ![t] = new]
    BY <1>2 DEF LoadAdmin
  <2> HIDE DEF new, me
  <2>3. Known(new)
    BY <1>1, <2>1 DEF Known, Writing, PeriodOps, AccountOps, Deciding
  <2>4. Ready(new)
    BY <1>1, <1>2, <2>1 DEF Ready, Deciding
  <2> QED
    BY <1>1, <2>1, <2>2, <2>3, <2>4, GoOn
<1>3. CASE Finish(t)
  BY <1>3, FinishStep DEF LoadAdmin
<1> QED
  BY <1>1, <1>2, <1>3 DEF LoadAdmin, IInv, TypeOK

----------------------------------------------------------------------------
(* Writes *)

\* What a journal of typed, finitely many lines is worth is a number.
LEMMA WorthInt ==
  ASSUME NEW row \in Row, ZeroLines(row.lines), NEW a \in Accounts
  PROVE  Worth(row, a) \in Int
BY NetInt DEF Worth, Row, ZeroLines

\* One journal's worth moves the books by the difference.
LEMMA BooksStep ==
  ASSUME TypeOK, Books, AllBalanced, journal' \in [Journals -> Row], AllBalanced',
         NEW r \in Journals, kind' = kind, turned' = turned,
         \A x \in Journals \ {r}, a \in Accounts : Worth(journal'[x], a) = Worth(journal[x], a),
         \A a \in Accounts :
           balance'[a] = balance[a] - Worth(journal[r], a) + Worth(journal'[r], a)
  PROVE  Books'
<1>1. \A x \in Journals, a \in Accounts :
        Worth(journal[x], a) \in Int /\ Worth(journal'[x], a) \in Int
  BY WorthInt DEF TypeOK, AllBalanced
<1>2. ASSUME NEW a \in Accounts \ turned
      PROVE  balance'[a] = Sum([j \in Journals |-> Worth(journal'[j], a)], Journals)
  <2> DEFINE f == [j \in Journals |-> Worth(journal[j], a)]
             g == [j \in Journals |-> Worth(journal'[j], a)]
  <2>1. /\ \A x \in Journals : f[x] \in Int /\ g[x] \in Int
        /\ \A x \in Journals \ {r} : f[x] = g[x]
        /\ f[r] = Worth(journal[r], a) /\ g[r] = Worth(journal'[r], a)
    BY <1>1
  <2>2. balance[a] = SumOver(f, Journals)
    BY SumIs DEF Books
  <2>3. SumOver(g, Journals) = SumOver(f, Journals) - f[r] + g[r]
    <3> HIDE DEF f, g
    <3> QED
      BY <2>1, LedgerAssumption, SumChange
  <2>4. balance'[a] = SumOver(g, Journals)
    <3> HIDE DEF f, g
    <3> QED
      BY <2>1, <2>2, <2>3
  <2> QED
    BY <2>4, SumIs
<1> QED
  BY <1>2 DEF Books, Worth, Normal

\* Numbers of reversals are given once and otherwise only lost.
LEMMA KeepsReversals ==
  ASSUME OneReversal, \A j \in Journals : journal'[j].reverses \in {Missing, journal[j].reverses}
  PROVE  OneReversal'
BY DEF OneReversal

\* Moves from loaded balances are numbers.
LEMMA MovedInt ==
  ASSUME NEW me \in Task, balance \in [Accounts -> Int],
         NEW lines, lines \subseteq Numbered, IsFiniteSet(lines)
  PROVE  Moved(me, lines) \in [Accounts -> Int]
<1>1. \A x \in Accounts : /\ Signed(me.kinds[x], Net(lines, x)) \in Int
                          /\ me.bal[x] \in Int /\ balance[x] \in Int
  BY NetInt DEF Task, Signed
<1>2. \A x \in Accounts : Moved(me, lines)[x] \in Int
  BY <1>1 DEF Moved, Wrote
<1> QED
  BY <1>2 DEF Moved

\* Moves from fresh balances are right.
LEMMA MovedRight ==
  ASSUME NEW me \in Task, balance \in [Accounts -> Int], me.bal = balance, me.kinds = kind,
         NEW lines, lines \subseteq Numbered, IsFiniteSet(lines), NEW a \in Accounts
  PROVE  Moved(me, lines)[a] = balance[a] + Normal(a, Net(lines, a))
<1>1. Normal(a, Net(lines, a)) \in Int /\ balance[a] \in Int
  BY NetInt
<1> QED
  BY <1>1 DEF Moved, Wrote, Normal

\* A handler that writes and goes on, or rests.
LEMMA WriteStep ==
  ASSUME IInv, NEW t \in Tasks, NEW new \in Task, task' = [task EXCEPT ![t] = new],
         Known(new), scenario' = scenario,
         journal' \in [Journals -> Row], balance' \in [Accounts -> Int],
         dropped' \subseteq Accounts, locked' \subseteq Periods, closed' \subseteq Periods,
         kind' \in [Accounts -> Kind], turned' \subseteq Accounts,
         AllBalanced', OneReversal', Busy(t),
         OneAtATime => Books' /\ (\A j \in Journals : Shaped(journal[j])') /\ Ready(new)'
  PROVE  IInv'
<1>1. \A u \in Tasks : task'[u] = IF u = t THEN new ELSE task[u]
  BY DEF IInv, TypeOK
<1>2. TypeOK'
  BY <1>1 DEF IInv, TypeOK
<1>3. ASSUME NEW u \in Tasks PROVE Known(task'[u])
  BY <1>1 DEF IInv
<1>4. ASSUME OneAtATime' PROVE Orderly'
  <2>1. OneAtATime /\ Orderly
    BY <1>4 DEF OneAtATime, IInv
  <2>2. \A u \in Tasks \ {t} : ~ Busy(u)
    BY <2>1, OthersRest
  <2>3. Alone'
    BY <1>1, <2>2 DEF Alone, Busy
  <2>4. ASSUME NEW u \in Tasks PROVE Ready(task[u])'
    <3>1. CASE u = t
      <4>1. task'[u] = new
        BY <1>1, <3>1
      <4> QED
        BY <2>1, <4>1 DEF Ready
    <3>2. CASE u # t
      <4>1. task'[u].pc = "idle"
        BY <1>1, <2>2, <3>2 DEF Busy
      <4> QED
        BY <4>1 DEF Ready
    <3> QED
      BY <3>1, <3>2
  <2> QED
    BY <2>1, <2>3, <2>4 DEF Orderly
<1> QED
  BY <1>2, <1>3, <1>4 DEF IInv

\* A commit, after which the handler rests.
LEMMA CommitStep ==
  ASSUME IInv, NEW t \in Tasks, Finish(t), scenario' = scenario,
         journal' \in [Journals -> Row], balance' \in [Accounts -> Int],
         dropped' \subseteq Accounts, locked' \subseteq Periods, closed' \subseteq Periods,
         kind' \in [Accounts -> Kind], turned' \subseteq Accounts,
         AllBalanced', OneReversal', Busy(t),
         OneAtATime => Books' /\ (\A j \in Journals : Shaped(journal[j])')
  PROVE  IInv'
<1>1. Ready(Resting)'
  BY Rests DEF Ready
<1> QED
  BY <1>1, Rests, WriteStep DEF Finish

\* Where neither its row nor the deleted accounts change, a journal stays in shape.
LEMMA StaysShaped ==
  ASSUME NEW j \in Journals, journal'[j] = journal[j], dropped' = dropped, Shaped(journal[j])
  PROVE  Shaped(journal[j])'
BY DEF Shaped

\* What a handler that is about to write has checked and read.
LEMMA AtCommit ==
  ASSUME IInv, NEW t \in Tasks, task[t].pc \in {"header", "commit"}
  PROVE  /\ task[t] \in Task /\ Known(task[t]) /\ Busy(t)
         /\ OneAtATime => /\ Ready(task[t]) /\ Books
                          /\ \A j \in Journals : Shaped(journal[j])
BY DEF IInv, TypeOK, Busy, Orderly

\* Lines of a total need approval or not.
LEMMA StatusOpen == \A total : Status(total) \in {"Draft", "PendingApproval"}
BY DEF Status

\* create_journal's first commit writes a journal without lines.
LEMMA HeaderCreateStep ==
  ASSUME IInv, NEW t \in Tasks, Header(t), task[t].op = "create"
  PROVE  IInv'
<1>1. PICK me \in Task : me = task[t]
  BY DEF IInv, TypeOK
<1> DEFINE row == [Blank EXCEPT !.status = Status(Debits(me.body)), !.period = me.period,
                                !.total = Debits(me.body)]
           new == [me EXCEPT !.pc = "commit"]
<1>2. /\ Known(me) /\ Busy(t) /\ me.pc = "header" /\ me.op = "create"
      /\ OneAtATime => Ready(me) /\ Books /\ \A j \in Journals : Shaped(journal[j])
  BY <1>1, AtCommit DEF Header, At
<1>3. /\ journal' = [journal EXCEPT ![me.j] = row] /\ task' = [task EXCEPT ![t] = new]
      /\ UNCHANGED <<balance, dropped, kind, turned, locked, closed, scenario>>
  BY <1>1, <1>2 DEF Header, Goto
<1>4. me.j \in Journals /\ me.period \in Periods /\ Debits(me.body) \in Nat
  BY <1>2, DebitsLessCredits DEF Known, Writing, Deciding, Task
<1>5. /\ row \in Row /\ row.lines = {} /\ row.total = Debits(me.body) /\ row.posted = FALSE
      /\ row.reverses = Missing /\ row.status \in {"Draft", "PendingApproval"}
  BY <1>4, Rests, StatusOpen DEF Row, Blank
<1>6. /\ new \in Task /\ new.pc = "commit" /\ new.op = me.op /\ new.j = me.j
      /\ new.period = me.period /\ new.body = me.body /\ new.seen = me.seen /\ new.bal = me.bal /\ new.kinds = me.kinds
  BY DEF Task
<1> HIDE DEF row, new
<1>7. \A j \in Journals : journal'[j] = IF j = me.j THEN row ELSE journal[j]
  BY <1>3, <1>4 DEF IInv, TypeOK
<1>8. journal' \in [Journals -> Row] /\ AllBalanced' /\ OneReversal'
  <2>1. journal' \in [Journals -> Row] /\ AllBalanced'
    BY <1>3, <1>5, <1>7, FS_EmptySet DEF IInv, TypeOK, AllBalanced, ZeroLines
  <2> QED
    BY <1>5, <1>7, <2>1, KeepsReversals DEF IInv
<1>9. Known(new)
  BY <1>2, <1>4, <1>6 DEF Known, Writing, Deciding, PeriodOps, AccountOps
<1>10. ASSUME OneAtATime
       PROVE  Books' /\ (\A j \in Journals : Shaped(journal[j])') /\ Ready(new)'
  <2>1. journal[me.j] = Blank
    BY <1>2, <1>4, <1>10 DEF Ready, Shaped
  <2>2. Books'
    <3>1. \A a \in Accounts : Worth(journal[me.j], a) = 0 /\ Worth(row, a) = 0
      BY <1>5, <2>1 DEF Worth, Blank
    <3>2. \A a \in Accounts : balance'[a] = balance[a] - Worth(journal[me.j], a) + Worth(row, a)
      BY <1>3, <3>1 DEF IInv, TypeOK
    <3> QED
      BY <1>3, <1>2, <1>4, <1>7, <1>8, <1>10, <3>2, BooksStep DEF IInv
  <2>3. ASSUME NEW j \in Journals PROVE Shaped(journal[j])'
    <3>1. CASE j = me.j
      <4>1. journal'[j] = row
        BY <1>7, <3>1
      <4> QED
        BY <1>5, <4>1 DEF Shaped, Missing
    <3>2. CASE j # me.j
      BY <1>2, <1>3, <1>7, <1>10, <3>2, StaysShaped
    <3> QED
      BY <3>1, <3>2
  <2>4. Ready(new)'
    <3>1. journal'[me.j] = row
      BY <1>4, <1>7
    <3> QED
      BY <1>2, <1>3, <1>5, <1>6, <1>10, <3>1 DEF Ready, Barred, Live, Deciding
  <2> QED
    BY <2>2, <2>3, <2>4
<1>11. /\ scenario' = scenario /\ balance' \in [Accounts -> Int]
       /\ dropped' \subseteq Accounts /\ locked' \subseteq Periods /\ closed' \subseteq Periods
       /\ kind' \in [Accounts -> Kind] /\ turned' \subseteq Accounts
  BY <1>3 DEF IInv, TypeOK
<1> QED
  BY <1>2, <1>3, <1>6, <1>8, <1>9, <1>10, <1>11, WriteStep

\* reverse_journal's first commit posts a reversal without lines.
LEMMA HeaderReverseStep ==
  ASSUME IInv, NEW t \in Tasks, Header(t), task[t].op = "reverse", NumberFree(task[t].j)
  PROVE  IInv'
<1>1. PICK me \in Task : me = task[t]
  BY DEF IInv, TypeOK
<1>2. PICK r \in scenario.journals :
        /\ journal[r].status = Missing
        /\ journal' = [journal EXCEPT ![r] = [Blank EXCEPT
             !.status = "Posted", !.posted = TRUE, !.period = me.seen.period,
             !.total = me.seen.total, !.reverses = me.j]]
        /\ task' = [task EXCEPT ![t].r = r, ![t].pc = "commit"]
  BY <1>1 DEF Header
<1> DEFINE row == [Blank EXCEPT
             !.status = "Posted", !.posted = TRUE, !.period = me.seen.period,
             !.total = me.seen.total, !.reverses = me.j]
           new == [me EXCEPT !.r = r, !.pc = "commit"]
<1>3. /\ Known(me) /\ Busy(t) /\ me.pc = "header" /\ me.op = "reverse"
      /\ OneAtATime => Ready(me) /\ Books /\ \A j \in Journals : Shaped(journal[j])
  BY <1>1, AtCommit DEF Header, At
<1>4. /\ journal' = [journal EXCEPT ![r] = row] /\ task' = [task EXCEPT ![t] = new]
      /\ UNCHANGED <<balance, dropped, kind, turned, locked, closed, scenario>>
  BY <1>1, <1>2 DEF Header, IInv, TypeOK
<1>5. r \in Journals /\ me.j \in Journals /\ me.j # Missing
  BY <1>3, LedgerAssumption DEF IInv, TypeOK, Scenario, Known, Deciding
<1>6. /\ row \in Row /\ row.lines = {} /\ row.posted = TRUE /\ row.reverses = me.j
      /\ row.status = "Posted" /\ row.deleted = FALSE
  BY <1>5, Rests DEF Row, Blank, Task
<1>7. /\ new \in Task /\ new.pc = "commit" /\ new.op = me.op /\ new.j = me.j /\ new.r = r
      /\ new.seen = me.seen /\ new.bal = me.bal /\ new.kinds = me.kinds
  BY <1>5 DEF Task
<1> HIDE DEF row, new
<1>8. \A j \in Journals : journal'[j] = IF j = r THEN row ELSE journal[j]
  BY <1>4, <1>5 DEF IInv, TypeOK
<1>9. journal' \in [Journals -> Row] /\ AllBalanced'
  BY <1>4, <1>6, <1>8, FS_EmptySet DEF IInv, TypeOK, AllBalanced, ZeroLines
<1>10. OneReversal'
  <2>1. \A j \in Journals : journal[j].reverses # me.j
    BY <1>1 DEF NumberFree
  <2> QED
    BY <1>6, <1>8, <2>1 DEF OneReversal, IInv
<1>11. Known(new)
  BY <1>3, <1>5, <1>7 DEF Known, Writing, Deciding, PeriodOps, AccountOps
<1>12. ASSUME OneAtATime
       PROVE  Books' /\ (\A j \in Journals : Shaped(journal[j])') /\ Ready(new)'
  <2>1. journal[r] = Blank /\ me.seen = journal[me.j] /\ me.seen.status = "Posted"
    BY <1>2, <1>3, <1>5, <1>12 DEF Ready, Shaped, Deciding, Alterable
  <2>2. r # me.j
    BY <2>1 DEF Blank, Missing
  <2>3. Books'
    <3>1. \A a \in Accounts : Worth(journal[r], a) = 0 /\ Worth(row, a) = 0
      BY <1>6, <2>1, NetNothing DEF Worth, Blank, Normal, Signed
    <3>2. \A a \in Accounts : balance'[a] = balance[a] - Worth(journal[r], a) + Worth(row, a)
      BY <1>4, <3>1 DEF IInv, TypeOK
    <3> QED
      BY <1>4, <1>3, <1>5, <1>8, <1>9, <1>12, <3>2, BooksStep DEF IInv
  <2>4. ASSUME NEW j \in Journals PROVE Shaped(journal[j])'
    <3>1. CASE j = r
      <4>1. journal'[j] = row
        BY <1>8, <3>1
      <4> QED
        BY <1>5, <1>6, <4>1 DEF Shaped, Missing, Touched
    <3>2. CASE j # r
      BY <1>3, <1>4, <1>8, <1>12, <3>2, StaysShaped
    <3> QED
      BY <3>1, <3>2
  <2>5. Ready(new)'
    <3>1. journal'[r] = row /\ journal'[me.j] = journal[me.j]
      BY <1>5, <1>8, <2>2
    <3> QED
      BY <1>3, <1>4, <1>5, <1>6, <1>7, <1>12, <2>2, <3>1 DEF Ready, Barred, Deciding
  <2> QED
    BY <2>3, <2>4, <2>5
<1>13. /\ scenario' = scenario /\ balance' \in [Accounts -> Int]
       /\ dropped' \subseteq Accounts /\ locked' \subseteq Periods /\ closed' \subseteq Periods
       /\ kind' \in [Accounts -> Kind] /\ turned' \subseteq Accounts
  BY <1>4 DEF IInv, TypeOK
<1> QED
  BY <1>3, <1>4, <1>7, <1>9, <1>10, <1>11, <1>12, <1>13, WriteStep

\* The header of a journal, of a reversal, or of neither.
LEMMA HeaderStep ==
  ASSUME IInv, NEW t \in Tasks, Header(t)
  PROVE  IInv'
<1>1. CASE task[t].op = "create"
  BY <1>1, HeaderCreateStep
<1>2. CASE task[t].op = "reverse" /\ NumberFree(task[t].j)
  BY <1>2, HeaderReverseStep
<1>3. CASE task[t].op = "reverse" /\ ~ NumberFree(task[t].j)
  <2>1. Finish(t) /\ Unwritten
    BY <1>3 DEF Header, Unwritten
  <2> QED
    BY <2>1, FinishStep
<1> QED
  BY <1>1, <1>2, <1>3 DEF Header

\* create_journal's second commit adds the lines whose total the header has.
LEMMA CommitCreateStep ==
  ASSUME IInv, NEW t \in Tasks, CommitCreate(t)
  PROVE  IInv'
<1>1. PICK me \in Task : me = task[t]
  BY DEF IInv, TypeOK
<1>2. /\ Known(me) /\ Busy(t) /\ me.pc = "commit" /\ me.op = "create"
      /\ OneAtATime => Ready(me) /\ Books /\ \A j \in Journals : Shaped(journal[j])
  BY <1>1, AtCommit DEF CommitCreate, At
<1>3. me.j \in Journals /\ Balanced(me.body) /\ me.body \in [Accounts -> Int]
  BY <1>2 DEF Known, Writing, Deciding, Task
<1>4. PICK b \in Numbered : /\ NewLines(me.j, me.body) = {b} /\ b.body = me.body
                            /\ ZeroLines({b})
  BY <1>3, NewLinesZero DEF IInv
<1> DEFINE old == journal[me.j]
           row == [old EXCEPT !.lines = @ \cup {b}]
<1>5. /\ journal' = [journal EXCEPT ![me.j] = row] /\ Finish(t)
      /\ UNCHANGED <<balance, dropped, kind, turned, locked, closed, scenario>>
  BY <1>1, <1>4 DEF CommitCreate
<1>6. old \in Row /\ ZeroLines(old.lines)
  BY <1>3 DEF IInv, TypeOK, AllBalanced
<1>7. /\ row \in Row /\ row.lines = old.lines \cup {b} /\ row.status = old.status
      /\ row.posted = old.posted /\ row.total = old.total /\ row.reverses = old.reverses
  BY <1>6 DEF Row
<1>8. ZeroLines(row.lines)
  <2>1. IsFiniteSet(old.lines) /\ IsFiniteSet({b})
    BY <1>4, <1>6 DEF ZeroLines
  <2>2. IsFiniteSet(old.lines \cup {b})
    BY <2>1, FS_Union
  <2>3. \A l \in old.lines \cup {b} : Zero(l.body)
    BY <1>4, <1>6 DEF ZeroLines
  <2> QED
    BY <1>7, <2>2, <2>3 DEF ZeroLines
<1> HIDE DEF row
<1>9. \A j \in Journals : journal'[j] = IF j = me.j THEN row ELSE journal[j]
  BY <1>3, <1>5 DEF IInv, TypeOK
<1>10. journal' \in [Journals -> Row] /\ AllBalanced' /\ OneReversal'
  <2>1. journal' \in [Journals -> Row] /\ AllBalanced'
    BY <1>5, <1>7, <1>8, <1>9 DEF IInv, TypeOK, AllBalanced
  <2> QED
    BY <1>7, <1>9, <2>1, KeepsReversals DEF IInv
<1>11. ASSUME OneAtATime
       PROVE  Books' /\ (\A j \in Journals : Shaped(journal[j])')
  <2>1. /\ old.status \in {"Draft", "PendingApproval"} /\ old.lines = {}
        /\ old.total = Debits(me.body) /\ ~ old.posted
    BY <1>2, <1>3, <1>11 DEF Ready, Shaped
  <2>2. Books'
    <3>1. \A a \in Accounts : Worth(old, a) = 0 /\ Worth(row, a) = 0
      BY <1>7, <2>1 DEF Worth
    <3>2. \A a \in Accounts : balance'[a] = balance[a] - Worth(old, a) + Worth(row, a)
      BY <1>5, <3>1 DEF IInv, TypeOK
    <3> QED
      BY <1>5, <1>2, <1>3, <1>9, <1>10, <1>11, <3>2, BooksStep DEF IInv
  <2>3. ASSUME NEW j \in Journals PROVE Shaped(journal[j])'
    <3>1. CASE j = me.j
      <4>1. journal'[j] = row /\ row.lines = {b}
        BY <1>7, <1>9, <2>1, <3>1
      <4> QED
        BY <1>4, <1>7, <2>1, <4>1 DEF Shaped, Missing
    <3>2. CASE j # me.j
      BY <1>2, <1>5, <1>9, <1>11, <3>2, StaysShaped
    <3> QED
      BY <3>1, <3>2
  <2> QED
    BY <2>2, <2>3
<1>12. /\ scenario' = scenario /\ balance' \in [Accounts -> Int]
       /\ dropped' \subseteq Accounts /\ locked' \subseteq Periods /\ closed' \subseteq Periods
       /\ kind' \in [Accounts -> Kind] /\ turned' \subseteq Accounts
  BY <1>5 DEF IInv, TypeOK
<1> QED
  BY <1>2, <1>5, <1>10, <1>11, <1>12, CommitStep

\* post_double_entry_journal writes a posted journal and moves the balances.
LEMMA CommitEntryStep ==
  ASSUME IInv, NEW t \in Tasks, CommitEntry(t)
  PROVE  IInv'
<1>1. PICK me \in Task : me = task[t]
  BY DEF IInv, TypeOK
<1>2. /\ Known(me) /\ Busy(t) /\ me.pc = "commit" /\ me.op = "entry"
      /\ OneAtATime => Ready(me) /\ Books /\ \A j \in Journals : Shaped(journal[j])
  BY <1>1, AtCommit DEF CommitEntry, At
<1>3. /\ me.j \in Journals /\ me.period \in Periods /\ Balanced(me.body)
      /\ me.body \in [Accounts -> Int] /\ Debits(me.body) \in Nat
  BY <1>2, DebitsLessCredits DEF Known, Writing, Deciding, Task
<1>4. PICK b \in Numbered : /\ NewLines(me.j, me.body) = {b} /\ b.body = me.body
                            /\ ZeroLines({b})
  BY <1>3, NewLinesZero DEF IInv
<1> DEFINE row == [Blank EXCEPT !.status = "Posted", !.posted = TRUE, !.period = me.period,
                                !.total = Debits(me.body), !.lines = {b}]
<1>5. /\ journal' = [journal EXCEPT ![me.j] = row] /\ balance' = Moved(me, {b}) /\ Finish(t)
      /\ UNCHANGED <<dropped, kind, turned, locked, closed, scenario>>
  BY <1>1, <1>4 DEF CommitEntry
<1>6. /\ row \in Row /\ row.lines = {b} /\ row.status = "Posted" /\ row.posted = TRUE
      /\ row.total = Debits(me.body) /\ row.reverses = Missing /\ row.deleted = FALSE
  BY <1>3, Rests DEF Row, Blank
<1> HIDE DEF row
<1>7. \A j \in Journals : journal'[j] = IF j = me.j THEN row ELSE journal[j]
  BY <1>3, <1>5 DEF IInv, TypeOK
<1>8. journal' \in [Journals -> Row] /\ AllBalanced' /\ OneReversal'
  <2>1. journal' \in [Journals -> Row] /\ AllBalanced'
    BY <1>4, <1>5, <1>6, <1>7 DEF IInv, TypeOK, AllBalanced
  <2> QED
    BY <1>6, <1>7, <2>1, KeepsReversals DEF IInv
<1>9. balance \in [Accounts -> Int] /\ IsFiniteSet({b})
  BY <1>4 DEF IInv, TypeOK, ZeroLines
<1>10. balance' \in [Accounts -> Int]
  BY <1>4, <1>5, <1>9, MovedInt
<1>11. ASSUME OneAtATime
       PROVE  Books' /\ (\A j \in Journals : Shaped(journal[j])')
  <2>1. /\ journal[me.j] = Blank /\ me.bal = balance /\ me.kinds = kind /\ Live(me.body)
    BY <1>2, <1>3, <1>11 DEF Ready, Shaped
  <2>2. Books'
    <3>1. \A a \in Accounts :
            Worth(journal[me.j], a) = 0 /\ Worth(row, a) = Normal(a, Net({b}, a))
      BY <1>6, <2>1 DEF Worth, Blank
    <3>2. ASSUME NEW a \in Accounts
          PROVE  /\ balance'[a] = balance[a] + Normal(a, Net({b}, a))
                 /\ balance[a] \in Int /\ Normal(a, Net({b}, a)) \in Int
      <4>1. Moved(me, {b})[a] = balance[a] + Normal(a, Net({b}, a))
        BY <1>4, <1>9, <2>1, MovedRight
      <4> QED
        BY <1>4, <1>5, <1>9, <4>1, NetInt
    <3>3. ASSUME NEW a \in Accounts
          PROVE  balance'[a] = balance[a] - Worth(journal[me.j], a) + Worth(row, a)
      <4> DEFINE n == Normal(a, Net({b}, a))  w == Worth(row, a)  v == Worth(journal[me.j], a)
      <4>1. v = 0 /\ w = n /\ n \in Int /\ balance[a] \in Int /\ balance'[a] = balance[a] + n
        BY <3>1, <3>2
      <4> HIDE DEF n, w, v
      <4>2. balance'[a] = balance[a] - v + w
        BY <4>1
      <4> QED
        BY <4>2 DEF v, w
    <3> QED
      BY <1>5, <1>2, <1>3, <1>7, <1>8, <1>11, <3>3, BooksStep DEF IInv
  <2>3. ASSUME NEW j \in Journals PROVE Shaped(journal[j])'
    <3>1. CASE j = me.j
      <4>1. journal'[j] = row /\ row.lines = {b}
        BY <1>6, <1>7, <3>1
      <4>2. Touched({b}) \cap dropped = {}
        BY <1>4, <2>1 DEF Touched, Live
      <4> QED
        BY <1>4, <1>5, <1>6, <4>1, <4>2 DEF Shaped, Missing
    <3>2. CASE j # me.j
      BY <1>2, <1>5, <1>7, <1>11, <3>2, StaysShaped
    <3> QED
      BY <3>1, <3>2
  <2> QED
    BY <2>2, <2>3
<1>12. /\ scenario' = scenario
       /\ dropped' \subseteq Accounts /\ locked' \subseteq Periods /\ closed' \subseteq Periods
       /\ kind' \in [Accounts -> Kind] /\ turned' \subseteq Accounts
  BY <1>5 DEF IInv, TypeOK
<1> QED
  BY <1>2, <1>5, <1>8, <1>10, <1>11, <1>12, CommitStep

\* A part of balanced lines, with balanced lines added, is balanced.
LEMMA ReplacedZero ==
  ASSUME NEW old, ZeroLines(old), NEW seen, NEW new, ZeroLines(new)
  PROVE  ZeroLines(Replaced(old, seen, new))
<1>1. IsFiniteSet(old \ seen) /\ IsFiniteSet(new)
  BY FS_Subset DEF ZeroLines
<1>2. IsFiniteSet((old \ seen) \cup new)
  BY <1>1, FS_Union
<1> QED
  BY <1>2 DEF ZeroLines, Replaced

\* update_journal replaces the lines it saw by balanced ones.
LEMMA CommitUpdateStep ==
  ASSUME IInv, NEW t \in Tasks, CommitUpdate(t)
  PROVE  IInv'
<1>1. PICK me \in Task : me = task[t]
  BY DEF IInv, TypeOK
<1>2. /\ Known(me) /\ Busy(t) /\ me.pc = "commit" /\ me.op = "update"
      /\ OneAtATime => Ready(me) /\ Books /\ \A j \in Journals : Shaped(journal[j])
  BY <1>1, AtCommit DEF CommitUpdate, At
<1>3. /\ me.j \in Journals /\ me.period \in Periods /\ Balanced(me.body)
      /\ me.body \in [Accounts -> Int] /\ Debits(me.body) \in Nat
  BY <1>2, DebitsLessCredits DEF Known, Writing, Deciding, Task
<1>4. PICK b \in Numbered : /\ NewLines(me.j, me.body) = {b} /\ b.body = me.body
                            /\ ZeroLines({b})
  BY <1>3, NewLinesZero DEF IInv
<1> DEFINE old == journal[me.j]
           row == [old EXCEPT !.period = Wrote(me.seen.period, me.period, @),
                              !.total = Wrote(me.seen.total, Debits(me.body), @),
                              !.lines = Replaced(@, me.seen.lines, {b})]
<1>5. /\ journal' = [journal EXCEPT ![me.j] = row] /\ Finish(t)
      /\ UNCHANGED <<balance, dropped, kind, turned, locked, closed, scenario>>
  <2>1. Finish(t) /\ UNCHANGED <<balance, dropped, kind, turned, locked, closed, scenario>>
    BY DEF CommitUpdate
  <2>2. journal' = [journal EXCEPT
          ![me.j].period = Wrote(me.seen.period, me.period, @),
          ![me.j].total = Wrote(me.seen.total, Debits(me.body), @),
          ![me.j].lines = Replaced(@, me.seen.lines, {b})]
    BY <1>1, <1>4 DEF CommitUpdate
  <2>3. journal \in [Journals -> Row] /\ old \in Row
    BY <1>3 DEF IInv, TypeOK
  <2> QED
    BY <1>3, <2>1, <2>2, <2>3 DEF Row
<1>6. old \in Row /\ ZeroLines(old.lines)
  BY <1>3 DEF IInv, TypeOK, AllBalanced
<1>7. /\ row \in Row /\ row.lines = Replaced(old.lines, me.seen.lines, {b})
      /\ row.status = old.status /\ row.posted = old.posted /\ row.reverses = old.reverses
      /\ row.total = Wrote(me.seen.total, Debits(me.body), old.total)
  <2>1. /\ Wrote(me.seen.period, me.period, old.period) \in Periods \cup {Missing}
        /\ Wrote(me.seen.total, Debits(me.body), old.total) \in Nat
        /\ Replaced(old.lines, me.seen.lines, {b}) \subseteq Numbered
    BY <1>3, <1>4, <1>6 DEF Wrote, Replaced, Row
  <2> QED
    BY <1>6, <2>1 DEF Row
<1>8. ZeroLines(row.lines)
  BY <1>4, <1>6, <1>7, ReplacedZero
<1> HIDE DEF row
<1>9. \A j \in Journals : journal'[j] = IF j = me.j THEN row ELSE journal[j]
  BY <1>3, <1>5 DEF IInv, TypeOK
<1>10. journal' \in [Journals -> Row] /\ AllBalanced' /\ OneReversal'
  <2>1. journal' \in [Journals -> Row] /\ AllBalanced'
    BY <1>5, <1>7, <1>8, <1>9 DEF IInv, TypeOK, AllBalanced
  <2> QED
    BY <1>7, <1>9, <2>1, KeepsReversals DEF IInv
<1>11. ASSUME OneAtATime
       PROVE  Books' /\ (\A j \in Journals : Shaped(journal[j])')
  <2>1. old.status \in {"Draft", "PendingApproval"} /\ ~ old.posted /\ me.seen = old
    BY <1>2, <1>3, <1>11 DEF Ready, Shaped, Deciding, Alterable
  <2>2. Books'
    <3>1. \A a \in Accounts : Worth(old, a) = 0 /\ Worth(row, a) = 0
      BY <1>7, <2>1 DEF Worth
    <3>2. \A a \in Accounts : balance'[a] = balance[a] - Worth(old, a) + Worth(row, a)
      BY <1>5, <3>1 DEF IInv, TypeOK
    <3> QED
      BY <1>5, <1>2, <1>3, <1>9, <1>10, <1>11, <3>2, BooksStep DEF IInv
  <2>3. ASSUME NEW j \in Journals PROVE Shaped(journal[j])'
    <3>1. CASE j = me.j
      <4>1. journal'[j] = row /\ row.lines = {b} /\ row.total = Debits(b.body)
        BY <1>4, <1>7, <1>9, <2>1, <3>1 DEF Replaced, Wrote
      <4> QED
        BY <1>7, <2>1, <4>1 DEF Shaped, Missing
    <3>2. CASE j # me.j
      BY <1>2, <1>5, <1>9, <1>11, <3>2, StaysShaped
    <3> QED
      BY <3>1, <3>2
  <2> QED
    BY <2>2, <2>3
<1>12. /\ scenario' = scenario /\ balance' \in [Accounts -> Int]
       /\ dropped' \subseteq Accounts /\ locked' \subseteq Periods /\ closed' \subseteq Periods
       /\ kind' \in [Accounts -> Kind] /\ turned' \subseteq Accounts
  BY <1>5 DEF IInv, TypeOK
<1> QED
  BY <1>2, <1>5, <1>10, <1>11, <1>12, CommitStep

\* post_journal moves the balances by the lines it loaded.
LEMMA CommitPostStep ==
  ASSUME IInv, NEW t \in Tasks, CommitPost(t)
  PROVE  IInv'
<1>1. PICK me \in Task : me = task[t]
  BY DEF IInv, TypeOK
<1>2. /\ Known(me) /\ Busy(t) /\ me.pc = "commit" /\ me.op = "post"
      /\ OneAtATime => Ready(me) /\ Books /\ \A j \in Journals : Shaped(journal[j])
  BY <1>1, AtCommit DEF CommitPost, At
<1>3. /\ me.j \in Journals /\ me.seen.lines \subseteq Numbered /\ ZeroLines(me.seen.lines)
      /\ balance \in [Accounts -> Int] /\ IsFiniteSet(me.seen.lines)
  BY <1>2 DEF Known, Deciding, Task, Row, IInv, TypeOK, ZeroLines
<1> DEFINE old == journal[me.j]
           row == [old EXCEPT !.status = "Posted", !.posted = TRUE]
<1>4. old \in Row /\ ZeroLines(old.lines)
  BY <1>3 DEF IInv, TypeOK, AllBalanced
<1>5. /\ journal' = [journal EXCEPT ![me.j] = row] /\ balance' = Moved(me, me.seen.lines)
      /\ Finish(t) /\ UNCHANGED <<dropped, kind, turned, locked, closed, scenario>>
  BY <1>1, <1>3, <1>4 DEF CommitPost, IInv, TypeOK
<1>6. /\ row \in Row /\ row.lines = old.lines /\ row.status = "Posted" /\ row.posted = TRUE
      /\ row.total = old.total /\ row.reverses = old.reverses /\ row.deleted = old.deleted
  BY <1>4 DEF Row
<1> HIDE DEF row
<1>7. \A j \in Journals : journal'[j] = IF j = me.j THEN row ELSE journal[j]
  BY <1>3, <1>5 DEF IInv, TypeOK
<1>8. journal' \in [Journals -> Row] /\ AllBalanced' /\ OneReversal'
  <2>1. journal' \in [Journals -> Row] /\ AllBalanced'
    BY <1>4, <1>5, <1>6, <1>7 DEF IInv, TypeOK, AllBalanced
  <2> QED
    BY <1>6, <1>7, <2>1, KeepsReversals DEF IInv
<1>9. balance' \in [Accounts -> Int]
  BY <1>3, <1>5, MovedInt
<1>10. ASSUME OneAtATime
       PROVE  Books' /\ (\A j \in Journals : Shaped(journal[j])')
  <2>1. /\ me.seen = old /\ me.bal = balance /\ me.kinds = kind /\ old.status = "Draft" /\ old.lines # {}
        /\ Touched(old.lines) \cap dropped = {} /\ ~ old.posted /\ ~ old.deleted
    BY <1>2, <1>3, <1>10 DEF Ready, Shaped, Deciding, Postable
  <2>2. Books'
    <3>1. ASSUME NEW a \in Accounts
          PROVE  balance'[a] = balance[a] - Worth(old, a) + Worth(row, a)
      <4> DEFINE n == Normal(a, Net(old.lines, a))  w == Worth(row, a)  v == Worth(old, a)
      <4>1. v = 0 /\ w = n
        BY <1>6, <2>1 DEF Worth
      <4>2. n \in Int /\ balance[a] \in Int
        BY <1>3, <2>1, NetInt
      <4>3. balance'[a] = balance[a] + n
        BY <1>3, <1>5, <2>1, MovedRight
      <4> HIDE DEF n, w, v
      <4>4. balance'[a] = balance[a] - v + w
        BY <4>1, <4>2, <4>3
      <4> QED
        BY <4>4 DEF v, w
    <3> QED
      BY <1>5, <1>2, <1>3, <1>7, <1>8, <1>10, <3>1, BooksStep DEF IInv
  <2>3. ASSUME NEW j \in Journals PROVE Shaped(journal[j])'
    <3>1. CASE j = me.j
      <4>1. journal'[j] = row
        BY <1>7, <3>1
      <4>2. Shaped(old)
        BY <1>2, <1>3, <1>10
      <4> QED
        BY <1>5, <1>6, <2>1, <4>1, <4>2 DEF Shaped, Missing
    <3>2. CASE j # me.j
      BY <1>2, <1>5, <1>7, <1>10, <3>2, StaysShaped
    <3> QED
      BY <3>1, <3>2
  <2> QED
    BY <2>2, <2>3
<1>11. /\ scenario' = scenario
       /\ dropped' \subseteq Accounts /\ locked' \subseteq Periods /\ closed' \subseteq Periods
       /\ kind' \in [Accounts -> Kind] /\ turned' \subseteq Accounts
  BY <1>5 DEF IInv, TypeOK
<1> QED
  BY <1>2, <1>5, <1>8, <1>9, <1>10, <1>11, CommitStep

\* reverse_journal's second commit adds the swapped lines and takes the balances back.
LEMMA CommitReverseStep ==
  ASSUME IInv, NEW t \in Tasks, CommitReverse(t)
  PROVE  IInv'
<1>1. PICK me \in Task : me = task[t]
  BY DEF IInv, TypeOK
<1>2. /\ Known(me) /\ Busy(t) /\ me.pc = "commit" /\ me.op = "reverse"
      /\ OneAtATime => Ready(me) /\ Books /\ \A j \in Journals : Shaped(journal[j])
  BY <1>1, AtCommit DEF CommitReverse, At
<1>3. /\ me.j \in Journals /\ me.r \in Journals
      /\ me.seen.lines \subseteq Numbered /\ ZeroLines(me.seen.lines)
      /\ balance \in [Accounts -> Int] /\ journal \in [Journals -> Row]
  BY <1>2 DEF Known, Deciding, Task, Row, IInv, TypeOK
<1>4. PICK L : /\ L = Swapped(me.seen.lines) /\ L \subseteq Numbered /\ ZeroLines(L)
               /\ IsFiniteSet(L) /\ Touched(L) = Touched(me.seen.lines)
  BY <1>3, SwappedZero DEF ZeroLines
<1> DEFINE with == [journal[me.r] EXCEPT !.lines = L]
           mid == [journal EXCEPT ![me.r] = with]
           row == [mid[me.j] EXCEPT !.status = "Reversed"]
<1>5. /\ journal' = [journal EXCEPT ![me.r].lines = L, ![me.j].status = "Reversed"]
      /\ balance' = [a \in Accounts |-> IF a \in dropped THEN balance[a] ELSE Moved(me, L)[a]]
      /\ Finish(t) /\ UNCHANGED <<dropped, kind, turned, locked, closed, scenario>>
  BY <1>1, <1>4 DEF CommitReverse
<1>6. /\ with \in Row /\ with.lines = L /\ with.status = journal[me.r].status
      /\ with.deleted = journal[me.r].deleted /\ with.posted = journal[me.r].posted
      /\ with.total = journal[me.r].total /\ with.reverses = journal[me.r].reverses
  <2>1. journal[me.r] \in Row
    BY <1>3
  <2> QED
    BY <1>4, <2>1 DEF Row
<1>7. journal' = [mid EXCEPT ![me.j] = row]
  BY <1>3, <1>5
<1> HIDE DEF with
<1>8. mid \in [Journals -> Row] /\ \A x \in Journals : mid[x] = IF x = me.r THEN with ELSE journal[x]
  BY <1>3, <1>6
<1> HIDE DEF mid
<1>9. /\ row \in Row /\ row.lines = mid[me.j].lines /\ row.status = "Reversed"
      /\ row.deleted = mid[me.j].deleted /\ row.posted = mid[me.j].posted
      /\ row.total = mid[me.j].total /\ row.reverses = mid[me.j].reverses
  <2>1. mid[me.j] \in Row
    BY <1>3, <1>8
  <2> QED
    BY <2>1 DEF Row
<1> HIDE DEF row
<1>10. \A x \in Journals :
         journal'[x] = IF x = me.j THEN row ELSE IF x = me.r THEN with ELSE journal[x]
  BY <1>3, <1>7, <1>8
<1>11. journal' \in [Journals -> Row] /\ AllBalanced' /\ OneReversal'
  <2>1. journal' \in [Journals -> Row]
    BY <1>3, <1>7, <1>8, <1>9
  <2>2. \A x \in Journals : /\ journal'[x].lines \in {journal[x].lines, L}
                            /\ journal'[x].reverses = journal[x].reverses
    BY <1>3, <1>6, <1>8, <1>9, <1>10
  <2>3. AllBalanced'
    BY <1>4, <2>2 DEF IInv, AllBalanced, ZeroLines
  <2> QED
    BY <2>1, <2>2, <2>3, KeepsReversals DEF IInv
<1>12. balance' \in [Accounts -> Int]
  <2>1. Moved(me, L) \in [Accounts -> Int]
    BY <1>3, <1>4, MovedInt
  <2> QED
    BY <1>3, <1>5, <2>1
<1>13. ASSUME OneAtATime
       PROVE  Books' /\ (\A j \in Journals : Shaped(journal[j])')
  <2> DEFINE old == journal[me.j]
  <2>1. /\ me.seen = old /\ me.bal = balance /\ me.kinds = kind /\ old.status = "Posted" /\ ~ old.deleted
        /\ me.r # me.j /\ journal[me.r].lines = {} /\ journal[me.r].posted
        /\ journal[me.r].status = "Posted" /\ journal[me.r].reverses # Missing
    BY <1>2, <1>3, <1>13 DEF Ready, Deciding, Alterable
  <2>2. Shaped(old) /\ Touched(old.lines) \cap dropped = {} /\ old.posted
        /\ ~ journal[me.r].deleted
    BY <1>2, <1>3, <1>13, <2>1 DEF Shaped
  <2>3. /\ journal'[me.r] = with /\ journal'[me.j] = row /\ row.lines = old.lines
        /\ row.posted = old.posted /\ row.total = old.total /\ row.reverses = old.reverses
    BY <1>3, <1>8, <1>9, <1>10, <2>1
  <2>4. Books'
    <3>1. ASSUME NEW a \in Accounts
          PROVE  balance'[a] = balance[a] - Worth(journal[me.r], a) + Worth(with, a)
      <4> DEFINE n == Normal(a, Net(L, a))  w == Worth(with, a)  v == Worth(journal[me.r], a)
      <4>1. v = 0 /\ w = n
        BY <1>6, <2>1, NetNothing DEF Worth, Normal, Signed
      <4>2. n \in Int /\ balance[a] \in Int
        BY <1>3, <1>4, NetInt
      <4>3. balance'[a] = balance[a] + n
        <5>1. CASE a \in dropped
          <6>1. Net(L, a) = 0
            BY <1>4, <2>1, <2>2, <5>1, NetUntouched
          <6>2. n = Net(L, a) \/ n = 0 - Net(L, a)
            BY <1>4, NetInt DEF Normal, Signed
          <6>3. n = 0
            BY <6>1, <6>2
          <6> QED
            BY <1>5, <4>2, <5>1, <6>3
        <5>2. CASE a \notin dropped
          BY <1>3, <1>4, <1>5, <2>1, <5>2, MovedRight
        <5> QED
          BY <5>1, <5>2
      <4> HIDE DEF n, w, v
      <4>4. balance'[a] = balance[a] - v + w
        BY <4>1, <4>2, <4>3
      <4> QED
        BY <4>4 DEF v, w
    <3>2. \A x \in Journals \ {me.r}, a \in Accounts : Worth(journal'[x], a) = Worth(journal[x], a)
      BY <1>10, <2>3 DEF Worth
    <3> QED
      BY <1>5, <1>2, <1>3, <1>11, <1>13, <2>3, <3>1, <3>2, BooksStep DEF IInv
  <2>5. ASSUME NEW j \in Journals PROVE Shaped(journal[j])'
    <3>1. CASE j = me.r
      <4>1. journal'[j] = with
        BY <2>3, <3>1
      <4>2. \A b \in L : L = {b}
        BY <1>4, <2>1, <2>2 DEF Shaped, Swapped
      <4>3. Touched(L) \cap dropped = {}
        BY <1>4, <2>1, <2>2
      <4> QED
        BY <1>5, <1>6, <2>1, <2>2, <4>1, <4>2, <4>3, ZenonT(40) DEF Shaped, Missing
    <3>2. CASE j = me.j
      <4>1. journal'[j] = row
        BY <2>3, <3>2
      <4> QED
        BY <1>9, <2>2, <2>3, <4>1 DEF Shaped, Missing
    <3>3. CASE j \notin {me.r, me.j}
      <4>1. journal'[j] = journal[j] /\ dropped' = dropped
        BY <1>5, <1>10, <3>3
      <4> QED
        BY <1>2, <1>13, <4>1, StaysShaped
    <3> QED
      BY <3>1, <3>2, <3>3
  <2> QED
    BY <2>4, <2>5
<1>14. /\ scenario' = scenario
       /\ dropped' \subseteq Accounts /\ locked' \subseteq Periods /\ closed' \subseteq Periods
       /\ kind' \in [Accounts -> Kind] /\ turned' \subseteq Accounts
  BY <1>5 DEF IInv, TypeOK
<1> QED
  BY <1>2, <1>5, <1>11, <1>12, <1>13, <1>14, CommitStep

\* cancel_journal and delete_journal leave posted journals and all lines alone.
LEMMA CommitClosingStep ==
  ASSUME IInv, NEW t \in Tasks, CommitClosing(t)
  PROVE  IInv'
<1>1. PICK me \in Task : me = task[t]
  BY DEF IInv, TypeOK
<1>2. /\ Known(me) /\ Busy(t) /\ me.pc = "commit" /\ me.op \in {"cancel", "delete"}
      /\ OneAtATime => Ready(me) /\ Books /\ \A j \in Journals : Shaped(journal[j])
  BY <1>1, AtCommit DEF CommitClosing, At
<1>3. me.j \in Journals
  BY <1>2 DEF Known, Deciding
<1> DEFINE old == journal[me.j]
           gone == [old EXCEPT !.deleted = TRUE]
           over == [old EXCEPT !.status = Wrote(me.seen.status, "Cancelled", @)]
           row == IF me.op = "delete" THEN gone ELSE over
<1>4. old \in Row /\ ZeroLines(old.lines)
  BY <1>3 DEF IInv, TypeOK, AllBalanced
<1>5. /\ journal' = [journal EXCEPT ![me.j] = row] /\ Finish(t)
      /\ UNCHANGED <<balance, dropped, kind, turned, locked, closed, scenario>>
  <2>1. Finish(t) /\ UNCHANGED <<balance, dropped, kind, turned, locked, closed, scenario>>
    BY DEF CommitClosing
  <2>2. journal' = IF me.op = "delete" THEN [journal EXCEPT ![me.j].deleted = TRUE]
                   ELSE [journal EXCEPT ![me.j].status = Wrote(me.seen.status, "Cancelled", @)]
    BY <1>1 DEF CommitClosing
  <2>3. journal' = [journal EXCEPT ![me.j] = row]
    <3>1. CASE me.op = "delete"
      BY <2>2, <3>1
    <3>2. CASE me.op # "delete"
      BY <2>2, <3>2
    <3> QED
      BY <3>1, <3>2
  <2> QED
    BY <2>1, <2>3
<1>6. /\ row \in Row /\ row.lines = old.lines /\ row.posted = old.posted
      /\ row.total = old.total /\ row.reverses = old.reverses
      /\ row.status = IF me.op = "delete" THEN old.status
                      ELSE Wrote(me.seen.status, "Cancelled", old.status)
  <2>1. Wrote(me.seen.status, "Cancelled", old.status) \in {"Cancelled", old.status}
    BY DEF Wrote
  <2>2. CASE me.op = "delete"
    BY <1>4, <2>2 DEF Row
  <2>3. CASE me.op # "delete"
    BY <1>4, <2>1, <2>3 DEF Row
  <2> QED
    BY <2>2, <2>3
<1> HIDE DEF row
<1>7. \A j \in Journals : journal'[j] = IF j = me.j THEN row ELSE journal[j]
  BY <1>3, <1>5 DEF IInv, TypeOK
<1>8. journal' \in [Journals -> Row] /\ AllBalanced' /\ OneReversal'
  <2>1. journal' \in [Journals -> Row] /\ AllBalanced'
    BY <1>4, <1>5, <1>6, <1>7 DEF IInv, TypeOK, AllBalanced
  <2> QED
    BY <1>6, <1>7, <2>1, KeepsReversals DEF IInv
<1>9. ASSUME OneAtATime
      PROVE  Books' /\ (\A j \in Journals : Shaped(journal[j])')
  <2>1. me.seen = old /\ old.status \notin {"Posted", Missing}
    BY <1>2, <1>9 DEF Ready, Deciding, Alterable
  <2>2. row.status = old.status \/ row.status = "Cancelled"
    BY <1>6 DEF Wrote
  <2>3. Books'
    <3>1. \A a \in Accounts : Worth(old, a) = Worth(row, a) /\ Worth(old, a) \in Int
      BY <1>4, <1>6, WorthInt DEF Worth
    <3>2. \A a \in Accounts : balance'[a] = balance[a] - Worth(old, a) + Worth(row, a)
      <4>1. \A a \in Accounts : balance'[a] = balance[a] /\ balance[a] \in Int
        BY <1>5 DEF IInv, TypeOK
      <4> HIDE DEF old
      <4> QED
        BY <3>1, <4>1
    <3> QED
      BY <1>5, <1>2, <1>3, <1>7, <1>8, <1>9, <3>2, BooksStep DEF IInv
  <2>4. ASSUME NEW j \in Journals PROVE Shaped(journal[j])'
    <3>1. CASE j = me.j
      <4>1. journal'[j] = row
        BY <1>7, <3>1
      <4>2. Shaped(old)
        BY <1>2, <1>3, <1>9
      <4> QED
        BY <1>5, <1>6, <2>1, <2>2, <4>1, <4>2 DEF Shaped, Missing
    <3>2. CASE j # me.j
      BY <1>2, <1>5, <1>7, <1>9, <3>2, StaysShaped
    <3> QED
      BY <3>1, <3>2
  <2> QED
    BY <2>3, <2>4
<1>10. /\ scenario' = scenario /\ balance' \in [Accounts -> Int]
       /\ dropped' \subseteq Accounts /\ locked' \subseteq Periods /\ closed' \subseteq Periods
       /\ kind' \in [Accounts -> Kind] /\ turned' \subseteq Accounts
  BY <1>5 DEF IInv, TypeOK
<1> QED
  BY <1>2, <1>5, <1>8, <1>9, <1>10, CommitStep

\* Only an account no posted line names is dropped.
LEMMA CommitAdminStep ==
  ASSUME IInv, NEW t \in Tasks, CommitAdmin(t)
  PROVE  IInv'
<1>1. PICK me \in Task : me = task[t]
  BY DEF IInv, TypeOK
<1>2. /\ Known(me) /\ Busy(t) /\ me.pc = "commit" /\ me.op \in {"drop", "lock", "unlock", "close"}
      /\ OneAtATime => Ready(me) /\ Books /\ \A j \in Journals : Shaped(journal[j])
  BY <1>1, AtCommit DEF CommitAdmin, At
<1>3. /\ dropped' = IF me.op = "drop" THEN dropped \cup {me.account} ELSE dropped
      /\ locked' \subseteq locked \cup {me.period} \/ locked' = locked
      /\ closed' = IF me.op = "close" THEN closed \cup {me.period} ELSE closed
      /\ Finish(t) /\ UNCHANGED <<journal, balance, kind, turned, scenario>>
  <2>1. /\ dropped' = IF me.op = "drop" THEN dropped \cup {me.account} ELSE dropped
        /\ closed' = IF me.op = "close" THEN closed \cup {me.period} ELSE closed
        /\ Finish(t) /\ UNCHANGED <<journal, balance, kind, turned, scenario>>
    BY <1>1 DEF CommitAdmin
  <2>2. locked' = CASE me.op \in {"lock", "close"} -> locked \cup {me.period}
                    [] me.op = "unlock" -> locked \ {me.period}
                    [] OTHER -> locked
    BY <1>1 DEF CommitAdmin
  <2>3. CASE me.op \in {"lock", "close"}
    BY <2>1, <2>2, <2>3
  <2>4. CASE me.op = "unlock"
    BY <2>1, <2>2, <2>4
  <2>5. CASE me.op = "drop"
    BY <2>1, <2>2, <2>5
  <2> QED
    BY <1>2, <2>3, <2>4, <2>5
<1>4. me.op = "drop" => me.account \in Accounts
  BY <1>2 DEF Known, AccountOps
<1>5. dropped' \subseteq Accounts /\ dropped \subseteq Accounts
  BY <1>3, <1>4 DEF IInv, TypeOK
<1>6. locked' \subseteq Periods /\ closed' \subseteq Periods
  <2>1. me.op \in PeriodOps => me.period \in Periods
    BY <1>2 DEF Known
  <2>2. CASE me.op = "drop"
    BY <1>1, <1>3, <2>2 DEF CommitAdmin, IInv, TypeOK
  <2>3. CASE me.op # "drop"
    BY <1>2, <1>3, <2>1, <2>3 DEF PeriodOps, IInv, TypeOK
  <2> QED
    BY <2>2, <2>3
<1>7. journal' \in [Journals -> Row] /\ AllBalanced' /\ OneReversal' /\ balance' \in [Accounts -> Int]
      /\ kind' \in [Accounts -> Kind] /\ turned' \subseteq Accounts
  BY <1>3 DEF IInv, TypeOK, AllBalanced, OneReversal
<1>8. ASSUME OneAtATime
      PROVE  Books' /\ (\A j \in Journals : Shaped(journal[j])')
  <2>1. Books'
    BY <1>2, <1>3, <1>8 DEF Books, Worth, Normal
  <2>2. ASSUME NEW j \in Journals PROVE Shaped(journal[j])'
    <3>1. Shaped(journal[j]) /\ journal'[j] = journal[j]
      BY <1>2, <1>3, <1>8
    <3>2. journal[j].status = "Posted" /\ ~ journal[j].deleted =>
            Touched(journal[j].lines) \cap dropped' = {}
      <4>1. me.op = "drop" => MayDrop(me.account)
        BY <1>2, <1>8 DEF Ready
      <4> QED
        BY <1>3, <3>1, <4>1 DEF Shaped, MayDrop
    <3> QED
      BY <3>1, <3>2 DEF Shaped
  <2> QED
    BY <2>1, <2>2
<1> QED
  BY <1>2, <1>3, <1>5, <1>6, <1>7, <1>8, CommitStep

\* update_account moves no balance: an account that changes sides keeps in step
\* only with nothing on it.
LEMMA CommitRetypeStep ==
  ASSUME IInv, NEW t \in Tasks, CommitRetype(t)
  PROVE  IInv'
<1>1. PICK me \in Task : me = task[t]
  BY DEF IInv, TypeOK
<1> DEFINE acc == me.account
<1>2. /\ Known(me) /\ Busy(t) /\ me.pc = "commit" /\ me.op = "retype"
      /\ OneAtATime => Ready(me) /\ Books /\ \A j \in Journals : Shaped(journal[j])
  BY <1>1, AtCommit DEF CommitRetype, At
<1>3. /\ kind' = [kind EXCEPT ![acc] = Wrote(me.kinds[acc], me.new, @)]
      /\ turned' = IF Signed(kind'[acc], balance[acc]) = Normal(acc, balance[acc]) THEN turned
                   ELSE turned \cup {acc}
      /\ Finish(t) /\ UNCHANGED <<journal, balance, dropped, locked, closed, scenario>>
  BY <1>1 DEF CommitRetype
<1>4. acc \in Accounts /\ me.new \in Kind /\ me.kinds \in [Accounts -> Kind]
  BY <1>2 DEF Known, AccountOps, Task
<1>5. /\ kind \in [Accounts -> Kind] /\ turned \subseteq Accounts
      /\ balance \in [Accounts -> Int] /\ journal \in [Journals -> Row] /\ AllBalanced
  BY DEF IInv, TypeOK
<1> HIDE DEF acc
<1>6. kind' \in [Accounts -> Kind] /\ \A a \in Accounts \ {acc} : kind'[a] = kind[a]
  <2>1. Wrote(me.kinds[acc], me.new, kind[acc]) \in Kind
    BY <1>4, <1>5 DEF Wrote
  <2> QED
    BY <1>3, <1>4, <1>5, <2>1
<1>7. turned' \subseteq Accounts
  BY <1>3, <1>4, <1>5
<1>8. /\ journal' \in [Journals -> Row] /\ AllBalanced' /\ OneReversal'
      /\ balance' \in [Accounts -> Int] /\ dropped' \subseteq Accounts
      /\ locked' \subseteq Periods /\ closed' \subseteq Periods /\ scenario' = scenario
  BY <1>3 DEF IInv, TypeOK, AllBalanced, OneReversal
<1>9. ASSUME OneAtATime
      PROVE  Books' /\ (\A j \in Journals : Shaped(journal[j])')
  <2>1. ASSUME NEW a \in Accounts \ turned'
        PROVE  balance[a] = Sum([j \in Journals |-> Worth(journal[j], a)'], Journals)
    <3> DEFINE f == [j \in Journals |-> Worth(journal[j], a)]
               g == [j \in Journals |-> Worth(journal[j], a)']
    <3>1. a \in Accounts \ turned
      BY <1>3, <2>1
    <3>2. balance[a] = SumOver(f, Journals)
      BY <1>2, <1>9, <3>1, SumIs DEF Books
    <3>3. \A j \in Journals : f[j] \in Int
      BY <1>5, WorthInt DEF AllBalanced
    <3>4. \/ \A j \in Journals : g[j] = f[j]
          \/ balance[a] = 0 /\ \A j \in Journals : g[j] = - f[j]
      <4>1. \A j \in Journals :
              /\ f[j] = IF journal[j].posted THEN Signed(kind[a], Net(journal[j].lines, a)) ELSE 0
              /\ g[j] = IF journal[j].posted THEN Signed(kind'[a], Net(journal[j].lines, a)) ELSE 0
        BY <1>3 DEF Worth, Normal
      <4>2. \A j \in Journals : Net(journal[j].lines, a) \in Int
        BY <1>5, <3>1, NetInt DEF AllBalanced, ZeroLines, Row
      <4>3. Signed(kind'[a], balance[a]) = Signed(kind[a], balance[a])
        BY <1>3, <1>6, <2>1 DEF Normal
      <4> HIDE DEF f, g
      <4>4. CASE (kind'[a] \in {"Asset", "Expense"}) = (kind[a] \in {"Asset", "Expense"})
        BY <4>1, <4>4 DEF Signed
      <4>5. CASE (kind'[a] \in {"Asset", "Expense"}) # (kind[a] \in {"Asset", "Expense"})
        <5>1. balance[a] = 0
          BY <1>5, <3>1, <4>3, <4>5 DEF Signed
        <5>2. \A j \in Journals : g[j] = - f[j]
          BY <4>1, <4>2, <4>5 DEF Signed
        <5> QED
          BY <5>1, <5>2
      <4> QED
        BY <4>4, <4>5
    <3> HIDE DEF f, g
    <3>5. IsFiniteSet(Journals)
      BY LedgerAssumption
    <3>6. SumOver(g, Journals) = balance[a]
      <4>1. CASE \A j \in Journals : g[j] = f[j]
        BY <3>2, <3>5, <4>1, SumAgree
      <4>2. CASE balance[a] = 0 /\ \A j \in Journals : g[j] = - f[j]
        <5>1. \A j \in Journals : f[j] \in Int /\ g[j] = - f[j]
          BY <3>3, <4>2
        <5>2. SumOver(g, Journals) = 0 - SumOver(f, Journals)
          BY <3>5, <5>1, SumNegated
        <5>3. SumOver(f, Journals) = 0 /\ balance[a] = 0
          BY <3>2, <4>2
        <5> QED
          BY <5>2, <5>3
      <4> QED
        BY <3>4, <4>1, <4>2
    <3> QED
      BY <3>6, SumIs DEF g
  <2>2. Books'
    BY <1>3, <2>1 DEF Books
  <2>3. ASSUME NEW j \in Journals PROVE Shaped(journal[j])'
    BY <1>2, <1>3, <1>9, StaysShaped
  <2> QED
    BY <2>2, <2>3
<1> QED
  BY <1>2, <1>3, <1>6, <1>7, <1>8, <1>9, CommitStep

\* Every step of every handler keeps the invariant.
LEMMA NextIInv == IInv /\ [Next]_vars => IInv'
<1> SUFFICES ASSUME IInv, [Next]_vars PROVE IInv'
  OBVIOUS
<1>1. ASSUME NEW t \in Tasks, Step(t) PROVE IInv'
  <2>1. CASE Abandon(t)
    BY <2>1, FinishStep DEF Abandon
  <2> QED
    BY <1>1, <2>1, BeginStep, CheckStep, LoadStep, ValidateStep, LoadAdminStep, HeaderStep,
       CommitCreateStep, CommitEntryStep, CommitUpdateStep, CommitPostStep, CommitReverseStep,
       CommitClosingStep, CommitAdminStep, CommitRetypeStep DEF Step
<1>2. CASE UNCHANGED vars
  <2>1. /\ journal' = journal /\ balance' = balance /\ dropped' = dropped /\ locked' = locked
        /\ kind' = kind /\ turned' = turned
        /\ closed' = closed /\ task' = task /\ scenario' = scenario
    BY <1>2 DEF vars
  <2>2. (TypeOK /\ AllBalanced /\ OneReversal)'
    BY <2>1 DEF IInv, TypeOK, AllBalanced, OneReversal
  <2>3. ASSUME NEW t \in Tasks PROVE Known(task[t])'
    BY <2>1 DEF IInv, Known
  <2>4. ASSUME OneAtATime' PROVE Orderly'
    <3>1. Orderly
      BY <2>1, <2>4 DEF IInv, OneAtATime
    <3>2. (Alone /\ Books)'
      BY <2>1, <3>1 DEF Orderly, Alone, Busy, Books, Worth, Normal
    <3>3. ASSUME NEW j \in Journals PROVE Shaped(journal[j])'
      BY <2>1, <3>1 DEF Orderly, Shaped
    <3>4. ASSUME NEW t \in Tasks PROVE Ready(task[t])'
      <4>1. Ready(task[t]) /\ task'[t] = task[t]
        BY <2>1, <3>1 DEF Orderly
      <4> QED
        BY <2>1, <4>1 DEF Ready, MayDrop, Barred, Live
    <3> QED
      BY <3>2, <3>3, <3>4 DEF Orderly
  <2> QED
    BY <2>2, <2>3, <2>4 DEF IInv
<1> QED
  BY <1>1, <1>2 DEF Next

\* The invariant holds in every reachable state.
LEMMA AlwaysIInv == Spec => []IInv
BY InitIInv, NextIInv, PTL DEF Spec

----------------------------------------------------------------------------
(* Posting is for good *)

\* A journal no step writes stays as it was posted.
LEMMA UntouchedStays ==
  ASSUME IInv, OneAtATime, NEW j \in Journals, journal'[j] = journal[j]
  PROVE  StaysPosted(j)
BY DEF IInv, Orderly, Shaped, StaysPosted

\* A step that writes one journal that is not posted yet, and posts it in an
\* open period or not at all.
LEMMA WritesUnposted ==
  ASSUME IInv, OneAtATime, NEW r \in Journals, NEW row, journal' = [journal EXCEPT ![r] = row],
         journal[r].status # "Posted",
         row.posted /\ ~ journal[r].posted => row.period \notin locked \cup closed
  PROVE  \A j \in Journals : StaysPosted(j)
<1> SUFFICES ASSUME NEW j \in Journals PROVE StaysPosted(j)
  OBVIOUS
<1>1. CASE j = r
  <2>1. journal'[j] = row
    BY <1>1 DEF IInv, TypeOK
  <2> QED
    BY <1>1, <2>1 DEF StaysPosted
<1>2. CASE j # r
  <2>1. journal'[j] = journal[j]
    BY <1>2 DEF IInv, TypeOK
  <2> QED
    BY <2>1, UntouchedStays
<1> QED
  BY <1>1, <1>2

\* A header: a draft, or a reversal posted in its original's open period.
LEMMA HeaderFinal ==
  ASSUME IInv, OneAtATime, NEW t \in Tasks, Header(t)
  PROVE  \A j \in Journals : StaysPosted(j)
<1>1. PICK me \in Task : me = task[t]
  BY DEF IInv, TypeOK
<1>2. Known(me) /\ me.pc = "header" /\ me.op \in {"create", "reverse"} /\ Ready(me)
  BY <1>1, AtCommit DEF Header, At
<1>3. me.j \in Journals
  BY <1>2 DEF Known, Writing, Deciding
<1>4. CASE me.op = "create"
  <2> DEFINE row == [Blank EXCEPT !.status = Status(Debits(me.body)), !.period = me.period,
                                  !.total = Debits(me.body)]
  <2>1. journal' = [journal EXCEPT ![me.j] = row]
    BY <1>1, <1>4 DEF Header
  <2>2. row.posted = FALSE
    BY DEF Blank
  <2>3. journal[me.j].status # "Posted"
    BY <1>2, <1>4 DEF Ready, Missing
  <2> HIDE DEF row
  <2> QED
    BY <1>3, <2>1, <2>2, <2>3, WritesUnposted
<1>5. CASE me.op = "reverse" /\ NumberFree(me.j)
  <2>1. PICK r \in scenario.journals :
          /\ journal[r].status = Missing
          /\ journal' = [journal EXCEPT ![r] = [Blank EXCEPT
               !.status = "Posted", !.posted = TRUE, !.period = me.seen.period,
               !.total = me.seen.total, !.reverses = me.j]]
    BY <1>1, <1>5 DEF Header
  <2> DEFINE row == [Blank EXCEPT
               !.status = "Posted", !.posted = TRUE, !.period = me.seen.period,
               !.total = me.seen.total, !.reverses = me.j]
  <2>2. row.period = me.seen.period
    BY DEF Blank
  <2>3. me.seen.period \notin locked \cup closed
    BY <1>2, <1>5 DEF Ready, Barred, Deciding
  <2>4. r \in Journals /\ journal[r].status # "Posted"
    BY <2>1, LedgerAssumption DEF IInv, TypeOK, Scenario, Missing
  <2>5. journal' = [journal EXCEPT ![r] = row]
    BY <2>1
  <2> HIDE DEF row
  <2> QED
    BY <2>2, <2>3, <2>4, <2>5, WritesUnposted
<1>6. CASE me.op = "reverse" /\ ~ NumberFree(me.j)
  <2>1. journal' = journal
    BY <1>1, <1>6 DEF Header
  <2> QED
    BY <2>1, UntouchedStays
<1> QED
  BY <1>2, <1>4, <1>5, <1>6

\* Lines of a new journal, a posted journal, new lines: none was posted before.
LEMMA UnpostedFinal ==
  ASSUME IInv, OneAtATime, NEW t \in Tasks,
         CommitCreate(t) \/ CommitEntry(t) \/ CommitUpdate(t) \/ CommitPost(t) \/ CommitClosing(t)
  PROVE  \A j \in Journals : StaysPosted(j)
<1>1. PICK me \in Task : me = task[t]
  BY DEF IInv, TypeOK
<1>2. Known(me) /\ me.pc = "commit" /\ Ready(me)
  BY <1>1, AtCommit DEF CommitCreate, CommitEntry, CommitUpdate, CommitPost, CommitClosing, At
<1>3. journal \in [Journals -> Row]
  BY DEF IInv, TypeOK
<1> DEFINE old == journal[me.j]
<1>4. CASE CommitCreate(t)
  <2>1. me.op = "create" /\ journal' = [journal EXCEPT ![me.j].lines = @ \cup NewLines(me.j, me.body)]
    BY <1>1, <1>4 DEF CommitCreate
  <2>2. me.j \in Journals /\ old.status # "Posted"
    BY <1>2, <2>1 DEF Known, Writing, Ready
  <2> DEFINE row == [old EXCEPT !.lines = @ \cup NewLines(me.j, me.body)]
  <2>3. old \in Row /\ row.posted = old.posted
    BY <1>3, <2>2 DEF Row
  <2>4. journal' = [journal EXCEPT ![me.j] = row]
    BY <2>1
  <2> HIDE DEF row
  <2> QED
    BY <2>2, <2>3, <2>4, WritesUnposted
<1>5. CASE CommitEntry(t)
  <2> DEFINE row == [Blank EXCEPT !.status = "Posted", !.posted = TRUE, !.period = me.period,
                       !.total = Debits(me.body), !.lines = NewLines(me.j, me.body)]
  <2>1. me.op = "entry" /\ journal' = [journal EXCEPT ![me.j] = row]
    BY <1>1, <1>5 DEF CommitEntry
  <2>2. me.j \in Journals /\ old.status # "Posted" /\ me.period \notin locked \cup closed
    BY <1>2, <2>1 DEF Known, Writing, Ready, Barred, Missing
  <2>3. row.period = me.period
    BY DEF Blank
  <2> HIDE DEF row
  <2> QED
    BY <2>1, <2>2, <2>3, WritesUnposted
<1>6. CASE CommitUpdate(t)
  <2>1. me.op = "update" /\ journal' = [journal EXCEPT
          ![me.j].period = Wrote(me.seen.period, me.period, @),
          ![me.j].total = Wrote(me.seen.total, Debits(me.body), @),
          ![me.j].lines = Replaced(@, me.seen.lines, NewLines(me.j, me.body))]
    BY <1>1, <1>6 DEF CommitUpdate
  <2>2. me.j \in Journals /\ old.status # "Posted"
    BY <1>2, <2>1 DEF Known, Writing, Ready, Deciding, Alterable
  <2> DEFINE row == [old EXCEPT
               !.period = Wrote(me.seen.period, me.period, @),
               !.total = Wrote(me.seen.total, Debits(me.body), @),
               !.lines = Replaced(@, me.seen.lines, NewLines(me.j, me.body))]
  <2>3. old \in Row /\ row.posted = old.posted
    BY <1>3, <2>2 DEF Row
  <2>4. journal' = [journal EXCEPT ![me.j] = row]
    BY <1>3, <2>1, <2>2, <2>3 DEF Row
  <2> HIDE DEF row
  <2> QED
    BY <2>2, <2>3, <2>4, WritesUnposted
<1>7. CASE CommitPost(t)
  <2>1. me.op = "post" /\ journal' = [journal EXCEPT ![me.j].status = "Posted", ![me.j].posted = TRUE]
    BY <1>1, <1>7 DEF CommitPost
  <2>2. /\ me.j \in Journals /\ old.status # "Posted"
        /\ old.period \notin locked \cup closed
    BY <1>2, <2>1 DEF Known, Ready, Deciding, Postable, Barred
  <2> DEFINE row == [old EXCEPT !.status = "Posted", !.posted = TRUE]
  <2>3. old \in Row /\ row.period = old.period
    BY <1>3, <2>2 DEF Row
  <2>4. journal' = [journal EXCEPT ![me.j] = row]
    BY <1>3, <2>1, <2>2, <2>3
  <2> HIDE DEF row
  <2> QED
    BY <2>2, <2>3, <2>4, WritesUnposted
<1>8. CASE CommitClosing(t)
  <2> DEFINE gone == [old EXCEPT !.deleted = TRUE]
             over == [old EXCEPT !.status = Wrote(me.seen.status, "Cancelled", @)]
             row == IF me.op = "delete" THEN gone ELSE over
  <2>1. /\ me.op \in {"cancel", "delete"}
        /\ journal' = IF me.op = "delete" THEN [journal EXCEPT ![me.j].deleted = TRUE]
             ELSE [journal EXCEPT ![me.j].status = Wrote(me.seen.status, "Cancelled", @)]
    BY <1>1, <1>8 DEF CommitClosing
  <2>2. me.j \in Journals /\ old.status # "Posted"
    BY <1>2, <2>1 DEF Known, Ready, Deciding, Alterable
  <2>3. CASE me.op = "delete"
    <3>1. journal' = [journal EXCEPT ![me.j] = gone]
      BY <2>1, <2>3
    <3>2. old \in Row /\ gone.posted = old.posted
      BY <1>3, <2>2 DEF Row
    <3> HIDE DEF gone
    <3> QED
      BY <2>2, <3>1, <3>2, WritesUnposted
  <2>4. CASE me.op # "delete"
    <3>1. journal' = [journal EXCEPT ![me.j] = over]
      BY <2>1, <2>4
    <3>2. old \in Row /\ over.posted = old.posted
      BY <1>3, <2>2 DEF Row
    <3> HIDE DEF over
    <3> QED
      BY <2>2, <3>1, <3>2, WritesUnposted
  <2> QED
    BY <2>3, <2>4
<1> QED
  BY <1>4, <1>5, <1>6, <1>7, <1>8

\* A reversal's lines come, and its original becomes Reversed.
LEMMA ReverseFinal ==
  ASSUME IInv, OneAtATime, NEW t \in Tasks, CommitReverse(t), NEW j \in Journals
  PROVE  StaysPosted(j)
<1>1. PICK me \in Task : me = task[t]
  BY DEF IInv, TypeOK
<1>2. /\ Known(me) /\ me.pc = "commit" /\ me.op = "reverse" /\ Ready(me)
      /\ Shaped(journal[j]) /\ journal[j] \in Row /\ journal \in [Journals -> Row]
  BY <1>1, AtCommit DEF CommitReverse, At, IInv, TypeOK
<1>3. me.j \in Journals /\ me.r \in Journals /\ me.r # me.j /\ journal[me.r].lines = {}
  BY <1>2 DEF Known, Deciding, Ready
<1> DEFINE L == Swapped(me.seen.lines)
<1>4. journal' = [journal EXCEPT ![me.r].lines = L, ![me.j].status = "Reversed"]
  BY <1>1 DEF CommitReverse
<1> HIDE DEF L
<1>5. CASE j = me.j
  <2>1. journal'[j] = [journal[j] EXCEPT !.status = "Reversed"]
    BY <1>2, <1>3, <1>4, <1>5
  <2> QED
    BY <1>2, <2>1 DEF StaysPosted, Shaped, Row
<1>6. CASE j = me.r
  <2>1. journal'[j] = [journal[j] EXCEPT !.lines = L]
    BY <1>2, <1>3, <1>4, <1>6
  <2> QED
    BY <1>2, <1>3, <1>6, <2>1 DEF StaysPosted, Shaped, Row
<1>7. CASE j \notin {me.j, me.r}
  <2>1. journal'[j] = journal[j]
    BY <1>2, <1>3, <1>4, <1>7
  <2> QED
    BY <2>1, UntouchedStays
<1> QED
  BY <1>5, <1>6, <1>7

\* Handled one at a time, posting is for good: nothing is posted in a period
\* barred when it is posted, and what is posted changes only by its reversal
\* (post_journal, post_double_entry_journal, reverse_journal, update_journal).
THEOREM PostedForGood == Spec => PostedIsFinal
<1>1. ASSUME IInv, [Next]_vars, OneAtATime, NEW j \in Journals PROVE StaysPosted(j)
  <2>1. ASSUME NEW t \in Tasks, Step(t) PROVE StaysPosted(j)
    <3>1. CASE Header(t)
      BY <1>1, <3>1, HeaderFinal
    <3>2. CASE CommitCreate(t) \/ CommitEntry(t) \/ CommitUpdate(t) \/ CommitPost(t)
                 \/ CommitClosing(t)
      BY <1>1, <3>2, UnpostedFinal
    <3>3. CASE CommitReverse(t)
      BY <1>1, <3>3, ReverseFinal
    <3>4. CASE journal' = journal
      BY <1>1, <3>4, UntouchedStays
    <3> QED
      BY <2>1, <3>1, <3>2, <3>3, <3>4 DEF Step, BeginNew, BeginUpdate, BeginDecision, BeginAdmin,
         Check, Load, Validate, LoadAdmin, CommitAdmin, CommitRetype, Abandon, Unwritten
  <2>2. CASE UNCHANGED vars
    BY <1>1, <2>2, UntouchedStays DEF vars
  <2> QED
    BY <1>1, <2>1, <2>2 DEF Next
<1>2. IInv /\ [Next]_vars => (OneAtATime => \A j \in Journals : StaysPosted(j))
  BY <1>1
<1> QED
  BY <1>2, AlwaysIInv, PTL DEF Spec, PostedIsFinal

----------------------------------------------------------------------------
(* Types, reversals *)

\* Every journal, balance, account, period and handler keeps its type.
THEOREM TypeCorrect == Spec => []TypeOK
<1>1. IInv => TypeOK
  BY DEF IInv
<1> QED
  BY <1>1, AlwaysIInv, PTL

\* No journal is reversed twice, by however many handlers at once: the number
\* REV- of its reversal is given once (reverse_journal).
THEOREM ReversalOnce == Spec => []ReversedOnce
<1>1. ASSUME IInv, NEW j \in Journals
      PROVE  Cardinality({r \in Journals : journal[r].reverses = j}) <= 1
  <2> DEFINE R == {r \in Journals : journal[r].reverses = j}
  <2>1. \A q, r \in R : q = r
    BY <1>1, LedgerAssumption DEF IInv, OneReversal
  <2> HIDE DEF R
  <2>2. Cardinality(R) \in {0, 1}
    <3>1. CASE R = {}
      BY <3>1, FS_EmptySet
    <3>2. CASE R # {}
      <4>1. PICK r : r \in R
        BY <3>2
      <4>2. R = {r}
        BY <2>1, <4>1
      <4> QED
        BY <4>2, FS_Singleton
    <3> QED
      BY <3>1, <3>2
  <2>3. Cardinality(R) <= 1
    BY <2>2
  <2> QED
    BY <2>3 DEF R
<1>2. IInv => ReversedOnce
  BY <1>1 DEF ReversedOnce
<1> QED
  BY <1>2, AlwaysIInv, PTL

----------------------------------------------------------------------------
(* The books agree *)

\* What a set of journals debits an account with, less what it credits it with.
Posted(S, a) == SumOver([j \in S |-> Net(journal[j].lines, a)], S)

\* Over all accounts, balanced lines cancel out.
LEMMA LinesCancel ==
  ASSUME NEW lines, lines \subseteq Numbered, ZeroLines(lines)
  PROVE  SumOver([a \in Accounts |-> Net(lines, a)], Accounts) = 0
<1> DEFINE g == [b \in lines |-> b.body]
           net == [a \in Accounts |-> Net(lines, a)]
           cols == [a \in Accounts |-> SumOver([b \in lines |-> g[b][a]], lines)]
<1>1. IsFiniteSet(lines) /\ \A b \in lines : \A a \in Accounts : g[b][a] \in Int
  BY DEF ZeroLines, Numbered
<1>2. \A b \in lines : SumOver(g[b], Accounts) = 0
  BY SumIs DEF ZeroLines, Zero
<1>3. SumOver(cols, Accounts) = 0
  <2> HIDE DEF g
  <2> QED
    BY <1>1, <1>2, FiniteAccounts, SumGrid
<1>4. \A a \in Accounts : net[a] = cols[a]
  <2>1. ASSUME NEW a \in Accounts PROVE net[a] = cols[a]
    <3>1. [b \in lines |-> g[b][a]] = [b \in lines |-> b.body[a]]
      OBVIOUS
    <3> HIDE DEF g
    <3> QED
      BY <3>1, SumIs DEF Net
  <2> QED
    BY <2>1
<1> HIDE DEF net, cols
<1>5. SumOver(net, Accounts) = SumOver(cols, Accounts)
  BY <1>4, LedgerAssumption, SumAgree
<1> QED
  BY <1>3, <1>5 DEF net

\* What journals of balanced lines put on an account is a number, and over all
\* accounts they cancel out.
LEMMA LedgerCancels ==
  ASSUME TypeOK, AllBalanced, NEW S, S \subseteq Journals
  PROVE  /\ IsFiniteSet(S)
         /\ \A a \in Accounts : \A j \in S : Net(journal[j].lines, a) \in Int
         /\ \A a \in Accounts : Posted(S, a) \in Int
         /\ SumOver([a \in Accounts |-> Posted(S, a)], Accounts) = 0
<1> DEFINE g == [j \in S |-> [a \in Accounts |-> Net(journal[j].lines, a)]]
           cols == [a \in Accounts |-> SumOver([j \in S |-> g[j][a]], S)]
<1>1. IsFiniteSet(S)
  BY LedgerAssumption, FS_Subset
<1>2. \A j \in S : journal[j].lines \subseteq Numbered /\ ZeroLines(journal[j].lines)
  BY DEF TypeOK, AllBalanced, Row
<1>3. \A a \in Accounts : \A j \in S : Net(journal[j].lines, a) \in Int
  BY <1>2, NetInt DEF ZeroLines
<1>4. \A a \in Accounts : Posted(S, a) \in Int
  <2>1. ASSUME NEW a \in Accounts PROVE Posted(S, a) \in Int
    <3> DEFINE f == [j \in S |-> Net(journal[j].lines, a)]
    <3>1. \A j \in S : f[j] \in Int
      BY <1>3
    <3>2. SumOver(f, S) \in Int
      <4> HIDE DEF f
      <4> QED
        BY <1>1, <3>1, SumInt
    <3> QED
      BY <3>2 DEF Posted
  <2> QED
    BY <2>1
<1>5. (\A j \in S : \A a \in Accounts : g[j][a] \in Int) /\ \A j \in S : SumOver(g[j], Accounts) = 0
  BY <1>2, <1>3, LinesCancel
<1>6. SumOver(cols, Accounts) = 0
  <2> HIDE DEF g
  <2> QED
    BY <1>1, <1>5, FiniteAccounts, SumGrid
<1>7. cols = [a \in Accounts |-> Posted(S, a)]
  <2>1. \A a \in Accounts : [j \in S |-> g[j][a]] = [j \in S |-> Net(journal[j].lines, a)]
    OBVIOUS
  <2> HIDE DEF g
  <2> QED
    BY <2>1 DEF Posted
<1> QED
  BY <1>1, <1>3, <1>4, <1>6, <1>7

\* A turnover follows the normal balance of its account.
LEMMA TurnoverIs ==
  ASSUME TypeOK, AllBalanced, NEW S, S \subseteq Journals, NEW a \in Accounts
  PROVE  Turnover(S, a) = IF a \in DebitNormal THEN Posted(S, a) ELSE 0 - Posted(S, a)
<1> DEFINE f == [j \in S |-> Net(journal[j].lines, a)]
           g == [j \in S |-> Normal(a, Net(journal[j].lines, a))]
<1>1. IsFiniteSet(S) /\ \A j \in S : f[j] \in Int
  BY LedgerCancels
<1>2. Turnover(S, a) = SumOver(g, S) /\ Posted(S, a) = SumOver(f, S)
  BY SumIs DEF Turnover, Posted
<1>3. CASE a \in DebitNormal
  <2>1. \A j \in S : g[j] = f[j]
    BY <1>3 DEF Normal, Signed, DebitNormal
  <2> HIDE DEF f, g
  <2> QED
    BY <1>1, <1>2, <1>3, <2>1, SumAgree
<1>4. CASE a \notin DebitNormal
  <2>1. \A j \in S : g[j] = - f[j]
    BY <1>4 DEF Normal, Signed, DebitNormal
  <2> HIDE DEF f, g
  <2>2. SumOver(g, S) = 0 - SumOver(f, S)
    BY <1>1, <2>1, SumNegated
  <2> QED
    BY <1>2, <1>4, <2>2
<1> QED
  BY <1>3, <1>4

\* Amounts whose debits and credits cancel out fill two equal columns.
LEMMA ColumnsEqual ==
  ASSUME NEW D, IsFiniteSet(D), NEW amount \in [D -> Int],
         SumOver([a \in D |-> IF a \in DebitNormal THEN amount[a] ELSE 0 - amount[a]], D) = 0
  PROVE  Columns(amount).debit = Columns(amount).credit
<1> DEFINE signed == [a \in D |-> IF a \in DebitNormal THEN amount[a] ELSE 0 - amount[a]]
           sizes == [a \in D |-> IF amount[a] < 0 THEN - amount[a] ELSE amount[a]]
           Lefts == {a \in D : (a \in DebitNormal) = (amount[a] >= 0)}
           Rights == {a \in D : ~ ((a \in DebitNormal) = (amount[a] >= 0))}
<1>1. Columns(amount) = [debit |-> SumOver(sizes, Lefts), credit |-> SumOver(sizes, Rights)]
  BY SumIs DEF Columns
<1>2. /\ Lefts \subseteq D /\ Rights = D \ Lefts
      /\ \A a \in D : signed[a] \in Int /\ sizes[a] \in Int
  OBVIOUS
<1>3. \A a \in Lefts : signed[a] = sizes[a]
  <2>1. ASSUME NEW a \in Lefts PROVE signed[a] = sizes[a]
    <3>1. a \in D /\ amount[a] \in Int
      OBVIOUS
    <3>2. CASE a \in DebitNormal
      <4>1. amount[a] >= 0
        BY <3>2
      <4> QED
        BY <3>1, <3>2, <4>1
    <3>3. CASE a \notin DebitNormal
      <4>1. ~ (amount[a] >= 0)
        BY <3>3
      <4> QED
        BY <3>1, <3>3, <4>1
    <3> QED
      BY <3>2, <3>3
  <2> QED
    BY <2>1
<1>4. \A a \in Rights : signed[a] = - sizes[a]
  <2>1. ASSUME NEW a \in Rights PROVE signed[a] = - sizes[a]
    <3>1. a \in D /\ amount[a] \in Int
      OBVIOUS
    <3>2. CASE a \in DebitNormal
      <4>1. ~ (amount[a] >= 0)
        BY <3>2
      <4> QED
        BY <3>1, <3>2, <4>1
    <3>3. CASE a \notin DebitNormal
      <4>1. amount[a] >= 0
        BY <3>3
      <4> QED
        BY <3>1, <3>3, <4>1
    <3> QED
      BY <3>2, <3>3
  <2> QED
    BY <2>1
<1> HIDE DEF signed, sizes, Lefts, Rights
<1>5. IsFiniteSet(Lefts) /\ IsFiniteSet(Rights)
  BY <1>2, FS_Subset
<1>6. SumOver(signed, D) = SumOver(signed, Lefts) + SumOver(signed, Rights)
  BY <1>2, SumSplit
<1>7. SumOver(signed, Lefts) = SumOver(sizes, Lefts)
  BY <1>3, <1>5, SumAgree
<1>8. SumOver(signed, Rights) = 0 - SumOver(sizes, Rights)
  BY <1>2, <1>4, <1>5, SumNegated
<1>9. SumOver(sizes, Lefts) \in Int /\ SumOver(sizes, Rights) \in Int
  BY <1>2, <1>5, SumInt
<1>10. SumOver(signed, D) = 0
  BY DEF signed
<1>11. SumOver(sizes, Lefts) = SumOver(sizes, Rights)
  BY <1>6, <1>7, <1>8, <1>9, <1>10
<1> QED
  BY <1>1, <1>11

\* One handler at a time, a balance is what every posted journal put on it, but
\* for an account that changed sides.
LEMMA BalanceIs ==
  ASSUME IInv, OneAtATime, NEW a \in Accounts \ turned
  PROVE  balance[a] = Turnover(EverPosted, a)
<1> DEFINE f == [j \in Journals |-> Worth(journal[j], a)]
           g == [j \in EverPosted |-> Normal(a, Net(journal[j].lines, a))]
           Rest == Journals \ EverPosted
<1>1. TypeOK /\ AllBalanced /\ Books
  BY DEF IInv, Orderly
<1>2. EverPosted \subseteq Journals /\ IsFiniteSet(EverPosted) /\ IsFiniteSet(Rest)
  BY LedgerAssumption, FS_Subset DEF EverPosted
<1>3. \A j \in Journals : f[j] \in Int
  BY <1>1, WorthInt DEF TypeOK, AllBalanced
<1>4. (\A j \in EverPosted : f[j] = g[j]) /\ \A j \in Rest : f[j] = 0
  BY DEF EverPosted, Worth
<1>5. balance[a] = SumOver(f, Journals) /\ Turnover(EverPosted, a) = SumOver(g, EverPosted)
  BY <1>1, SumIs DEF Books, Turnover
<1> HIDE DEF f, g, Rest
<1>6. SumOver(f, Journals) = SumOver(f, EverPosted) + SumOver(f, Rest)
  BY <1>2, <1>3, LedgerAssumption, SumSplit DEF Rest
<1>7. SumOver(f, Rest) = 0 /\ SumOver(f, EverPosted) = SumOver(g, EverPosted)
  BY <1>2, <1>4, SumZero, SumAgree
<1>8. SumOver(f, EverPosted) \in Int
  BY <1>2, <1>3, SumInt
<1> QED
  BY <1>5, <1>6, <1>7, <1>8

\* A posted journal's total is that of its lines.
LEMMA TotalIs ==
  ASSUME IInv, OneAtATime, NEW j \in EverPosted, journal[j].reverses = Missing
  PROVE  journal[j].total = Sum([b \in journal[j].lines |-> Debits(b.body)], journal[j].lines)
<1> DEFINE lines == journal[j].lines
           f == [b \in lines |-> Debits(b.body)]
<1>1. j \in Journals /\ journal[j].posted /\ Shaped(journal[j]) /\ lines \subseteq Numbered
  BY DEF EverPosted, IInv, Orderly, TypeOK, Row
<1>2. PICK b : b \in lines
  BY <1>1 DEF Shaped
<1>3. lines = {b} /\ journal[j].total = Debits(b.body)
  BY <1>1, <1>2 DEF Shaped
<1>4. f[b] = Debits(b.body) /\ f[b] \in Int
  BY <1>1, <1>2, DebitsLessCredits DEF Numbered
<1> HIDE DEF f
<1>5. SumOver(f, {b}) = Debits(b.body)
  BY <1>4, SumOne
<1>6. Sum(f, lines) = journal[j].total
  BY <1>3, <1>5, SumIs
<1> QED
  BY <1>6 DEF f

\* get_trial_balance adds up: the accounts it leaves out have no posted lines.
LEMMA TrialBalanceEqual ==
  ASSUME IInv, OneAtATime
  PROVE  TrialBalance.debit = TrialBalance.credit
<1> DEFINE D == Accounts \ dropped
           amount == [a \in D |-> Closing(a)]
           net == [a \in Accounts |-> Posted(InLedger, a)]
           signed == [a \in D |-> IF a \in DebitNormal THEN amount[a] ELSE 0 - amount[a]]
<1>1. TypeOK /\ AllBalanced /\ InLedger \subseteq Journals
  BY DEF IInv, InLedger
<1>2. /\ IsFiniteSet(InLedger) /\ SumOver(net, Accounts) = 0
      /\ \A a \in Accounts : net[a] \in Int
  BY <1>1, LedgerCancels
<1>3. IsFiniteSet(D) /\ IsFiniteSet(Accounts \ D) /\ D \subseteq Accounts
  BY LedgerAssumption, FS_Subset
<1>4. \A a \in Accounts : Closing(a) = IF a \in DebitNormal THEN net[a] ELSE 0 - net[a]
  BY <1>1, TurnoverIs DEF Closing
<1>5. \A a \in Accounts \ D : net[a] = 0
  <2>1. ASSUME NEW a \in Accounts \ D PROVE net[a] = 0
    <3> DEFINE f == [j \in InLedger |-> Net(journal[j].lines, a)]
    <3>1. ASSUME NEW j \in InLedger PROVE f[j] = 0
      <4>1. Touched(journal[j].lines) \cap dropped = {} /\ IsFiniteSet(journal[j].lines)
        BY DEF InLedger, IInv, Orderly, Shaped, AllBalanced, ZeroLines
      <4>2. a \in Accounts /\ a \notin Touched(journal[j].lines)
        BY <2>1, <4>1
      <4> QED
        BY <4>1, <4>2, NetUntouched
    <3>2. SumOver(f, InLedger) = 0
      <4> HIDE DEF f
      <4> QED
        BY <1>2, <3>1, SumZero
    <3> QED
      BY <2>1, <3>2 DEF Posted
  <2> QED
    BY <2>1
<1> HIDE DEF net
<1>6. amount \in [D -> Int] /\ \A a \in D : signed[a] = net[a] /\ net[a] \in Int
  <2>1. ASSUME NEW a \in D
        PROVE  amount[a] \in Int /\ signed[a] = net[a] /\ net[a] \in Int
    <3>1. /\ net[a] \in Int /\ amount[a] = Closing(a)
          /\ signed[a] = IF a \in DebitNormal THEN Closing(a) ELSE 0 - Closing(a)
      BY <1>2, <1>3
    <3> HIDE DEF amount, signed
    <3> QED
      BY <1>3, <1>4, <3>1
  <2> QED
    BY <2>1
<1> HIDE DEF D
<1>7. SumOver(net, Accounts) = SumOver(net, D) + SumOver(net, Accounts \ D)
  BY <1>2, <1>3, LedgerAssumption, SumSplit
<1>8. SumOver(net, Accounts \ D) = 0 /\ SumOver(net, D) \in Int
  BY <1>3, <1>5, <1>6, SumZero, SumInt
<1>9. SumOver(net, D) = 0
  BY <1>2, <1>7, <1>8
<1>10. SumOver(signed, D) = 0
  <2> HIDE DEF signed
  <2> QED
    BY <1>3, <1>6, <1>9, SumAgree
<1>11. Columns(amount).debit = Columns(amount).credit
  <2> HIDE DEF amount
  <2> QED
    BY <1>3, <1>6, <1>10, ColumnsEqual
<1> QED
  BY <1>11 DEF TrialBalance, D

\* What debits exceed credits by, account by account, cancels out over the balances.
LEMMA BalancesCancel ==
  ASSUME IInv, OneAtATime, turned = {}
  PROVE  SumOver([a \in Accounts |-> IF a \in DebitNormal THEN balance[a] ELSE 0 - balance[a]],
                 Accounts) = 0
<1> DEFINE net == [a \in Accounts |-> Posted(EverPosted, a)]
           signed == [a \in Accounts |-> IF a \in DebitNormal THEN balance[a] ELSE 0 - balance[a]]
<1>1. TypeOK /\ AllBalanced /\ EverPosted \subseteq Journals
  BY DEF IInv, EverPosted
<1>2. SumOver(net, Accounts) = 0 /\ \A a \in Accounts : net[a] \in Int
  BY <1>1, LedgerCancels
<1>3. \A a \in Accounts : balance[a] = IF a \in DebitNormal THEN net[a] ELSE 0 - net[a]
  BY <1>1, BalanceIs, TurnoverIs
<1> HIDE DEF net
<1>4. \A a \in Accounts : signed[a] = net[a]
  <2>1. ASSUME NEW a \in Accounts PROVE signed[a] = net[a]
    <3>1. CASE a \in DebitNormal
      BY <1>3, <3>1
    <3>2. CASE a \notin DebitNormal
      <4>1. net[a] \in Int /\ balance[a] = 0 - net[a] /\ signed[a] = 0 - balance[a]
        BY <1>2, <1>3, <3>2
      <4> HIDE DEF signed
      <4> QED
        BY <4>1
    <3> QED
      BY <3>1, <3>2
  <2> QED
    BY <2>1
<1>5. SumOver(signed, Accounts) = 0
  <2> HIDE DEF signed
  <2> QED
    BY <1>2, <1>4, LedgerAssumption, SumAgree
<1> QED
  BY <1>5

\* The balance sheet adds up: assets are liabilities, equity and net profit.
LEMMA SheetEqual ==
  ASSUME IInv, OneAtATime, turned = {}
  PROVE  BalanceSheet.assets = BalanceSheet.claims + NetProfit
<1> DEFINE signed == [a \in Accounts |-> IF a \in DebitNormal THEN balance[a] ELSE 0 - balance[a]]
           R == Accounts \ DebitNormal
           own == DebitNormal \ OfProfit       spent == OfProfit \cap DebitNormal
           claim == Accounts \ (DebitNormal \cup OfProfit)   earned == OfProfit \ DebitNormal
<1>1. \A a \in Accounts : balance[a] \in Int /\ signed[a] \in Int
  BY DEF IInv, TypeOK
<1>2. DebitNormal \subseteq Accounts /\ IsFiniteSet(DebitNormal) /\ IsFiniteSet(R)
  BY LedgerAssumption, FS_Subset DEF DebitNormal
<1>3. /\ own \subseteq DebitNormal /\ spent = DebitNormal \ own
      /\ claim \subseteq R /\ earned = R \ claim
  BY DEF DebitNormal, OfProfit
<1>4. (\A a \in DebitNormal : signed[a] = balance[a]) /\ \A a \in R : signed[a] = - balance[a]
  <2>1. \A a \in DebitNormal : signed[a] = balance[a]
    BY <1>2
  <2>2. \A a \in R : signed[a] = 0 - balance[a] /\ balance[a] \in Int
    BY <1>1
  <2>3. \A a \in R : signed[a] = - balance[a]
    <3> HIDE DEF signed, R
    <3> QED
      BY <2>2
  <2> QED
    BY <2>1, <2>3
<1>5. SumOver(signed, Accounts) = 0
  BY BalancesCancel
<1>6. /\ BalanceSheet = [assets |-> SumOver(balance, own), claims |-> SumOver(balance, claim)]
      /\ NetProfit = SumOver(balance, earned) - SumOver(balance, spent)
  BY SumIs DEF BalanceSheet, NetProfit, Total
<1> HIDE DEF signed, own, spent, claim, earned
<1>7. SumOver(signed, Accounts) = SumOver(signed, DebitNormal) + SumOver(signed, R)
  BY <1>1, <1>2, LedgerAssumption, SumSplit
<1> HIDE DEF R
<1>8. R \subseteq Accounts
  BY DEF R
<1>9. /\ SumOver(signed, DebitNormal) = SumOver(balance, DebitNormal)
      /\ SumOver(signed, R) = 0 - SumOver(balance, R)
  BY <1>1, <1>2, <1>4, <1>8, SumAgree, SumNegated
<1>10. /\ SumOver(balance, DebitNormal) = SumOver(balance, own) + SumOver(balance, spent)
       /\ SumOver(balance, R) = SumOver(balance, claim) + SumOver(balance, earned)
  BY <1>1, <1>2, <1>3, <1>8, SumSplit
<1>11. /\ SumOver(balance, own) \in Int /\ SumOver(balance, spent) \in Int
       /\ SumOver(balance, claim) \in Int /\ SumOver(balance, earned) \in Int
  <2>1. IsFiniteSet(own) /\ IsFiniteSet(spent) /\ IsFiniteSet(claim) /\ IsFiniteSet(earned)
    BY <1>2, <1>3, FS_Subset
  <2> QED
    BY <1>1, <1>2, <1>3, <1>8, <2>1, SumInt
<1>12. SumOver(balance, own) = SumOver(balance, claim) + (SumOver(balance, earned) - SumOver(balance, spent))
  BY <1>5, <1>7, <1>9, <1>10, <1>11
<1> QED
  BY <1>6, <1>12

\* The books agree: debits equal credits over every posted line, however many
\* handlers overlap; and handled one at a time, totals, deleted accounts, the
\* trial balance of the posted lines, each balance whose account has not changed
\* sides, and, while none has, the trial of the balances and the balance sheet
\* (get_trial_balance, post_journal, post_double_entry_journal, reverse_journal,
\* update_account, delete_account).
THEOREM BooksCorrect == Spec => []BooksAgree
<1>1. ASSUME IInv PROVE BooksAgree
  <2>1. Sum([a \in Accounts |-> Sum([j \in InLedger |-> Net(journal[j].lines, a)], InLedger)],
            Accounts) = 0
    <3>1. InLedger \subseteq Journals /\ TypeOK /\ AllBalanced
      BY <1>1 DEF InLedger, IInv
    <3>2. SumOver([a \in Accounts |-> Posted(InLedger, a)], Accounts) = 0
      BY <3>1, LedgerCancels
    <3> QED
      BY <3>2, SumIs DEF Posted
  <2>2. ASSUME OneAtATime
        PROVE  /\ \A a \in Accounts \ turned : balance[a] = Turnover(EverPosted, a)
               /\ \A j \in EverPosted : journal[j].reverses = Missing =>
                    journal[j].total = Sum([b \in journal[j].lines |-> Debits(b.body)],
                                           journal[j].lines)
               /\ \A j \in InLedger : Touched(journal[j].lines) \cap dropped = {}
               /\ TrialBalance.debit = TrialBalance.credit
               /\ turned = {} =>
                    /\ TrialOfBalances.debit = TrialOfBalances.credit
                    /\ BalanceSheet.assets = BalanceSheet.claims + NetProfit
    <3>1. \A a \in Accounts \ turned : balance[a] = Turnover(EverPosted, a)
      BY <1>1, <2>2, BalanceIs
    <3>2. \A j \in EverPosted : journal[j].reverses = Missing =>
            journal[j].total = Sum([b \in journal[j].lines |-> Debits(b.body)], journal[j].lines)
      BY <1>1, <2>2, TotalIs
    <3>3. \A j \in InLedger : Touched(journal[j].lines) \cap dropped = {}
      BY <1>1, <2>2 DEF InLedger, IInv, Orderly, Shaped
    <3>4. TrialBalance.debit = TrialBalance.credit
      BY <1>1, <2>2, TrialBalanceEqual
    <3>5. ASSUME turned = {} PROVE TrialOfBalances.debit = TrialOfBalances.credit
      <4>1. balance \in [Accounts -> Int]
        BY <1>1 DEF IInv, TypeOK
      <4>2. SumOver([a \in Accounts |-> IF a \in DebitNormal THEN balance[a] ELSE 0 - balance[a]],
                    Accounts) = 0
        BY <1>1, <2>2, <3>5, BalancesCancel
      <4> QED
        BY <4>1, <4>2, LedgerAssumption, ColumnsEqual DEF TrialOfBalances
    <3>6. turned = {} => BalanceSheet.assets = BalanceSheet.claims + NetProfit
      BY <1>1, <2>2, SheetEqual
    <3> QED
      BY <3>1, <3>2, <3>3, <3>4, <3>5, <3>6
  <2> QED
    BY <2>1, <2>2 DEF BooksAgree
<1>2. IInv => BooksAgree
  BY <1>1
<1> QED
  BY <1>2, AlwaysIInv, PTL

----------------------------------------------------------------------------
(* The documents that post to the ledger: FinanceDocuments with rows of its  *)
(* own, for any documents, queue items, bank transactions, statement lines   *)
(* and wishes, and any finite number of handlers.                            *)

Posting(t) == desk[t].pc \in {"journal", "read", "entry", "row"}
Credit == {"invoice", "bill"}
Paid == {"receipt", "payment"}

\* A handler that has posted the journal of d and has not finished.
Past(d) == \E t \in Tasks : desk[t].pc \in {"read", "entry", "row"} /\ desk[t].d = d
Final(d) == doc[d].status \in {"Posted", "Active"}
Values(E) == [e \in E |-> e.delta]
Upto(p, n) == {f \in Finance!LedgerOf(p) : f.stamp <= n}

\* What has become of a document, its journals and its entry.
Counted(d) ==
  /\ doc[d].kind = "none" => doc[d] = Finance!NoDoc
  /\ doc[d].kind = "asset" => doc[d].status = "Active"
  /\ doc[d].kind \in Paid => doc[d].status = "Draft"
  /\ doc[d].kind \in Credit => doc[d].status \in {"Draft", "Posted"}
  /\ IF doc[d].kind \in Credit /\ Final(d)
     THEN \E e \in entries : Finance!EntriesOf(d) = {e}
     ELSE Finance!EntriesOf(d) = {}
  /\ doc[d].kind \notin Paid =>
       IF Final(d)
       THEN journals[d] \in 1 .. 1 + crashes /\ ~ Past(d)
       ELSE /\ journals[d] <= crashes + 1
            /\ ~ Past(d) => journals[d] <= crashes
            /\ Past(d) => journals[d] >= 1

\* What is in the ledger of a party, and its running balances.
Totalled(p) ==
  /\ \A e \in Finance!LedgerOf(p) : e.running = SumOver(Values(entries), Upto(p, e.stamp))
  /\ Finance!LedgerOf(p) # {} =>
       \E e \in Finance!LedgerOf(p) : \A f \in Finance!LedgerOf(p) : f.stamp <= e.stamp

\* What a handler that is posting has read.
Carries(t) ==
  LET me == desk[t] IN
  /\ Posting(t) => me.d \in Docs /\ me.row.kind # "none"
  /\ Posting(t) /\ me.row.kind # "asset" =>
       me.row = doc[me.d] /\ me.row.status = "Draft" /\ me.pc # "row"
  /\ Posting(t) /\ me.row.kind = "asset" =>
       doc[me.d] = Finance!NoDoc /\ me.row.status = "Active" /\ me.pc \in {"journal", "row"}
  /\ me.pc \in {"read", "entry"} => me.stamp = clock /\ \A e \in entries : e.stamp < clock
  /\ me.pc = "entry" => me.prev = SumOver(Values(entries), Finance!LedgerOf(Finance!Party(me.row.kind)))

DocsInv ==
  /\ IsFiniteSet(entries)
  /\ \A e \in entries : e.stamp <= clock
  /\ \A d \in Docs : Counted(d)
  /\ \A p \in {"customer", "supplier"} : Totalled(p)
  /\ \A t \in Tasks : Carries(t)

\* The bank account is what was booked, and so is what a handler has read of it.
BankInv ==
  /\ bank = booked
  /\ \A t \in Tasks :
       desk[t].pc = "bank" \/ (desk[t].pc = "journal" /\ Finance!ToBank(desk[t].row) # 0) =>
         desk[t].bank = bank

\* Lines and transactions are paired, and a handler that matches has read what
\* is not.
MatchInv ==
  /\ \A l \in Lines : line[l].match # "none" =>
       txn[line[l].match].reconciled /\ txn[line[l].match].amount = line[l].amount
  /\ \A l, k \in Lines : line[l].match = line[k].match /\ line[l].match # "none" => l = k
  /\ \A x \in Txns : txn[x].reconciled => \E l \in Lines : line[l].match = x
  /\ \A t \in Tasks : desk[t].pc = "match" =>
       /\ \A x \in desk[t].txns : ~ txn[x].reconciled
       /\ \A l \in desk[t].lines : line[l].match = "none"

\* What the worker still has to do is pending, once; what it has done is not.
Waiting(t) ==
  LET todo == desk[t].todo IN
  /\ \A k \in DOMAIN todo : item[todo[k]].status = "Pending"
  /\ \A k, m \in DOMAIN todo : todo[k] = todo[m] => k = m
  /\ \A k \in DOMAIN todo, s \in {"Posted", "Skipped", "Failed"} : <<todo[k], s>> \notin desk[t].done
  /\ desk[t].pc \notin {"item", "post"} => todo = << >> /\ desk[t].done = {}
  /\ desk[t].pc = "post" => todo # << >> /\ drafts[todo[1]].open >= 1

Handled(i) ==
  \E t \in Tasks, s \in {"Posted", "Skipped", "Failed"} : <<i, s>> \in desk[t].done

QueueInv ==
  /\ \A t \in Tasks : Waiting(t)
  /\ \A i \in Items :
       /\ item[i].status = "none" => item[i] = Finance!NoItem /\ drafts[i].posted = 0
       /\ item[i].status = "Pending" /\ item[i].named => drafts[i].posted = 0
       /\ item[i].status = "Pending" /\ ~ Handled(i) => drafts[i].posted <= crashes
       /\ drafts[i].posted <= 1 + IF item[i].named THEN 0 ELSE crashes

\* One handler at work.
OneDesk ==
  /\ \A t \in Tasks : desk[t].pc = "idle" => desk[t] = Finance!Resting
  /\ \A t, u \in Tasks : desk[t].pc # "idle" /\ desk[u].pc # "idle" => t = u

Parts == Finance!TypeOK /\ OneDesk /\ DocsInv /\ BankInv /\ MatchInv /\ QueueInv
FinanceInv == wanted \in Wishes /\ (Finance!OneAtATime => Parts)

\* The others rest, and a step of t leaves them at rest.
Only(t) == \A u \in Tasks \ {t} : desk[u] = Finance!Resting
Acts(t) ==
  /\ Only(t) /\ Only(t)'
  /\ desk' \in [Tasks -> Finance!Task]
  /\ desk'[t].pc = "idle" => desk'[t] = Finance!Resting

\* The sum a running balance is compared with is the sum of what the entries
\* are worth.
LEMMA EntrySum ==
  ASSUME NEW E, IsFiniteSet(E), NEW S, S \subseteq E
  PROVE  Finance!MapThenSumSet(LAMBDA e : e.delta, S) = SumOver(Values(E), S)
<1> DEFINE iter == CHOOSE iter : iter = [s \in SUBSET S |->
         IF s = {} THEN 0
         ELSE LET x == CHOOSE x \in s : TRUE IN x.delta + iter[s \ {x}]]
<1>1. Finance!MapThenSumSet(LAMBDA e : e.delta, S) = iter[S]
  BY DEF Finance!MapThenSumSet, Finance!MapThenFoldSet
<1>2. IsFiniteSet(S)
  BY FS_Subset
<1>3. PICK g : Adds(g, Values(E), S)
  BY <1>2, AddsExists
<1>4. \A s \in SUBSET S : s # {} =>
        LET x == CHOOSE x \in s : TRUE IN x.delta = Values(E)[x]
  BY DEF Values
<1>5. g = [s \in SUBSET S |->
         IF s = {} THEN 0
         ELSE LET x == CHOOSE x \in s : TRUE IN x.delta + g[s \ {x}]]
  BY <1>3, <1>4, SMTT(40) DEF Adds
<1>6. iter = [s \in SUBSET S |->
         IF s = {} THEN 0
         ELSE LET x == CHOOSE x \in s : TRUE IN x.delta + iter[s \ {x}]]
  BY <1>5
<1> HIDE DEF iter
<1>7. Adds(iter, Values(E), S)
  BY <1>4, <1>6, SMTT(40) DEF Adds
<1> QED
  BY <1>1, <1>2, <1>7, SumIsAdded

\* The assumptions and the types, in the words of this module.
LEMMA FinanceTypes ==
  ASSUME Finance!FinanceAssumption
  PROVE  /\ MaxAmount \in Nat \ {0} /\ "none" \notin Docs /\ "none" \notin Txns
         /\ IsFiniteSet(Tasks) /\ IsFiniteSet(Items)
BY DEF Finance!FinanceAssumption, Finance!Missing, Finance!IsFiniteSet, IsFiniteSet

\* The types of the rows.
LEMMA RowTypes ==
  ASSUME Finance!TypeOK
  PROVE  /\ doc \in [Docs -> Finance!Document] /\ journals \in [Docs -> Nat]
         /\ entries \subseteq Finance!Entry /\ clock \in Nat /\ bank \in Int /\ booked \in Int
         /\ item \in [Items -> Finance!Item] /\ drafts \in [Items -> [open: Nat, posted: Nat]]
         /\ txn \in [Txns -> Finance!Txn] /\ line \in [Lines -> Finance!StatementLine]
         /\ desk \in [Tasks -> Finance!Task]
         /\ crashes \in 0..wanted.crashes
BY DEF Finance!TypeOK

\* A handler at rest.
LEMMA RestingIs ==
  /\ Finance!Resting.pc = "idle" /\ Finance!Resting.todo = << >> /\ Finance!Resting.done = {}
  /\ Finance!Resting.d = "none" /\ Finance!Resting.txns = {} /\ Finance!Resting.lines = {}
BY DEF Finance!Resting, Finance!Missing

LEMMA RestingType ==
  ASSUME Finance!FinanceAssumption
  PROVE  Finance!Resting \in Finance!Task /\ Finance!NoDoc \in Finance!Document
<1>1. 0 \in 0..MaxAmount /\ 0 \in -MaxAmount..MaxAmount
  BY FinanceTypes
<1>2. << >> \in Seq(Items)
  OBVIOUS
<1>3. Finance!NoDoc \in Finance!Document
  BY <1>1 DEF Finance!NoDoc, Finance!Document, Finance!Missing
<1>4. Finance!Resting \in Finance!Task
  BY <1>1, <1>2, <1>3 DEF Finance!Resting, Finance!Task, Finance!Missing
<1> QED
  BY <1>3, <1>4

\* A handler begins only when all rest, and one at work is the only one.
LEMMA BeginsAlone ==
  ASSUME Finance!FinanceAssumption, Finance!OneAtATime, OneDesk, NEW t \in Tasks, Finance!MayBegin(t)
  PROVE  Only(t) /\ desk[t] = Finance!Resting
<1> DEFINE S == {u \in Tasks : desk[u].pc # "idle"}
<1>1. Finance!Cardinality(S) = Cardinality(S)
  BY DEF Finance!Cardinality, Cardinality
<1>2. Cardinality(S) < 1
  BY <1>1 DEF Finance!MayBegin, Finance!OneAtATime
<1>3. IsFiniteSet(S)
  BY FinanceTypes, FS_Subset
<1>4. S = {}
  BY <1>2, <1>3, FS_CardinalityType, FS_EmptySet
<1> QED
  BY <1>4 DEF OneDesk, Only

LEMMA WorksAlone ==
  ASSUME OneDesk, NEW t \in Tasks, desk[t].pc # "idle"
  PROVE  Only(t)
BY DEF OneDesk, Only

\* What each part of the invariant asks of a step that does not concern it.
LEMMA DeskKept == ASSUME NEW t \in Tasks, Acts(t) PROVE OneDesk'
BY RestingIs DEF Acts, Only, OneDesk

LEMMA BankKept ==
  ASSUME BankInv, NEW t \in Tasks, Acts(t), bank' = bank, booked' = booked,
         desk'[t].pc \notin {"bank", "journal"}
  PROVE  BankInv'
BY RestingIs DEF BankInv, Acts, Only

LEMMA MatchKept ==
  ASSUME MatchInv, NEW t \in Tasks, Acts(t), txn' = txn, line' = line, desk'[t].pc # "match"
  PROVE  MatchInv'
<1>1. \A u \in Tasks : desk'[u].pc # "match"
  BY RestingIs DEF Acts, Only
<1> QED
  BY <1>1 DEF MatchInv

LEMMA QueueKept ==
  ASSUME QueueInv, NEW t \in Tasks, Acts(t), item' = item, drafts' = drafts, crashes' = crashes,
         desk[t].done = {}, desk'[t].pc \notin {"item", "post"},
         desk'[t].todo = << >>, desk'[t].done = {}
  PROVE  QueueInv'
<1>1. \A u \in Tasks : /\ desk'[u].pc \notin {"item", "post"}
                       /\ desk'[u].todo = << >> /\ desk'[u].done = {}
  BY RestingIs DEF Acts, Only
<1>2. \A u \in Tasks : Waiting(u)'
  BY <1>1 DEF Waiting
<1>3. \A i : ~ Handled(i)
  BY RestingIs DEF Acts, Only, Handled
<1>4. Finance!NoItem' = Finance!NoItem
  BY DEF Finance!NoItem
<1> QED
  BY <1>2, <1>3, <1>4 DEF QueueInv

LEMMA DocsKept ==
  ASSUME DocsInv, NEW t \in Tasks, Acts(t),
         doc' = doc, journals' = journals, entries' = entries, clock' = clock, crashes' = crashes,
         desk[t].pc \notin {"read", "entry", "row"},
         desk'[t].pc \notin {"journal", "read", "entry", "row"}
  PROVE  DocsInv'
<1>1. \A u \in Tasks : /\ desk[u].pc \notin {"read", "entry", "row"}
                       /\ desk'[u].pc \notin {"journal", "read", "entry", "row"}
  BY RestingIs DEF Acts, Only
<1>2. \A d : Past(d)' <=> Past(d)
  BY <1>1 DEF Past
<1>3. \A u \in Tasks : Carries(u)'
  BY <1>1 DEF Carries, Posting
<1>4. \A d \in Docs : Counted(d)'
  BY <1>2 DEF DocsInv, Counted, Final, Finance!EntriesOf, Finance!NoDoc
<1>5. \A p \in {"customer", "supplier"} : Totalled(p)'
  BY DEF DocsInv, Totalled, Values, Upto, Finance!LedgerOf
<1> QED
  BY <1>3, <1>4, <1>5 DEF DocsInv

----------------------------------------------------------------------------
(* The bank account and its statements *)

\* record_transaction reads the balance of the account.
LEMMA BeginTransactionKeeps ==
  ASSUME Finance!FinanceAssumption, Finance!OneAtATime, Parts, NEW t \in Tasks,
         Finance!BeginTransaction(t)
  PROVE  Parts'
<1>1. Only(t) /\ desk[t] = Finance!Resting
  BY BeginsAlone DEF Finance!BeginTransaction, Parts
<1>2. PICK a \in -MaxAmount..MaxAmount :
        desk' = [desk EXCEPT ![t] = [Finance!Resting EXCEPT !.pc = "bank", !.bank = bank, !.amount = a]]
  BY DEF Finance!BeginTransaction, Finance!Go
<1>3. /\ UNCHANGED <<doc, journals, entries, clock, bank, booked, item, drafts, txn, line, crashes, wanted>>
  BY DEF Finance!BeginTransaction, Finance!books, Finance!queue, Finance!statement
<1> DEFINE me == [Finance!Resting EXCEPT !.pc = "bank", !.bank = bank, !.amount = a]
<1>4. /\ me \in Finance!Task /\ me.pc = "bank" /\ me.bank = bank /\ me.todo = << >> /\ me.done = {}
  BY RestingType, RestingIs, RowTypes DEF Finance!Task, Parts
<1> HIDE DEF me
<1>5. Acts(t) /\ desk'[t] = me
  BY <1>1, <1>2, <1>4, RowTypes DEF Acts, Only, me, Parts
<1>6. Finance!TypeOK'
  BY <1>3, <1>5 DEF Parts, Acts, Finance!TypeOK
<1>7. BankInv'
  BY <1>3, <1>4, <1>5, RestingIs DEF Parts, BankInv, Acts, Only
<1>8. DocsInv' /\ MatchInv'
  BY <1>1, <1>3, <1>4, <1>5, RestingIs, DocsKept, MatchKept DEF Parts
<1>9. QueueInv'
  BY <1>1, <1>3, <1>4, <1>5, RestingIs, QueueKept DEF Parts
<1> QED
  BY <1>5, <1>6, <1>7, <1>8, <1>9, DeskKept DEF Parts

\* ... and commits the transaction, with the balance it makes of that.
LEMMA WriteTransactionKeeps ==
  ASSUME Finance!FinanceAssumption, Finance!OneAtATime, Parts, NEW t \in Tasks,
         Finance!WriteTransaction(t)
  PROVE  Parts'
<1> DEFINE me == desk[t]
           size == IF me.amount < 0 THEN - me.amount ELSE me.amount
<1>1. me.pc = "bank" /\ Only(t)
  BY WorksAlone DEF Finance!WriteTransaction, Parts
<1>2. PICK x \in Txns : txn[x] = Finance!NoTxn /\ txn' = [txn EXCEPT ![x].amount = size]
  BY DEF Finance!WriteTransaction
<1>3. /\ bank' = me.bank + me.amount /\ booked' = booked + me.amount
      /\ desk' = [desk EXCEPT ![t] = Finance!Resting]
      /\ UNCHANGED <<doc, journals, entries, clock, item, drafts, line, crashes, wanted>>
  BY DEF Finance!WriteTransaction, Finance!Stop, Finance!Go, Finance!queue
<1>4. me.bank \in Int /\ me.amount \in -MaxAmount..MaxAmount /\ me.bank = bank /\ bank = booked
  BY <1>1, RowTypes DEF Parts, BankInv, Finance!Task
<1>5. size \in 0..MaxAmount
  BY <1>4, FinanceTypes
<1> HIDE DEF size
<1>6. Acts(t) /\ desk'[t] = Finance!Resting
  BY <1>1, <1>3, RowTypes, RestingType DEF Acts, Only, Parts
<1>7. txn \in [Txns -> [amount: 0..MaxAmount, reconciled: BOOLEAN]]
  BY RowTypes DEF Parts, Finance!Txn
<1>8. /\ txn' \in [Txns -> Finance!Txn]
      /\ \A y \in Txns : txn'[y].reconciled <=> txn[y].reconciled
      /\ \A y \in Txns \ {x} : txn'[y] = txn[y]
  BY <1>2, <1>5, <1>7 DEF Finance!Txn
<1>9. Finance!TypeOK'
  BY <1>3, <1>4, <1>6, <1>8 DEF Parts, Acts, Finance!TypeOK
<1>10. BankInv'
  BY <1>3, <1>4, <1>6, RestingIs DEF BankInv, Acts, Only
<1>11. MatchInv'
  <2>1. ~ txn[x].reconciled
    BY <1>2 DEF Finance!NoTxn
  <2>2. \A l \in Lines : line[l].match # x
    BY <1>2, <2>1, FinanceTypes DEF Parts, MatchInv
  <2>3. \A l \in Lines : line[l].match \in Txns \cup {"none"}
    BY RowTypes DEF Parts, Finance!StatementLine, Finance!Missing
  <2>4. \A u \in Tasks : desk'[u].pc # "match"
    BY <1>6, RestingIs DEF Acts, Only
  <2>5. \A l \in Lines : line[l].match # "none" =>
          txn'[line[l].match].reconciled /\ txn'[line[l].match].amount = line[l].amount
    BY <1>8, <2>2, <2>3 DEF Parts, MatchInv
  <2>6. \A y \in Txns : txn'[y].reconciled => \E l \in Lines : line[l].match = y
    BY <1>8 DEF Parts, MatchInv
  <2> QED
    BY <1>3, <2>4, <2>5, <2>6 DEF Parts, MatchInv
<1>12. DocsInv'
  BY <1>1, <1>3, <1>6, RestingIs, DocsKept DEF Parts
<1>13. QueueInv'
  <2>1. desk[t].done = {}
    BY <1>1 DEF Parts, QueueInv, Waiting
  <2> QED
    BY <1>3, <1>6, <2>1, RestingIs, QueueKept DEF Parts
<1> QED
  BY <1>6, <1>9, <1>10, <1>11, <1>12, <1>13, DeskKept DEF Parts

\* import_statement adds a line that is paired with nothing.
LEMMA ImportKeeps ==
  ASSUME Finance!FinanceAssumption, Finance!OneAtATime, Parts, NEW t \in Tasks, Finance!Import(t)
  PROVE  Parts'
<1>1. Only(t) /\ desk[t] = Finance!Resting
  BY BeginsAlone DEF Finance!Import, Parts
<1>2. PICK l \in Finance!Free(line, Finance!NoLine, wanted.lines), a \in 1..MaxAmount, ours \in BOOLEAN :
        line' = [line EXCEPT ![l] = [amount |-> a, ours |-> ours, match |-> "none"]]
  BY DEF Finance!Import, Finance!Missing
<1>3. UNCHANGED <<doc, journals, entries, clock, bank, booked, item, drafts, txn, desk, crashes, wanted>>
  BY DEF Finance!Import, Finance!books, Finance!queue
<1>4. l \in Lines /\ line[l] = Finance!NoLine
  BY RowTypes DEF Parts, Finance!Free
<1>5. Acts(t) /\ desk'[t] = Finance!Resting
  BY <1>1, <1>3, RowTypes DEF Acts, Only, Parts
<1>6. [amount |-> a, ours |-> ours, match |-> "none"] \in Finance!StatementLine
  BY FinanceTypes DEF Finance!StatementLine, Finance!Missing
<1>7. /\ line' \in [Lines -> Finance!StatementLine] /\ line'[l].match = "none"
      /\ \A k \in Lines \ {l} : line'[k] = line[k]
  BY <1>2, <1>4, <1>6, RowTypes DEF Parts
<1>8. line[l].match = "none"
  BY <1>4 DEF Finance!NoLine, Finance!Missing
<1>9. Finance!TypeOK'
  BY <1>3, <1>7 DEF Parts, Finance!TypeOK
<1>10. MatchInv'
  <2>1. \A u \in Tasks : desk'[u].pc # "match"
    BY <1>5, RestingIs DEF Acts, Only
  <2>2. \A k \in Lines : line'[k].match # "none" => k # l /\ line'[k] = line[k]
    BY <1>7
  <2>3. \A x \in Txns : txn[x].reconciled => \E k \in Lines : line'[k].match = x
    BY <1>7, <1>8, FinanceTypes DEF Parts, MatchInv
  <2> QED
    BY <1>3, <2>1, <2>2, <2>3 DEF Parts, MatchInv
<1>11. BankInv' /\ DocsInv'
  BY <1>1, <1>3, <1>5, RestingIs, DocsKept, BankKept DEF Parts
<1>12. QueueInv'
  BY <1>1, <1>3, <1>5, RestingIs, QueueKept DEF Parts
<1> QED
  BY <1>5, <1>9, <1>10, <1>11, <1>12, DeskKept DEF Parts

\* perform_auto_matching reads what is not paired yet.
LEMMA BeginMatchKeeps ==
  ASSUME Finance!FinanceAssumption, Finance!OneAtATime, Parts, NEW t \in Tasks, Finance!BeginMatch(t)
  PROVE  Parts'
<1> DEFINE xs == {x \in Txns : txn[x] # Finance!NoTxn /\ ~ txn[x].reconciled}
           ls == {l \in Lines : line[l] # Finance!NoLine /\ line[l].match = "none"}
           me == [Finance!Resting EXCEPT !.pc = "match", !.txns = xs, !.lines = ls]
<1>1. Only(t) /\ desk[t] = Finance!Resting
  BY BeginsAlone DEF Finance!BeginMatch, Parts
<1>2. desk' = [desk EXCEPT ![t] = me]
  BY DEF Finance!BeginMatch, Finance!Go, Finance!Missing
<1>3. UNCHANGED <<doc, journals, entries, clock, bank, booked, item, drafts, txn, line, crashes, wanted>>
  BY DEF Finance!BeginMatch, Finance!books, Finance!queue, Finance!statement
<1>4. xs \in SUBSET Txns /\ ls \in SUBSET Lines
  OBVIOUS
<1> HIDE DEF xs, ls
<1>5. /\ me \in Finance!Task /\ me.pc = "match" /\ me.txns = xs /\ me.lines = ls
      /\ me.todo = << >> /\ me.done = {}
  BY <1>4, RestingType, RestingIs DEF Finance!Task
<1> HIDE DEF me
<1>6. Acts(t) /\ desk'[t] = me
  BY <1>1, <1>2, <1>5, RowTypes DEF Acts, Only, me, Parts
<1>7. Finance!TypeOK'
  BY <1>3, <1>6 DEF Parts, Acts, Finance!TypeOK
<1>8. MatchInv'
  <2>1. \A u \in Tasks : desk'[u].pc = "match" =>
          /\ \A x \in desk'[u].txns : ~ txn[x].reconciled
          /\ \A l \in desk'[u].lines : line[l].match = "none"
    BY <1>5, <1>6, RestingIs DEF Acts, Only, xs, ls
  <2> QED
    BY <1>3, <2>1 DEF Parts, MatchInv
<1>9. DocsInv' /\ BankInv'
  BY <1>1, <1>3, <1>5, <1>6, RestingIs, DocsKept, BankKept DEF Parts
<1>10. QueueInv'
  BY <1>1, <1>3, <1>5, <1>6, RestingIs, QueueKept DEF Parts
<1> QED
  BY <1>6, <1>7, <1>8, <1>9, <1>10, DeskKept DEF Parts

\* ... and commits the pairs: equal amounts, nothing twice.
LEMMA WriteMatchKeeps ==
  ASSUME Finance!FinanceAssumption, Finance!OneAtATime, Parts, NEW t \in Tasks, Finance!WriteMatch(t)
  PROVE  Parts'
<1> DEFINE me == desk[t]
<1>1. me.pc = "match" /\ Only(t)
  BY WorksAlone DEF Finance!WriteMatch, Parts
<1>2. PICK f \in Finance!Pairings(me.lines, me.txns) :
        /\ line' = [l \in Lines |-> IF l \in DOMAIN f THEN [line[l] EXCEPT !.match = f[l]] ELSE line[l]]
        /\ txn' = [x \in Txns |-> IF \E l \in DOMAIN f : f[l] = x
                                  THEN [txn[x] EXCEPT !.reconciled = TRUE] ELSE txn[x]]
  BY DEF Finance!WriteMatch
<1>3. /\ desk' = [desk EXCEPT ![t] = Finance!Resting]
      /\ UNCHANGED <<doc, journals, entries, clock, bank, booked, item, drafts, crashes, wanted>>
  BY DEF Finance!WriteMatch, Finance!Stop, Finance!Go, Finance!books, Finance!queue
<1>4. me.lines \subseteq Lines /\ me.txns \subseteq Txns
  BY RowTypes DEF Parts, Finance!Task
<1>5. /\ DOMAIN f \subseteq me.lines /\ \A l \in DOMAIN f : f[l] \in me.txns
      /\ \A l \in DOMAIN f : txn[f[l]].amount = line[l].amount
      /\ \A l, k \in DOMAIN f : f[l] = f[k] => l = k
  BY DEF Finance!Pairings
<1>6. /\ \A x \in me.txns : ~ txn[x].reconciled
      /\ \A l \in me.lines : line[l].match = "none"
  BY <1>1 DEF Parts, MatchInv
<1>7. /\ txn \in [Txns -> [amount: 0..MaxAmount, reconciled: BOOLEAN]]
      /\ line \in [Lines -> [amount: 0..MaxAmount, ours: BOOLEAN, match: Txns \cup {"none"}]]
  BY RowTypes DEF Parts, Finance!Txn, Finance!StatementLine, Finance!Missing
<1>8. /\ \A x \in Txns : txn'[x] \in Finance!Txn /\ txn'[x].amount = txn[x].amount
      /\ \A x \in Txns : (\E l \in DOMAIN f : f[l] = x) => txn'[x].reconciled
      /\ \A x \in Txns : ~ (\E l \in DOMAIN f : f[l] = x) => txn'[x] = txn[x]
  <2> SUFFICES ASSUME NEW x \in Txns
               PROVE  /\ txn'[x] \in Finance!Txn /\ txn'[x].amount = txn[x].amount
                      /\ (\E l \in DOMAIN f : f[l] = x) => txn'[x].reconciled
                      /\ ~ (\E l \in DOMAIN f : f[l] = x) => txn'[x] = txn[x]
    OBVIOUS
  <2>1. txn'[x] = IF \E l \in DOMAIN f : f[l] = x
                  THEN [txn[x] EXCEPT !.reconciled = TRUE] ELSE txn[x]
    BY <1>2
  <2>2. txn[x] \in [amount: 0..MaxAmount, reconciled: BOOLEAN]
    BY <1>7
  <2>3. /\ [txn[x] EXCEPT !.reconciled = TRUE] \in [amount: 0..MaxAmount, reconciled: BOOLEAN]
        /\ [txn[x] EXCEPT !.reconciled = TRUE].amount = txn[x].amount
        /\ [txn[x] EXCEPT !.reconciled = TRUE].reconciled
    BY <2>2
  <2> QED
    BY <2>1, <2>2, <2>3 DEF Finance!Txn
<1>9. /\ \A l \in Lines : line'[l] \in Finance!StatementLine /\ line'[l].amount = line[l].amount
      /\ \A l \in DOMAIN f : line'[l].match = f[l]
      /\ \A l \in Lines \ DOMAIN f : line'[l] = line[l]
  <2>1. \A l \in Lines : line'[l] = IF l \in DOMAIN f THEN [line[l] EXCEPT !.match = f[l]] ELSE line[l]
    BY <1>2
  <2>2. ASSUME NEW l \in DOMAIN f
        PROVE  /\ line'[l] \in Finance!StatementLine /\ line'[l].amount = line[l].amount
               /\ line'[l].match = f[l]
    <3>1. l \in Lines /\ f[l] \in Txns
      BY <1>4, <1>5
    <3>2. line'[l] = [line[l] EXCEPT !.match = f[l]]
      BY <2>1, <3>1
    <3>3. line[l] \in [amount: 0..MaxAmount, ours: BOOLEAN, match: Txns \cup {"none"}]
      BY <1>7, <3>1
    <3> QED
      BY <3>1, <3>2, <3>3 DEF Finance!StatementLine, Finance!Missing
  <2>3. ASSUME NEW l \in Lines \ DOMAIN f
        PROVE  /\ line'[l] \in Finance!StatementLine /\ line'[l] = line[l]
    <3>1. line'[l] = line[l]
      BY <2>1
    <3>2. line[l] \in [amount: 0..MaxAmount, ours: BOOLEAN, match: Txns \cup {"none"}]
      BY <1>7
    <3> QED
      BY <3>1, <3>2 DEF Finance!StatementLine, Finance!Missing
  <2> QED
    BY <2>2, <2>3
<1>10. txn' \in [Txns -> Finance!Txn] /\ line' \in [Lines -> Finance!StatementLine]
  BY <1>2, <1>8, <1>9
<1>11. Acts(t) /\ desk'[t] = Finance!Resting
  BY <1>1, <1>3, RowTypes, RestingType DEF Acts, Only, Parts
<1>12. Finance!TypeOK'
  BY <1>3, <1>10, <1>11 DEF Parts, Acts, Finance!TypeOK
<1>13. MatchInv'
  <2>1. \A u \in Tasks : desk'[u].pc # "match"
    BY <1>11, RestingIs DEF Acts, Only
  <2>2. ASSUME NEW l \in Lines, line'[l].match # "none"
        PROVE  txn'[line'[l].match].reconciled /\ txn'[line'[l].match].amount = line'[l].amount
    <3>1. CASE l \in DOMAIN f
      BY <1>4, <1>5, <1>8, <1>9, <3>1
    <3>2. CASE l \notin DOMAIN f
      <4>1. /\ line'[l] = line[l] /\ line[l].match \in Txns
            /\ txn[line[l].match].reconciled /\ txn[line[l].match].amount = line[l].amount
        BY <1>7, <1>9, <2>2, <3>2 DEF Parts, MatchInv
      <4>2. ~ \E k \in DOMAIN f : f[k] = line[l].match
        BY <1>5, <1>6, <4>1
      <4> QED
        BY <1>8, <4>1, <4>2
    <3> QED
      BY <3>1, <3>2
  <2>3. ASSUME NEW l \in Lines, NEW k \in Lines, line'[l].match = line'[k].match, line'[l].match # "none"
        PROVE  l = k
    <3>1. CASE l \in DOMAIN f /\ k \in DOMAIN f
      BY <1>5, <1>9, <2>3, <3>1
    <3>2. CASE l \notin DOMAIN f /\ k \notin DOMAIN f
      BY <1>9, <2>3, <3>2 DEF Parts, MatchInv
    <3>3. ASSUME NEW m \in Lines, NEW n \in Lines, m \in DOMAIN f, n \notin DOMAIN f,
                 line'[m].match = line'[n].match, line'[m].match # "none"
          PROVE  FALSE
      <4>1. line[n].match = f[m] /\ line[n].match # "none"
        BY <1>9, <3>3
      <4>2. txn[f[m]].reconciled
        BY <4>1 DEF Parts, MatchInv
      <4> QED
        BY <1>5, <1>6, <3>3, <4>2
    <3> QED
      BY <2>3, <3>1, <3>2, <3>3
  <2>4. ASSUME NEW x \in Txns, txn'[x].reconciled PROVE \E l \in Lines : line'[l].match = x
    <3>1. CASE \E l \in DOMAIN f : f[l] = x
      BY <1>4, <1>5, <1>9, <3>1
    <3>2. CASE ~ \E l \in DOMAIN f : f[l] = x
      <4>1. PICK l \in Lines : line[l].match = x
        BY <1>8, <2>4, <3>2 DEF Parts, MatchInv
      <4>2. l \notin DOMAIN f
        BY <1>5, <1>6, <4>1, FinanceTypes
      <4> QED
        BY <1>9, <4>1, <4>2
    <3> QED
      BY <3>1, <3>2
  <2> QED
    BY <2>1, <2>2, <2>3, <2>4 DEF MatchInv
<1>14. BankInv' /\ DocsInv'
  BY <1>1, <1>3, <1>11, RestingIs, DocsKept, BankKept DEF Parts
<1>15. QueueInv'
  <2>1. desk[t].done = {}
    BY <1>1 DEF Parts, QueueInv, Waiting
  <2> QED
    BY <1>3, <1>11, <2>1, RestingIs, QueueKept DEF Parts
<1> QED
  BY <1>11, <1>12, <1>13, <1>14, <1>15, DeskKept DEF Parts

----------------------------------------------------------------------------
(* Documents and their journals *)

LEMMA DocTypes ==
  ASSUME Finance!TypeOK
  PROVE  /\ doc \in [Docs -> [kind: Credit \cup Paid \cup {"asset", "none"},
                              status: {"none", "Draft", "Posted", "Active"},
                              amount: 0..MaxAmount, bank: BOOLEAN]]
         /\ \A t \in Tasks : desk[t] \in Finance!Task /\ desk[t].row \in Finance!Document
         /\ journals \in [Docs -> Nat] /\ clock \in Nat
BY DEF Finance!TypeOK, Finance!Document, Finance!DocKinds, Finance!Invoices, Finance!Vouchers,
       Finance!Missing, Finance!Task, Credit, Paid

\* A document that a step leaves alone.
LEMMA CountedKept ==
  ASSUME NEW d \in Docs, Counted(d), doc'[d] = doc[d], journals'[d] = journals[d],
         Finance!EntriesOf(d)' = Finance!EntriesOf(d), entries \subseteq entries',
         crashes' = crashes, Past(d)' <=> Past(d)
  PROVE  Counted(d)'
<1>1. Final(d)' <=> Final(d)
  BY DEF Final
<1>2. Finance!NoDoc' = Finance!NoDoc
  BY DEF Finance!NoDoc
<1> QED
  BY <1>1, <1>2 DEF Counted

LEMMA TotalledKept ==
  ASSUME DocsInv, entries' = entries
  PROVE  \A p \in {"customer", "supplier"} : Totalled(p)'
BY DEF DocsInv, Totalled, Values, Upto, Finance!LedgerOf

\* Nobody is past a journal while all rest.
LEMMA NobodyPast == ASSUME NEW t \in Tasks, Only(t),
                           desk[t].pc \notin {"read", "entry", "row"}
                    PROVE  \A d : ~ Past(d)
BY RestingIs DEF Only, Past

\* create_invoice, create_bill and the vouchers: a new row, in Draft.
LEMMA CreateKeeps ==
  ASSUME Finance!FinanceAssumption, Finance!OneAtATime, Parts, wanted \in Wishes,
         NEW t \in Tasks, Finance!Create(t)
  PROVE  Parts'
<1>1. Only(t) /\ desk[t] = Finance!Resting
  BY BeginsAlone DEF Finance!Create, Parts
<1>2. PICK d \in Finance!Free(doc, Finance!NoDoc, wanted.docs), k \in wanted.kinds \ {"asset"},
           a \in 1..MaxAmount, b \in BOOLEAN :
        doc' = [doc EXCEPT ![d] = [kind |-> k, status |-> "Draft", amount |-> a, bank |-> b]]
  BY DEF Finance!Create
<1>3. UNCHANGED <<journals, entries, clock, bank, booked, item, drafts, txn, line, desk, crashes, wanted>>
  BY DEF Finance!Create, Finance!queue, Finance!statement
<1>4. d \in Docs /\ doc[d] = Finance!NoDoc
  BY RowTypes DEF Parts, Finance!Free
<1>5. k \in Credit \cup Paid
  <2>1. wanted.kinds \subseteq Finance!DocKinds
    BY DEF Finance!FinanceAssumption, Finance!Scenario
  <2> QED
    BY <2>1 DEF Finance!DocKinds, Finance!Invoices, Finance!Vouchers, Credit, Paid
<1>6. [kind |-> k, status |-> "Draft", amount |-> a, bank |-> b] \in Finance!Document
  BY <1>5, FinanceTypes DEF Finance!Document, Finance!DocKinds, Finance!Invoices, Finance!Vouchers,
     Credit, Paid
<1>7. /\ doc' \in [Docs -> Finance!Document]
      /\ doc'[d].kind = k /\ doc'[d].status = "Draft"
      /\ \A e \in Docs \ {d} : doc'[e] = doc[e]
  BY <1>2, <1>4, <1>6, RowTypes DEF Parts
<1>8. Acts(t) /\ desk'[t] = Finance!Resting
  BY <1>1, <1>3, RowTypes DEF Acts, Only, Parts
<1>9. Finance!TypeOK'
  BY <1>3, <1>7 DEF Parts, Finance!TypeOK
<1>10. DocsInv'
  <2>1. \A e : ~ Past(e) /\ ~ Past(e)'
    BY <1>1, <1>3, RestingIs, NobodyPast DEF Past
  <2>2. \A e : Finance!EntriesOf(e)' = Finance!EntriesOf(e)
    BY <1>3 DEF Finance!EntriesOf
  <2>3. Counted(d)'
    <3>1. Counted(d) /\ doc[d].kind = "none" /\ doc[d].status = "none"
      BY <1>4 DEF Parts, DocsInv, Finance!NoDoc, Finance!Missing
    <3>2. Finance!EntriesOf(d) = {} /\ journals[d] <= crashes /\ journals[d] <= crashes + 1
      BY <2>1, <3>1 DEF Counted, Final, Credit, Paid
    <3> QED
      BY <1>3, <1>5, <1>7, <2>1, <2>2, <3>2 DEF Counted, Final, Credit, Paid
  <2>4. \A e \in Docs : Counted(e)'
    <3>1. ASSUME NEW e \in Docs \ {d} PROVE Counted(e)'
      <4>1. Counted(e)
        BY DEF Parts, DocsInv
      <4> QED
        BY <1>3, <1>7, <2>1, <2>2, <4>1, CountedKept
    <3> QED
      BY <2>3, <3>1
  <2>5. \A u \in Tasks : Carries(u)'
    BY <1>8, RestingIs DEF Acts, Only, Carries, Posting
  <2>6. \A p \in {"customer", "supplier"} : Totalled(p)'
    BY <1>3, TotalledKept DEF Parts
  <2> QED
    BY <1>3, <2>4, <2>5, <2>6 DEF Parts, DocsInv
<1>11. BankInv' /\ MatchInv'
  BY <1>3, <1>8, RestingIs, BankKept, MatchKept DEF Parts
<1>12. QueueInv'
  BY <1>1, <1>3, <1>8, RestingIs, QueueKept DEF Parts
<1> QED
  BY <1>8, <1>9, <1>10, <1>11, <1>12, DeskKept DEF Parts

\* What a step of a handler that posts, and changes no row, has to show.
LEMMA CarriesKept ==
  ASSUME DocsInv, NEW t \in Tasks, Acts(t), Carries(t)',
         doc' = doc, journals' = journals, entries' = entries, clock' = clock, crashes' = crashes,
         \A d \in Docs : Past(d)' <=> Past(d)
  PROVE  DocsInv'
<1>1. \A u \in Tasks \ {t} : desk'[u].pc = "idle"
  BY RestingIs DEF Acts, Only
<1>2. \A u \in Tasks : Carries(u)'
  BY <1>1 DEF Carries, Posting
<1>3. \A d \in Docs : Counted(d)'
  BY DEF DocsInv, Counted, Final, Finance!EntriesOf, Finance!NoDoc
<1> QED
  BY <1>2, <1>3, TotalledKept DEF DocsInv

\* post_invoice and its like: the document is read, and the bank account.
LEMMA BeginPostKeeps ==
  ASSUME Finance!FinanceAssumption, Finance!OneAtATime, Parts, NEW t \in Tasks, Finance!BeginPost(t)
  PROVE  Parts'
<1>1. Only(t) /\ desk[t] = Finance!Resting
  BY BeginsAlone DEF Finance!BeginPost, Parts
<1>2. PICK d \in Docs :
        /\ doc[d].status = "Draft"
        /\ desk' = [desk EXCEPT ![t] = [Finance!Resting EXCEPT !.pc = "journal", !.d = d,
                                          !.row = doc[d], !.bank = bank]]
  BY DEF Finance!BeginPost, Finance!Go, Finance!Postable
<1>3. UNCHANGED <<doc, journals, entries, clock, bank, booked, item, drafts, txn, line, crashes, wanted>>
  BY DEF Finance!BeginPost, Finance!books, Finance!queue, Finance!statement
<1> DEFINE me == [Finance!Resting EXCEPT !.pc = "journal", !.d = d, !.row = doc[d], !.bank = bank]
<1>4. /\ me \in Finance!Task /\ me.pc = "journal" /\ me.d = d /\ me.row = doc[d] /\ me.bank = bank
      /\ me.todo = << >> /\ me.done = {}
  BY RestingType, RestingIs, RowTypes DEF Finance!Task, Parts
<1> HIDE DEF me
<1>5. Acts(t) /\ desk'[t] = me
  BY <1>1, <1>2, <1>4, RowTypes DEF Acts, Only, me, Parts
<1>6. Finance!TypeOK'
  BY <1>3, <1>5 DEF Parts, Acts, Finance!TypeOK
<1>7. DocsInv'
  <2>1. doc[d].kind # "none" /\ doc[d].kind # "asset"
    BY <1>2 DEF Parts, DocsInv, Counted, Finance!NoDoc, Finance!Missing
  <2>2. Carries(t)'
    BY <1>2, <1>3, <1>4, <1>5, <2>1 DEF Carries, Posting
  <2>3. \A e : Past(e)' <=> Past(e)
    BY <1>1, <1>4, <1>5, RestingIs DEF Past, Acts, Only
  <2> QED
    BY <1>3, <1>5, <2>2, <2>3, CarriesKept DEF Parts
<1>8. BankInv'
  BY <1>3, <1>4, <1>5, RestingIs DEF Parts, BankInv, Acts, Only
<1>9. MatchInv'
  BY <1>3, <1>4, <1>5, MatchKept DEF Parts
<1>10. QueueInv'
  BY <1>1, <1>3, <1>4, <1>5, RestingIs, QueueKept DEF Parts
<1> QED
  BY <1>5, <1>6, <1>7, <1>8, <1>9, <1>10, DeskKept DEF Parts

\* create_asset: the row that is inserted after the journal.
LEMMA BeginAcquireKeeps ==
  ASSUME Finance!FinanceAssumption, Finance!OneAtATime, Parts, NEW t \in Tasks,
         Finance!BeginAcquire(t)
  PROVE  Parts'
<1>1. Only(t) /\ desk[t] = Finance!Resting
  BY BeginsAlone DEF Finance!BeginAcquire, Parts
<1>2. PICK d \in Finance!Free(doc, Finance!NoDoc, wanted.docs), a \in 1..MaxAmount :
        desk' = [desk EXCEPT ![t] = [Finance!Resting EXCEPT !.pc = "journal", !.d = d,
                   !.row = [Finance!NoDoc EXCEPT !.kind = "asset", !.status = "Active", !.amount = a]]]
  BY DEF Finance!BeginAcquire, Finance!Go
<1>3. UNCHANGED <<doc, journals, entries, clock, bank, booked, item, drafts, txn, line, crashes, wanted>>
  BY DEF Finance!BeginAcquire, Finance!books, Finance!queue, Finance!statement
<1>4. d \in Docs /\ doc[d] = Finance!NoDoc
  BY RowTypes DEF Parts, Finance!Free
<1> DEFINE row == [Finance!NoDoc EXCEPT !.kind = "asset", !.status = "Active", !.amount = a]
           me == [Finance!Resting EXCEPT !.pc = "journal", !.d = d, !.row = row]
<1>5. /\ row \in Finance!Document /\ row.kind = "asset" /\ row.status = "Active" /\ row.bank = FALSE
  <2>1. Finance!NoDoc \in Finance!Document /\ Finance!NoDoc.bank = FALSE
    BY RestingType DEF Finance!NoDoc
  <2>2. a \in 0..MaxAmount /\ "asset" \in Finance!DocKinds
    BY FinanceTypes DEF Finance!DocKinds
  <2> QED
    BY <2>1, <2>2 DEF Finance!Document
<1> HIDE DEF row
<1>6. /\ me \in Finance!Task /\ me.pc = "journal" /\ me.d = d /\ me.row = row
      /\ me.todo = << >> /\ me.done = {}
  BY <1>4, <1>5, RestingType, RestingIs DEF Finance!Task
<1>7. desk' = [desk EXCEPT ![t] = me]
  BY <1>2 DEF row
<1> HIDE DEF me
<1>8. Acts(t) /\ desk'[t] = me
  BY <1>1, <1>6, <1>7, RowTypes DEF Acts, Only, Parts
<1>9. Finance!TypeOK'
  BY <1>3, <1>8 DEF Parts, Acts, Finance!TypeOK
<1>10. DocsInv'
  <2>1. Carries(t)'
    BY <1>3, <1>4, <1>5, <1>6, <1>8 DEF Carries, Posting, Finance!NoDoc
  <2>2. \A e : Past(e)' <=> Past(e)
    BY <1>1, <1>6, <1>8, RestingIs DEF Past, Acts, Only
  <2> QED
    BY <1>3, <1>8, <2>1, <2>2, CarriesKept DEF Parts
<1>11. BankInv'
  <2>1. Finance!ToBank(me.row) = 0
    BY <1>5, <1>6 DEF Finance!ToBank
  <2>2. desk'[t].pc # "bank" /\ Finance!ToBank(desk'[t].row) = 0
    BY <1>6, <1>8, <2>1
  <2>3. \A u \in Tasks : ~ (desk'[u].pc = "bank" \/ (desk'[u].pc = "journal" /\ Finance!ToBank(desk'[u].row) # 0))
    BY <1>8, <2>2, RestingIs DEF Acts, Only
  <2> QED
    BY <1>3, <2>3 DEF Parts, BankInv, Finance!ToBank
<1>12. MatchInv'
  BY <1>3, <1>6, <1>8, MatchKept DEF Parts
<1>13. QueueInv'
  BY <1>1, <1>3, <1>6, <1>8, RestingIs, QueueKept DEF Parts
<1> QED
  BY <1>8, <1>9, <1>10, <1>11, <1>12, <1>13, DeskKept DEF Parts

\* post_double_entry_journal commits the journal and the balance of the bank.
LEMMA PostJournalKeeps ==
  ASSUME Finance!FinanceAssumption, Finance!OneAtATime, Parts, NEW t \in Tasks,
         Finance!PostJournal(t)
  PROVE  Parts'
<1> DEFINE me == desk[t]
           next == [me EXCEPT !.pc = IF me.row.kind = "asset" THEN "row" ELSE "read",
                              !.stamp = clock + 1]
<1>1. me.pc = "journal" /\ Only(t)
  BY WorksAlone DEF Finance!PostJournal, Parts
<1>2. /\ journals' = [journals EXCEPT ![me.d] = @ + 1]
      /\ bank' = IF Finance!ToBank(me.row) = 0 THEN bank ELSE me.bank + Finance!ToBank(me.row)
      /\ booked' = booked + Finance!ToBank(me.row)
      /\ clock' = clock + 1
      /\ desk' = [desk EXCEPT ![t] = next]
      /\ UNCHANGED <<doc, entries, item, drafts, txn, line, crashes, wanted>>
  BY DEF Finance!PostJournal, Finance!Go, Finance!queue, Finance!statement
<1>3. me \in Finance!Task /\ me.bank \in Int /\ me.row \in Finance!Document /\ clock \in Nat
      /\ journals \in [Docs -> Nat] /\ bank \in Int /\ booked \in Int
  BY RowTypes DEF Parts, Finance!Task
<1> HIDE DEF me
<1>4. /\ next \in Finance!Task /\ next.d = me.d /\ next.row = me.row /\ next.stamp = clock + 1
      /\ next.pc = IF me.row.kind = "asset" THEN "row" ELSE "read"
      /\ next.todo = me.todo /\ next.done = me.done
  <2>1. (IF me.row.kind = "asset" THEN "row" ELSE "read") \in {"row", "read"} /\ clock + 1 \in Nat
    BY <1>3
  <2> QED
    BY <1>3, <2>1 DEF Finance!Task
<1> HIDE DEF next
<1>5. Acts(t) /\ desk'[t] = next
  BY <1>1, <1>2, <1>4, RowTypes DEF Acts, Only, Parts
<1>6. Finance!ToBank(me.row) \in Int
  BY <1>3, FinanceTypes DEF Finance!ToBank, Finance!Document
<1>7. /\ Posting(t) /\ me.d \in Docs /\ me.row.kind # "none"
      /\ me.row.kind # "asset" => me.row = doc[me.d] /\ me.row.status = "Draft"
      /\ me.row.kind = "asset" => doc[me.d] = Finance!NoDoc /\ me.row.status = "Active"
  BY <1>1 DEF Parts, DocsInv, Carries, Posting, me
<1> PICK d \in Docs : d = me.d
  BY <1>7
<1>8. Finance!TypeOK'
  <2>1. journals' \in [Docs -> Nat] /\ bank' \in Int /\ booked' \in Int /\ clock' \in Nat
    BY <1>2, <1>3, <1>6, <1>7
  <2> QED
    BY <1>2, <1>5, <2>1 DEF Parts, Acts, Finance!TypeOK
<1>9. BankInv'
  <2>1. bank = booked /\ (Finance!ToBank(me.row) # 0 => me.bank = bank)
    BY <1>1 DEF Parts, BankInv, me
  <2>2. bank' = booked'
    BY <1>2, <1>3, <1>6, <2>1
  <2>3. \A u \in Tasks : desk'[u].pc \notin {"bank", "journal"}
    BY <1>4, <1>5, RestingIs DEF Acts, Only
  <2> QED
    BY <2>2, <2>3 DEF BankInv
<1>10. DocsInv'
  <2>1. \A c : ~ Past(c) /\ (Past(c)' <=> c = d)
    <3>1. desk'[t].pc \in {"read", "entry", "row"} /\ desk'[t].d = me.d
      BY <1>4, <1>5
    <3> QED
      BY <1>1, <1>5, <3>1, NobodyPast, RestingIs DEF Past, Acts, Only, me
  <2>2. \A c : Finance!EntriesOf(c)' = Finance!EntriesOf(c)
    BY <1>2 DEF Finance!EntriesOf
  <2>3. ASSUME NEW c \in Docs, c # d PROVE Counted(c)'
    <3>1. Counted(c) /\ journals'[c] = journals[c]
      BY <1>2, <1>3, <2>3 DEF Parts, DocsInv
    <3> QED
      BY <1>2, <2>1, <2>2, <2>3, <3>1, CountedKept
  <2>4. Counted(d)'
    <3>1. Counted(d)
      BY <1>7 DEF Parts, DocsInv
    <3>2. journals'[d] = journals[d] + 1 /\ journals[d] \in Nat
      BY <1>2, <1>3, <1>7
    <3>3. ~ Final(d)
      BY <1>7 DEF Final, Finance!NoDoc, Finance!Missing
    <3>4. crashes \in Int
      BY DEF Parts, Finance!TypeOK
    <3>5. doc[d].kind \notin Paid => journals[d] <= crashes
      BY <2>1, <3>1, <3>3 DEF Counted
    <3>6. doc[d].kind \notin Paid => journals'[d] <= crashes' + 1 /\ journals'[d] >= 1
      BY <1>2, <3>2, <3>4, <3>5
    <3> QED
      BY <1>2, <2>1, <2>2, <3>1, <3>3, <3>6 DEF Counted, Final, Finance!NoDoc
  <2>5. \A e \in entries : e.stamp < clock'
    <3>1. \A e \in entries : e.stamp \in Nat /\ e.stamp <= clock
      BY RowTypes DEF Parts, DocsInv, Finance!Entry
    <3> QED
      BY <1>2, <1>3, <3>1
  <2>6. Carries(t)'
    BY <1>2, <1>4, <1>5, <1>7, <2>5 DEF Carries, Posting, Finance!NoDoc
  <2>7. \A u \in Tasks : Carries(u)'
    BY <1>5, <2>6, RestingIs DEF Acts, Only, Carries, Posting
  <2>8. \A p \in {"customer", "supplier"} : Totalled(p)'
    BY <1>2, TotalledKept DEF Parts
  <2>9. \A e \in entries : e.stamp <= clock'
    BY <1>2, <1>3, RowTypes DEF Parts, DocsInv, Finance!Entry
  <2> QED
    BY <1>2, <2>3, <2>4, <2>7, <2>8, <2>9 DEF Parts, DocsInv
<1>11. MatchInv'
  BY <1>2, <1>4, <1>5, MatchKept DEF Parts
<1>12. QueueInv'
  <2>1. me.todo = << >> /\ me.done = {}
    BY <1>1 DEF Parts, QueueInv, Waiting, me
  <2> QED
    BY <1>2, <1>4, <1>5, <2>1, QueueKept DEF Parts, me
<1> QED
  BY <1>5, <1>8, <1>9, <1>10, <1>11, <1>12, DeskKept DEF Parts

\* What the end of a posting has to show, apart from the rows of the documents.
LEMMA PostingEnds ==
  ASSUME Finance!FinanceAssumption, Finance!OneAtATime, Parts, NEW t \in Tasks, Posting(t),
         desk' = [desk EXCEPT ![t] = Finance!Resting],
         UNCHANGED <<bank, booked, item, drafts, txn, line, crashes, wanted>>
  PROVE  /\ Only(t) /\ Acts(t) /\ desk'[t] = Finance!Resting
         /\ OneDesk' /\ BankInv' /\ MatchInv' /\ QueueInv'
         /\ \A d : (Past(d) <=> d = desk[t].d /\ desk[t].pc # "journal") /\ ~ Past(d)'
         /\ \A u \in Tasks : Carries(u)'
<1>1. Only(t)
  BY WorksAlone DEF Posting, Parts
<1>2. Acts(t) /\ desk'[t] = Finance!Resting
  BY <1>1, RowTypes, RestingType DEF Acts, Only, Parts
<1>3. OneDesk' /\ BankInv' /\ MatchInv'
  BY <1>2, RestingIs, DeskKept, BankKept, MatchKept DEF Parts
<1>4. desk[t].done = {}
  BY DEF Posting, Parts, QueueInv, Waiting
<1>5. QueueInv'
  BY <1>2, <1>4, RestingIs, QueueKept DEF Parts
<1>6. \A d : (Past(d) <=> d = desk[t].d /\ desk[t].pc # "journal") /\ ~ Past(d)'
  BY <1>1, <1>2, RestingIs DEF Past, Acts, Only, Posting
<1>7. \A u \in Tasks : Carries(u)'
  BY <1>2, RestingIs DEF Acts, Only, Carries, Posting
<1> QED
  BY <1>1, <1>2, <1>3, <1>5, <1>6, <1>7

\* The asset is inserted when its journal is there.
LEMMA InsertAssetKeeps ==
  ASSUME Finance!FinanceAssumption, Finance!OneAtATime, Parts, NEW t \in Tasks,
         Finance!InsertAsset(t)
  PROVE  Parts'
<1> DEFINE me == desk[t]
<1>1. /\ me.pc = "row" /\ doc' = [doc EXCEPT ![me.d] = me.row]
      /\ desk' = [desk EXCEPT ![t] = Finance!Resting]
      /\ UNCHANGED <<journals, entries, clock, bank, booked, item, drafts, txn, line, crashes, wanted>>
  BY DEF Finance!InsertAsset, Finance!Stop, Finance!Go, Finance!queue, Finance!statement
<1>2. Posting(t)
  BY <1>1 DEF Posting
<1>3. /\ Only(t) /\ Acts(t) /\ desk'[t] = Finance!Resting
      /\ OneDesk' /\ BankInv' /\ MatchInv' /\ QueueInv'
      /\ \A c : (Past(c) <=> c = me.d /\ me.pc # "journal") /\ ~ Past(c)'
      /\ \A u \in Tasks : Carries(u)'
  BY <1>1, <1>2, PostingEnds
<1>4. /\ me.d \in Docs /\ me.row.kind = "asset" /\ doc[me.d] = Finance!NoDoc
      /\ me.row.status = "Active" /\ me.row \in Finance!Document
  BY <1>1, <1>2, RowTypes DEF Parts, DocsInv, Carries, Finance!Task
<1> HIDE DEF me
<1>5. /\ doc' \in [Docs -> Finance!Document] /\ doc'[me.d] = me.row
      /\ \A d \in Docs \ {me.d} : doc'[d] = doc[d]
  BY <1>1, <1>4, RowTypes DEF Parts
<1> PICK d \in Docs : d = me.d
  BY <1>4
<1>6. Finance!TypeOK'
  BY <1>1, <1>3, <1>5 DEF Parts, Acts, Finance!TypeOK
<1>7. DocsInv'
  <2>1. \A c : Finance!EntriesOf(c)' = Finance!EntriesOf(c)
    BY <1>1 DEF Finance!EntriesOf
  <2>2. ASSUME NEW c \in Docs, c # d PROVE Counted(c)'
    <3>1. Counted(c) /\ (Past(c)' <=> Past(c))
      BY <1>3, <2>2 DEF Parts, DocsInv
    <3> QED
      BY <1>1, <1>5, <2>1, <2>2, <3>1, CountedKept
  <2>3. Counted(d)'
    <3>1. Counted(d) /\ Past(d)
      BY <1>1, <1>3, <1>4 DEF Parts, DocsInv
    <3>2. Finance!EntriesOf(d) = {} /\ journals[d] <= crashes + 1 /\ journals[d] >= 1
      BY <1>4, <3>1 DEF Counted, Final, Credit, Paid, Finance!NoDoc, Finance!Missing
    <3>3. journals[d] \in 1 .. 1 + crashes
      BY <1>4, <3>2, RowTypes DEF Parts
    <3> QED
      BY <1>1, <1>3, <1>4, <1>5, <2>1, <3>2, <3>3 DEF Counted, Final, Credit, Paid
  <2>4. \A p \in {"customer", "supplier"} : Totalled(p)'
    BY <1>1, TotalledKept DEF Parts
  <2> QED
    BY <1>1, <1>3, <2>2, <2>3, <2>4 DEF Parts, DocsInv
<1> QED
  BY <1>3, <1>6, <1>7 DEF Parts

\* The entry of a voucher is dropped with the session.
LEMMA DropEntryKeeps ==
  ASSUME Finance!FinanceAssumption, Finance!OneAtATime, Parts, NEW t \in Tasks,
         Finance!DropEntry(t)
  PROVE  Parts'
<1> DEFINE me == desk[t]
<1>1. /\ me.pc = "entry" /\ me.row.kind \in Paid
      /\ desk' = [desk EXCEPT ![t] = Finance!Resting]
      /\ UNCHANGED <<doc, journals, entries, clock, bank, booked, item, drafts, txn, line, crashes, wanted>>
  BY DEF Finance!DropEntry, Finance!Stop, Finance!Go, Finance!books, Finance!queue, Finance!statement,
         Finance!Vouchers, Paid
<1>2. Posting(t)
  BY <1>1 DEF Posting
<1>3. /\ Only(t) /\ Acts(t) /\ desk'[t] = Finance!Resting
      /\ OneDesk' /\ BankInv' /\ MatchInv' /\ QueueInv'
      /\ \A c : (Past(c) <=> c = me.d /\ me.pc # "journal") /\ ~ Past(c)'
      /\ \A u \in Tasks : Carries(u)'
  BY <1>1, <1>2, PostingEnds
<1>4. me.d \in Docs /\ doc[me.d] = me.row
  BY <1>1, <1>2 DEF Parts, DocsInv, Carries, Paid
<1> PICK d \in Docs : d = me.d
  BY <1>4
<1>5. Finance!TypeOK'
  BY <1>1, <1>3 DEF Parts, Acts, Finance!TypeOK
<1>6. DocsInv'
  <2>1. \A c : Finance!EntriesOf(c)' = Finance!EntriesOf(c)
    BY <1>1 DEF Finance!EntriesOf
  <2>2. ASSUME NEW c \in Docs, c # d PROVE Counted(c)'
    <3>1. Counted(c) /\ (Past(c)' <=> Past(c))
      BY <1>3, <2>2 DEF Parts, DocsInv
    <3> QED
      BY <1>1, <2>1, <2>2, <3>1, CountedKept
  <2>3. Counted(d)'
    <3>1. Counted(d) /\ doc'[d].kind \in Paid
      BY <1>1, <1>4 DEF Parts, DocsInv
    <3> QED
      BY <1>1, <2>1, <3>1 DEF Counted, Final, Credit, Paid
  <2>4. \A p \in {"customer", "supplier"} : Totalled(p)'
    BY <1>1, TotalledKept DEF Parts
  <2> QED
    BY <1>1, <1>3, <2>2, <2>3, <2>4 DEF Parts, DocsInv
<1> QED
  BY <1>3, <1>5, <1>6 DEF Parts

\* A handler reads the last running balance, which is the sum so far.
LEMMA ReadBalanceKeeps ==
  ASSUME Finance!FinanceAssumption, Finance!OneAtATime, Parts, NEW t \in Tasks,
         Finance!ReadBalance(t)
  PROVE  Parts'
<1> DEFINE me == desk[t]
           p == Finance!Party(me.row.kind)
           next == [me EXCEPT !.pc = "entry", !.prev = Finance!LastBalance(p)]
<1>1. me.pc = "read" /\ Only(t)
  BY WorksAlone DEF Finance!ReadBalance, Parts
<1>2. /\ desk' = [desk EXCEPT ![t] = next]
      /\ UNCHANGED <<doc, journals, entries, clock, bank, booked, item, drafts, txn, line, crashes, wanted>>
  BY DEF Finance!ReadBalance, Finance!Go, Finance!books, Finance!queue, Finance!statement
<1>3. /\ Finance!LastBalance(p) = SumOver(Values(entries), Finance!LedgerOf(p))
      /\ Finance!LastBalance(p) \in Int
  <2>1. p \in {"customer", "supplier"}
    BY DEF Finance!Party
  <2> HIDE DEF p
  <2>2. /\ IsFiniteSet(Finance!LedgerOf(p)) /\ Finance!LedgerOf(p) \subseteq entries
        /\ \A e \in entries : e.stamp \in Nat /\ e.running \in Int
    BY RowTypes, FS_Subset DEF Parts, DocsInv, Finance!LedgerOf, Finance!Entry
  <2>3. CASE Finance!LedgerOf(p) = {}
    BY <2>3, SumEmpty DEF Finance!LastBalance
  <2>4. CASE Finance!LedgerOf(p) # {}
    <3> DEFINE last == CHOOSE e \in Finance!LedgerOf(p) : \A f \in Finance!LedgerOf(p) : f.stamp <= e.stamp
    <3>1. \E e \in Finance!LedgerOf(p) : \A f \in Finance!LedgerOf(p) : f.stamp <= e.stamp
      BY <2>1, <2>4 DEF Parts, DocsInv, Totalled
    <3>2. last \in Finance!LedgerOf(p) /\ \A f \in Finance!LedgerOf(p) : f.stamp <= last.stamp
      BY <3>1
    <3>3. Finance!LastBalance(p) = last.running
      BY <2>4 DEF Finance!LastBalance
    <3> HIDE DEF last
    <3>4. Upto(p, last.stamp) = Finance!LedgerOf(p)
      BY <3>2 DEF Upto
    <3>5. last.running = SumOver(Values(entries), Upto(p, last.stamp))
      BY <2>1, <3>2 DEF Parts, DocsInv, Totalled
    <3> QED
      BY <2>2, <3>2, <3>3, <3>4, <3>5
  <2> QED
    BY <2>3, <2>4
<1>4. me \in Finance!Task /\ Carries(t)
  BY RowTypes DEF Parts, DocsInv
<1> HIDE DEF p, me
<1> PICK n \in Int : n = Finance!LastBalance(p)
  BY <1>3
<1>5. /\ next \in Finance!Task /\ next.d = me.d /\ next.row = me.row /\ next.stamp = me.stamp
      /\ next.pc = "entry" /\ next.prev = Finance!LastBalance(p)
      /\ next.todo = me.todo /\ next.done = me.done
  <2>1. next = [me EXCEPT !.pc = "entry", !.prev = n] /\ me \in Finance!Task
    BY <1>4
  <2> HIDE DEF next
  <2> QED
    BY <2>1 DEF Finance!Task
<1> HIDE DEF next
<1>6. Acts(t) /\ desk'[t] = next
  BY <1>1, <1>2, <1>5, RowTypes DEF Acts, Only, Parts
<1>7. Finance!TypeOK'
  BY <1>2, <1>6 DEF Parts, Acts, Finance!TypeOK
<1>8. DocsInv'
  <2>1. \A d : Past(d)' <=> Past(d)
    BY <1>1, <1>5, <1>6, RestingIs DEF Past, Acts, Only, me
  <2>2. next.prev = SumOver(Values(entries), Finance!LedgerOf(Finance!Party(next.row.kind)))
    BY <1>3, <1>5 DEF p
  <2>3. Finance!Party(desk[t].row.kind)' = Finance!Party(next.row.kind)
    BY <1>6 DEF Finance!Party
  <2>4. desk'[t].pc = "entry" =>
          desk'[t].prev = SumOver(Values(entries), Finance!LedgerOf(Finance!Party(desk[t].row.kind)))'
    BY <1>2, <1>6, <2>2, <2>3 DEF Values, Finance!LedgerOf
  <2>5. Carries(t)'
    BY <1>1, <1>2, <1>4, <1>5, <1>6, <2>4 DEF Carries, Posting, Finance!NoDoc, me
  <2> QED
    BY <1>2, <1>6, <2>1, <2>5, CarriesKept DEF Parts
<1>9. BankInv' /\ MatchInv'
  BY <1>2, <1>5, <1>6, BankKept, MatchKept DEF Parts
<1>10. QueueInv'
  <2>1. me.todo = << >> /\ me.done = {}
    BY <1>1 DEF Parts, QueueInv, Waiting, me
  <2> QED
    BY <1>2, <1>5, <1>6, <2>1, QueueKept DEF Parts, me
<1> QED
  BY <1>6, <1>7, <1>8, <1>9, <1>10, DeskKept DEF Parts

\* The entry of an invoice or bill, with the status of the document: its only
\* one, and the last in the ledger of its party.
LEMMA WriteEntryKeeps ==
  ASSUME Finance!FinanceAssumption, Finance!OneAtATime, Parts, NEW t \in Tasks,
         Finance!WriteEntry(t)
  PROVE  Parts'
<1> DEFINE me == desk[t]
           p == Finance!Party(me.row.kind)
           e0 == [doc |-> me.d, party |-> p, stamp |-> me.stamp,
                  delta |-> Finance!Delta(me.row), running |-> me.prev + Finance!Delta(me.row)]
<1>1. /\ me.pc = "entry" /\ me.row.kind \in Credit
      /\ entries' = entries \cup {e0}
      /\ doc' = [doc EXCEPT ![me.d].status = "Posted"]
      /\ desk' = [desk EXCEPT ![t] = Finance!Resting]
      /\ UNCHANGED <<journals, clock, bank, booked, item, drafts, txn, line, crashes, wanted>>
  BY DEF Finance!WriteEntry, Finance!Stop, Finance!Go, Finance!queue, Finance!statement,
         Finance!Invoices, Credit
<1>2. Posting(t)
  BY <1>1 DEF Posting
<1>3. /\ Only(t) /\ Acts(t) /\ desk'[t] = Finance!Resting
      /\ OneDesk' /\ BankInv' /\ MatchInv' /\ QueueInv'
      /\ \A c : (Past(c) <=> c = me.d /\ me.pc # "journal") /\ ~ Past(c)'
      /\ \A u \in Tasks : Carries(u)'
  BY <1>1, <1>2, PostingEnds
<1>4. /\ me.d \in Docs /\ doc[me.d] = me.row /\ me.row.status = "Draft"
      /\ me.stamp = clock /\ (\A e \in entries : e.stamp < clock)
      /\ me.prev = SumOver(Values(entries), Finance!LedgerOf(p))
  BY <1>1, <1>2 DEF Parts, DocsInv, Carries, Credit
<1>5. /\ me.row \in Finance!Document /\ me.prev \in Int /\ me.stamp \in Nat /\ clock \in Nat
      /\ entries \subseteq Finance!Entry
  <2>1. me \in Finance!Task /\ clock \in Nat /\ entries \subseteq Finance!Entry
    BY RowTypes DEF Parts
  <2> HIDE DEF me
  <2> QED
    BY <2>1 DEF Finance!Task
<1>6. Finance!Delta(me.row) \in Int /\ p \in {"customer", "supplier"}
  BY <1>1, <1>5, FinanceTypes DEF Finance!Delta, Finance!Party, Finance!Invoices, Finance!Document, Credit
<1> PICK d \in Docs : d = me.d
  BY <1>4
<1> PICK q \in {"customer", "supplier"} : q = p
  BY <1>6
<1> PICK e \in {e0} : e = e0
  OBVIOUS
<1>7. /\ e \in Finance!Entry /\ e.doc = d /\ e.party = q /\ e.stamp = clock
      /\ e.delta \in Int /\ e.running = me.prev + e.delta /\ e.running \in Int
  BY <1>4, <1>5, <1>6 DEF Finance!Entry, Finance!Parties
<1>8. entries' = entries \cup {e} /\ e \notin entries
  BY <1>1, <1>4, <1>5, <1>7 DEF Finance!Entry
<1>9. me.prev = SumOver(Values(entries), Finance!LedgerOf(q))
  BY <1>4
<1>10. /\ doc' \in [Docs -> Finance!Document] /\ doc'[d].kind = doc[d].kind
       /\ doc'[d].status = "Posted" /\ \A c \in Docs \ {d} : doc'[c] = doc[c]
  <2>1. doc \in [Docs -> [kind: Finance!DocKinds \cup {"none"},
                          status: {"none", "Draft", "Posted", "Active"},
                          amount: 0..MaxAmount, bank: BOOLEAN]]
    BY RowTypes DEF Parts, Finance!Document, Finance!Missing
  <2> QED
    BY <1>1, <2>1 DEF Finance!Document, Finance!Missing
<1>11. doc[d].kind \in Credit /\ doc[d].status = "Draft" /\ Past(d)
  BY <1>1, <1>3, <1>4
<1>12. entries' \subseteq Finance!Entry
  BY <1>5, <1>7, <1>8
<1> HIDE DEF me, p, e0
<1>13. Finance!TypeOK'
  BY <1>1, <1>3, <1>10, <1>12 DEF Parts, Acts, Finance!TypeOK
<1>14. IsFiniteSet(entries') /\ IsFiniteSet(entries)
  BY <1>8, FS_AddElement DEF Parts, DocsInv
<1>15. \A f \in entries' : f.stamp <= clock'
  BY <1>1, <1>5, <1>7, <1>8 DEF Parts, DocsInv
<1>16. ASSUME NEW c \in Docs PROVE Counted(c)'
  <2>1. Counted(c)
    BY DEF Parts, DocsInv
  <2>2. CASE c # d
    <3>1. Finance!EntriesOf(c)' = Finance!EntriesOf(c)
      BY <1>7, <1>8, <2>2 DEF Finance!EntriesOf
    <3>2. Past(c)' <=> Past(c)
      BY <1>3, <2>2 DEF me
    <3> QED
      BY <1>1, <1>8, <1>10, <2>1, <2>2, <3>1, <3>2, CountedKept
  <2>3. CASE c = d
    <3>1. Finance!EntriesOf(d) = {}
      BY <1>11, <2>1, <2>3 DEF Counted, Final
    <3>2. Finance!EntriesOf(d)' = {e}
      BY <1>7, <1>8, <3>1 DEF Finance!EntriesOf
    <3>3. journals[d] <= crashes + 1 /\ journals[d] >= 1
      BY <1>11, <2>1, <2>3 DEF Counted, Final, Credit, Paid
    <3>4. journals'[d] \in 1 .. 1 + crashes'
      BY <1>1, <3>3, RowTypes DEF Parts
    <3> QED
      BY <1>3, <1>8, <1>10, <1>11, <2>3, <3>2, <3>4 DEF Counted, Final, Credit, Paid
  <2> QED
    BY <2>2, <2>3
<1>17. ASSUME NEW r \in {"customer", "supplier"} PROVE Totalled(r)'
  <2>1. Totalled(r) /\ Finance!LedgerOf(r) \subseteq entries
    BY DEF Parts, DocsInv, Finance!LedgerOf
  <2>2. ASSUME NEW S \in SUBSET entries
        PROVE  /\ IsFiniteSet(S) /\ \A f \in S : Values(entries')[f] \in Int
               /\ SumOver(Values(entries'), S) = SumOver(Values(entries), S)
    <3>1. IsFiniteSet(S)
      BY <1>14, FS_Subset
    <3>2. \A f \in S : Values(entries)[f] = Values(entries')[f] /\ Values(entries')[f] \in Int
      BY <1>5, <1>8 DEF Values, Finance!Entry
    <3> QED
      BY <3>1, <3>2, SumAgree
  <2>3. ASSUME NEW f \in Finance!LedgerOf(r)
        PROVE  f.running = SumOver(Values(entries'), Upto(r, f.stamp)')
    <3>1. f.stamp < clock /\ f.stamp \in Nat
      BY <1>4, <1>5, <2>1 DEF Finance!Entry
    <3>2. {g \in Finance!LedgerOf(r)' : g.stamp <= f.stamp} = Upto(r, f.stamp)
      BY <1>5, <1>7, <1>8, <3>1 DEF Finance!LedgerOf, Upto
    <3>3. Upto(r, f.stamp)' = Upto(r, f.stamp)
      BY <3>2 DEF Upto
    <3>4. Upto(r, f.stamp) \subseteq entries
      BY <2>1 DEF Upto
    <3> QED
      BY <2>1, <2>2, <3>3, <3>4 DEF Totalled
  <2>4. CASE r # q
    <3>1. Finance!LedgerOf(r)' = Finance!LedgerOf(r)
      BY <1>7, <1>8, <2>4 DEF Finance!LedgerOf
    <3> QED
      BY <2>1, <2>3, <3>1 DEF Totalled
  <2>5. CASE r = q
    <3>1. Finance!LedgerOf(r)' = Finance!LedgerOf(r) \cup {e}
      BY <1>7, <1>8, <2>5 DEF Finance!LedgerOf
    <3>2. \A f \in Finance!LedgerOf(r)' : f.stamp <= e.stamp
      BY <1>4, <1>5, <1>7, <2>1, <3>1 DEF Finance!Entry
    <3>3. Upto(r, e.stamp)' = Finance!LedgerOf(r) \cup {e}
      BY <3>1, <3>2 DEF Upto
    <3>4. SumOver(Values(entries'), Finance!LedgerOf(r) \cup {e}) =
            SumOver(Values(entries'), Finance!LedgerOf(r)) + Values(entries')[e]
      <4>1. Values(entries')[e] \in Int /\ e \notin Finance!LedgerOf(r)
        BY <1>7, <1>8, <2>1 DEF Values
      <4> QED
        BY <2>1, <2>2, <4>1, SumPut
    <3>5. Values(entries')[e] = e.delta
      BY <1>8 DEF Values
    <3>6. e.running = SumOver(Values(entries'), Upto(r, e.stamp)')
      BY <1>7, <1>9, <2>1, <2>2, <2>5, <3>3, <3>4, <3>5
    <3>7. \A f \in Finance!LedgerOf(r)' : f.running = SumOver(Values(entries'), Upto(r, f.stamp)')
      BY <2>3, <3>1, <3>6
    <3> QED
      BY <3>1, <3>2, <3>7 DEF Totalled
  <2> QED
    BY <2>4, <2>5
<1>18. DocsInv'
  BY <1>3, <1>14, <1>15, <1>16, <1>17 DEF DocsInv
<1> QED
  BY <1>3, <1>13, <1>18 DEF Parts

----------------------------------------------------------------------------
(* The posting queue *)

\* With one handler, what is done and not flushed is what that handler did.
LEMMA HandledByOne ==
  ASSUME NEW t \in Tasks, Only(t), NEW i
  PROVE  Handled(i) <=> \E s \in {"Posted", "Skipped", "Failed"} : <<i, s>> \in desk[t].done
BY RestingIs DEF Only, Handled

\* What a step of the queue has to show about the other parts.
LEMMA QueueOnly ==
  ASSUME Parts, NEW t \in Tasks, Acts(t),
         desk[t].pc \notin {"journal", "read", "entry", "row"},
         desk'[t].pc \notin {"journal", "read", "entry", "row", "bank", "match"},
         UNCHANGED <<doc, journals, entries, clock, bank, booked, txn, line, crashes, wanted>>,
         item' \in [Items -> Finance!Item], drafts' \in [Items -> [open: Nat, posted: Nat]],
         QueueInv'
  PROVE  Parts'
<1>1. Finance!TypeOK'
  BY DEF Parts, Acts, Finance!TypeOK
<1>2. DocsInv' /\ BankInv' /\ MatchInv'
  BY DocsKept, BankKept, MatchKept DEF Parts
<1> QED
  BY <1>1, <1>2, DeskKept DEF Parts

\* The handlers at rest wait for nothing.
LEMMA OthersWait ==
  ASSUME NEW t \in Tasks, Acts(t), Waiting(t)'
  PROVE  \A u \in Tasks : Waiting(u)'
<1>1. \A u \in Tasks \ {t} : desk'[u].pc = "idle" /\ desk'[u].todo = << >> /\ desk'[u].done = {}
  BY RestingIs DEF Acts, Only
<1>2. \A u \in Tasks \ {t} : Waiting(u)'
  BY <1>1 DEF Waiting
<1> QED
  BY <1>2

\* A producer enqueues a pending item.
LEMMA EnqueueKeeps ==
  ASSUME Finance!FinanceAssumption, Finance!OneAtATime, Parts, wanted \in Wishes,
         NEW t \in Tasks, Finance!Enqueue(t)
  PROVE  Parts'
<1>1. Only(t) /\ desk[t] = Finance!Resting
  BY BeginsAlone DEF Finance!Enqueue, Parts
<1>2. PICK i \in Finance!Free(item, Finance!NoItem, wanted.items), s \in {"none", "small", "large"},
           n \in BOOLEAN :
        item' = [item EXCEPT ![i] = [status |-> "Pending", size |-> s, named |-> n]]
  BY DEF Finance!Enqueue
<1>3. UNCHANGED <<doc, journals, entries, clock, bank, booked, drafts, txn, line, desk, crashes, wanted>>
  BY DEF Finance!Enqueue, Finance!books, Finance!statement
<1>4. i \in Items /\ item[i] = Finance!NoItem
  BY RowTypes DEF Parts, Finance!Free
<1>5. [status |-> "Pending", size |-> s, named |-> n] \in Finance!Item
  BY DEF Finance!Item
<1>6. /\ item' \in [Items -> Finance!Item] /\ item'[i].status = "Pending"
      /\ \A j \in Items \ {i} : item'[j] = item[j]
  BY <1>2, <1>4, <1>5, RowTypes DEF Parts
<1>7. Acts(t) /\ desk'[t] = Finance!Resting
  BY <1>1, <1>3, RowTypes DEF Acts, Only, Parts
<1>8. item[i].status = "none" /\ drafts[i].posted = 0
  BY <1>4 DEF Parts, QueueInv, Finance!NoItem, Finance!Missing
<1>9. crashes \in Nat
  <2>1. wanted.crashes \in Nat
    BY DEF Finance!FinanceAssumption, Finance!Scenario
  <2> QED
    BY <2>1, RowTypes DEF Parts
<1>10. Waiting(t)'
  BY <1>7, RestingIs DEF Waiting
<1>11. \A j : ~ Handled(j) /\ ~ Handled(j)'
  BY <1>1, <1>7, RestingIs, HandledByOne DEF Acts, Only, Handled
<1>12. ASSUME NEW j \in Items
       PROVE  /\ item'[j].status = "none" => item'[j] = Finance!NoItem /\ drafts[j].posted = 0
              /\ item'[j].status = "Pending" /\ item'[j].named => drafts[j].posted = 0
              /\ item'[j].status = "Pending" => drafts[j].posted <= crashes
              /\ drafts[j].posted <= 1 + IF item'[j].named THEN 0 ELSE crashes
  <2>1. CASE j = i
    BY <1>6, <1>8, <1>9, <2>1
  <2>2. CASE j # i
    BY <1>6, <1>11, <2>2 DEF Parts, QueueInv
  <2> QED
    BY <2>1, <2>2
<1>13. QueueInv'
  <2>1. Finance!NoItem' = Finance!NoItem
    BY DEF Finance!NoItem
  <2> QED
    BY <1>3, <1>7, <1>10, <1>12, <2>1, OthersWait DEF QueueInv
<1> QED
  BY <1>1, <1>3, <1>6, <1>7, <1>13, RestingIs, RowTypes, QueueOnly DEF Parts

\* The worker reads the pending items once, in some order.
LEMMA BeginProcessKeeps ==
  ASSUME Finance!FinanceAssumption, Finance!OneAtATime, Parts, NEW t \in Tasks,
         Finance!BeginProcess(t)
  PROVE  Parts'
<1> DEFINE pending == {i \in Items : item[i].status = "Pending"}
           n == Cardinality(pending)
<1>1. Only(t) /\ desk[t] = Finance!Resting
  BY BeginsAlone DEF Finance!BeginProcess, Parts
<1>2. IsFiniteSet(pending) /\ n \in Nat
  BY FinanceTypes, FS_Subset, FS_CardinalityType
<1>3. Finance!Cardinality(pending) = n
  BY DEF Finance!Cardinality, Cardinality
<1> HIDE DEF n
<1>4. PICK order \in [1..n -> pending] :
        /\ \A i \in pending : \E k \in DOMAIN order : order[k] = i
        /\ desk' = [desk EXCEPT ![t] = [Finance!Resting EXCEPT !.pc = "item", !.todo = order]]
  BY <1>3 DEF Finance!BeginProcess, Finance!Go
<1>5. UNCHANGED <<doc, journals, entries, clock, bank, booked, item, drafts, txn, line, crashes, wanted>>
  BY DEF Finance!BeginProcess, Finance!books, Finance!queue, Finance!statement
<1>6. pending \subseteq Items
  OBVIOUS
<1>7. \A i \in pending : item[i].status = "Pending"
  OBVIOUS
<1> HIDE DEF pending
<1>8. order \in Seq(Items) /\ DOMAIN order = 1..n /\ \A k \in 1..n : order[k] \in pending
  BY <1>2, <1>4, <1>6
<1>9. \A k, m \in 1..n : order[k] = order[m] => k = m
  <2>1. order \in Surjection(1..n, pending)
    BY <1>4 DEF Surjection
  <2>2. IsFiniteSet(1..n) /\ Cardinality(1..n) = n
    BY <1>2, FS_Interval
  <2>3. order \in Injection(1..n, pending)
    BY <1>2, <2>1, <2>2, FS_SurjSameCardinalityImpliesInj DEF n
  <2> QED
    BY <2>3 DEF Injection, IsInjective
<1> DEFINE me == [Finance!Resting EXCEPT !.pc = "item", !.todo = order]
<1>10. me \in Finance!Task /\ me.pc = "item" /\ me.todo = order /\ me.done = {}
  BY <1>8, RestingType, RestingIs DEF Finance!Task
<1> HIDE DEF me
<1>11. Acts(t) /\ desk'[t] = me
  BY <1>1, <1>4, <1>10, RowTypes DEF Acts, Only, me, Parts
<1>12. Waiting(t)'
  BY <1>5, <1>7, <1>8, <1>9, <1>10, <1>11 DEF Waiting
<1>13. \A j : ~ Handled(j) /\ ~ Handled(j)'
  BY <1>1, <1>10, <1>11, RestingIs DEF Acts, Only, Handled
<1>14. QueueInv'
  <2>1. Finance!NoItem' = Finance!NoItem
    BY DEF Finance!NoItem
  <2> QED
    BY <1>5, <1>11, <1>12, <1>13, <2>1, OthersWait DEF Parts, QueueInv
<1> QED
  BY <1>1, <1>5, <1>10, <1>11, <1>14, RestingIs, RowTypes, QueueOnly DEF Parts

\* The worker is done with the first item.
LEMMA Assigned ==
  ASSUME Finance!FinanceAssumption, Finance!OneAtATime, Parts, NEW t \in Tasks,
         desk[t].pc \in {"item", "post"}, desk[t].todo # << >>,
         NEW s \in {"Posted", "Skipped", "Failed"},
         Finance!Assign(t, Head(desk[t].todo), s)
  PROVE  /\ Only(t) /\ Acts(t) /\ desk'[t].pc = "item"
         /\ desk[t].todo[1] \in Items
         /\ desk'[t].done = desk[t].done \cup {<<desk[t].todo[1], s>>}
         /\ \A k \in DOMAIN desk'[t].todo :
              k + 1 \in DOMAIN desk[t].todo /\ desk'[t].todo[k] = desk[t].todo[k + 1] /\ k + 1 # 1
         /\ DOMAIN desk'[t].todo \subseteq Nat
<1> DEFINE me == desk[t]
           next == [me EXCEPT !.pc = "item", !.todo = Tail(@), !.done = @ \cup {<<Head(me.todo), s>>}]
<1>1. Only(t)
  BY WorksAlone DEF Parts
<1>2. me \in Finance!Task
  BY RowTypes DEF Parts
<1>3. desk' = [desk EXCEPT ![t] = next]
  BY DEF Finance!Assign, Finance!Go
<1> HIDE DEF me
<1>4. me.todo \in Seq(Items) /\ me.todo # << >>
  BY <1>2 DEF Finance!Task, me
<1> PICK todo \in Seq(Items) : todo = me.todo /\ todo # << >>
  BY <1>4
<1> PICK rest \in Seq(Items) : rest = Tail(todo) /\ Len(rest) = Len(todo) - 1
  BY HeadTailProperties
<1> PICK i \in Items : i = Head(me.todo)
  BY <1>4
<1> DEFINE Marks == Items \X {"Posted", "Skipped", "Failed"}
<1> PICK done \in SUBSET Marks : done = me.done \cup {<<i, s>>}
  <2>1. me.done \in SUBSET Marks
    BY <1>2 DEF Finance!Task
  <2>2. <<i, s>> \in Marks
    OBVIOUS
  <2> HIDE DEF Marks
  <2> QED
    BY <2>1, <2>2
<1>5. next = [me EXCEPT !.pc = "item", !.todo = rest, !.done = done]
  OBVIOUS
<1> HIDE DEF next
<1>6. /\ next \in Finance!Task /\ next.pc = "item" /\ next.todo = rest
      /\ next.done = done
  BY <1>2, <1>5 DEF Finance!Task
<1>7. /\ i = me.todo[1] /\ DOMAIN rest \subseteq Nat
      /\ \A k \in DOMAIN rest : k + 1 \in DOMAIN me.todo /\ rest[k] = me.todo[k + 1] /\ k + 1 # 1
  BY <1>4
<1>8. Acts(t) /\ desk'[t] = next
  BY <1>1, <1>3, <1>6, RowTypes DEF Acts, Only, Parts
<1> QED
  BY <1>1, <1>6, <1>7, <1>8 DEF me

\* What is left to do still waits, if the items are still pending.
LEMMA RestWaits ==
  ASSUME Finance!FinanceAssumption, Finance!OneAtATime, Parts, NEW t \in Tasks,
         desk[t].pc \in {"item", "post"}, desk[t].todo # << >>,
         NEW s \in {"Posted", "Skipped", "Failed"},
         Finance!Assign(t, Head(desk[t].todo), s),
         \A k \in DOMAIN desk[t].todo : k # 1 => item'[desk[t].todo[k]].status = "Pending"
  PROVE  \A u \in Tasks : Waiting(u)'
<1>1. /\ Acts(t) /\ desk'[t].pc = "item"
      /\ desk'[t].done = desk[t].done \cup {<<desk[t].todo[1], s>>}
      /\ \A k \in DOMAIN desk'[t].todo :
           k + 1 \in DOMAIN desk[t].todo /\ desk'[t].todo[k] = desk[t].todo[k + 1] /\ k + 1 # 1
      /\ DOMAIN desk'[t].todo \subseteq Nat
  BY Assigned
<1>2. Waiting(t)
  BY DEF Parts, QueueInv
<1>3. 1 \in DOMAIN desk[t].todo
  <2>1. desk[t] \in Finance!Task
    BY RowTypes DEF Parts
  <2>2. desk[t].todo \in Seq(Items)
    BY <2>1 DEF Finance!Task
  <2> QED
    BY <2>2
<1>4. \A k \in DOMAIN desk'[t].todo : item'[desk'[t].todo[k]].status = "Pending"
  BY <1>1
<1>5. ASSUME NEW k \in DOMAIN desk'[t].todo, NEW m \in DOMAIN desk'[t].todo,
             desk'[t].todo[k] = desk'[t].todo[m]
      PROVE  k = m
  BY <1>1, <1>2, <1>5 DEF Waiting
<1>6. ASSUME NEW k \in DOMAIN desk'[t].todo, NEW z \in {"Posted", "Skipped", "Failed"}
      PROVE  <<desk'[t].todo[k], z>> \notin desk'[t].done
  <2>1. /\ k + 1 \in DOMAIN desk[t].todo /\ k + 1 # 1 /\ desk'[t].todo[k] = desk[t].todo[k + 1]
    BY <1>1
  <2>2. desk[t].todo[k + 1] # desk[t].todo[1]
    BY <1>2, <1>3, <2>1 DEF Waiting
  <2>3. <<desk[t].todo[k + 1], z>> \notin desk[t].done
    BY <1>2, <2>1 DEF Waiting
  <2> QED
    BY <1>1, <2>1, <2>2, <2>3
<1>7. Waiting(t)'
  BY <1>1, <1>4, <1>5, <1>6 DEF Waiting
<1> QED
  BY <1>1, <1>7, OthersWait

\* The worker is somewhere in the queue.
LEMMA WorkerHas ==
  ASSUME Parts, NEW t \in Tasks, desk[t].pc \in {"item", "post"}, desk[t].todo # << >>
  PROVE  /\ Only(t) /\ 1 \in DOMAIN desk[t].todo /\ desk[t].todo[1] \in Items
         /\ Head(desk[t].todo) = desk[t].todo[1]
         /\ item[desk[t].todo[1]].status = "Pending"
         /\ ~ Handled(desk[t].todo[1])
         /\ \A k \in DOMAIN desk[t].todo : desk[t].todo[k] \in Items /\ ~ Handled(desk[t].todo[k])
<1>1. desk[t] \in Finance!Task
  BY RowTypes DEF Parts
<1>2. desk[t].todo \in Seq(Items)
  BY <1>1 DEF Finance!Task
<1>3. Only(t)
  BY WorksAlone DEF Parts
<1>4. Waiting(t)
  BY DEF Parts, QueueInv
<1>5. 1 \in DOMAIN desk[t].todo /\ Head(desk[t].todo) = desk[t].todo[1]
  BY <1>2
<1>6. \A k \in DOMAIN desk[t].todo : desk[t].todo[k] \in Items
  BY <1>2
<1>7. \A k \in DOMAIN desk[t].todo : ~ Handled(desk[t].todo[k])
  BY <1>3, <1>4, HandledByOne DEF Waiting
<1> QED
  BY <1>3, <1>4, <1>5, <1>6, <1>7 DEF Waiting

\* What a commit writes of the items the worker is done with.
LEMMA FlushedRows ==
  ASSUME Parts, NEW t \in Tasks, Only(t)
  PROVE  /\ Finance!Flushed(t) \in [Items -> Finance!Item]
         /\ \A i \in Items :
              /\ Finance!Flushed(t)[i].named <=> item[i].named
              /\ ~ Handled(i) => Finance!Flushed(t)[i] = item[i]
              /\ Handled(i) => Finance!Flushed(t)[i].status \in {"Posted", "Skipped", "Failed"}
<1> DEFINE Ends == {"Posted", "Skipped", "Failed"}
           end(i) == CHOOSE s \in Ends : <<i, s>> \in desk[t].done
<1>1. item \in [Items -> [status: {"none", "Pending"} \cup Ends, size: {"none", "small", "large"},
                          named: BOOLEAN]]
  BY RowTypes DEF Parts, Finance!Item, Finance!Missing
<1>2. \A i : Handled(i) <=> \E s \in Ends : <<i, s>> \in desk[t].done
  BY HandledByOne
<1>3. \A i : Handled(i) => end(i) \in Ends
  BY <1>2
<1>4. Finance!Flushed(t) = [i \in Items |-> IF Handled(i) THEN [item[i] EXCEPT !.status = end(i)] ELSE item[i]]
  BY <1>2 DEF Finance!Flushed
<1> HIDE DEF end
<1>5. ASSUME NEW i \in Items, Handled(i)
      PROVE  /\ [item[i] EXCEPT !.status = end(i)] \in Finance!Item
             /\ [item[i] EXCEPT !.status = end(i)].named <=> item[i].named
             /\ [item[i] EXCEPT !.status = end(i)].status \in Ends
  BY <1>1, <1>3, <1>5 DEF Finance!Item, Finance!Missing
<1>6. item \in [Items -> Finance!Item]
  BY RowTypes DEF Parts
<1> QED
  BY <1>4, <1>5, <1>6

\* What is left of an item after a flush that books nothing.
LEMMA FlushedItems ==
  ASSUME Parts, NEW t \in Tasks, Only(t), NEW i \in Items
  PROVE  /\ Finance!Flushed(t)[i].status = "none" =>
              Finance!Flushed(t)[i] = Finance!NoItem /\ drafts[i].posted = 0
         /\ Finance!Flushed(t)[i].status = "Pending" /\ Finance!Flushed(t)[i].named =>
              drafts[i].posted = 0
         /\ Finance!Flushed(t)[i].status = "Pending" => drafts[i].posted <= crashes
         /\ drafts[i].posted <= 1 + IF Finance!Flushed(t)[i].named THEN 0 ELSE crashes
<1>1. /\ Finance!Flushed(t)[i].named <=> item[i].named
      /\ ~ Handled(i) => Finance!Flushed(t)[i] = item[i]
      /\ Handled(i) => Finance!Flushed(t)[i].status \in {"Posted", "Skipped", "Failed"}
  BY FlushedRows
<1>2. /\ item[i].status = "none" => item[i] = Finance!NoItem /\ drafts[i].posted = 0
      /\ item[i].status = "Pending" /\ item[i].named => drafts[i].posted = 0
      /\ item[i].status = "Pending" /\ ~ Handled(i) => drafts[i].posted <= crashes
      /\ drafts[i].posted <= 1 + IF item[i].named THEN 0 ELSE crashes
  BY DEF Parts, QueueInv
<1>3. CASE Handled(i)
  BY <1>1, <1>2, <1>3
<1>4. CASE ~ Handled(i)
  BY <1>1, <1>2, <1>4
<1> QED
  BY <1>3, <1>4

\* An item that is passed, or whose draft cannot be posted, changes no row.
LEMMA MarkedOnly ==
  ASSUME Finance!FinanceAssumption, Finance!OneAtATime, Parts, NEW t \in Tasks,
         desk[t].pc \in {"item", "post"}, desk[t].todo # << >>,
         NEW s \in {"Posted", "Skipped", "Failed"},
         Finance!Assign(t, Head(desk[t].todo), s),
         UNCHANGED <<doc, journals, entries, clock, bank, booked, item, drafts, txn, line, crashes, wanted>>
  PROVE  Parts'
<1>1. /\ Only(t) /\ Acts(t) /\ desk'[t].pc = "item"
      /\ desk'[t].done = desk[t].done \cup {<<desk[t].todo[1], s>>}
  BY Assigned
<1>2. \A k \in DOMAIN desk[t].todo : item'[desk[t].todo[k]].status = "Pending"
  BY DEF Parts, QueueInv, Waiting
<1>3. \A u \in Tasks : Waiting(u)'
  BY <1>2, RestWaits
<1>4. \A i : Handled(i) => Handled(i)'
  BY <1>1, HandledByOne DEF Handled
<1>5. QueueInv'
  <2>1. Finance!NoItem' = Finance!NoItem
    BY DEF Finance!NoItem
  <2> QED
    BY <1>3, <1>4, <2>1 DEF Parts, QueueInv
<1> QED
  BY <1>1, <1>5, RowTypes, QueueOnly DEF Parts

\* No rule, no amount or an error.
LEMMA PassItemKeeps ==
  ASSUME Finance!FinanceAssumption, Finance!OneAtATime, Parts, NEW t \in Tasks, Finance!PassItem(t)
  PROVE  Parts'
<1>1. /\ desk[t].pc = "item" /\ desk[t].todo # << >>
      /\ \E s \in {"Posted", "Skipped", "Failed"} : Finance!Assign(t, Head(desk[t].todo), s)
      /\ UNCHANGED <<doc, journals, entries, clock, bank, booked, item, drafts, txn, line, crashes, wanted>>
  BY DEF Finance!PassItem, Finance!books, Finance!queue, Finance!statement
<1> QED
  BY <1>1, MarkedOnly

\* post_journal refuses.
LEMMA RefuseDraftKeeps ==
  ASSUME Finance!FinanceAssumption, Finance!OneAtATime, Parts, NEW t \in Tasks, Finance!RefuseDraft(t)
  PROVE  Parts'
<1>1. desk[t].pc = "post" /\ Waiting(t)
  BY DEF Finance!RefuseDraft, Parts, QueueInv
<1>2. /\ desk[t].todo # << >> /\ Finance!Assign(t, Head(desk[t].todo), "Failed")
      /\ UNCHANGED <<doc, journals, entries, clock, bank, booked, item, drafts, txn, line, crashes, wanted>>
  BY <1>1 DEF Waiting, Finance!RefuseDraft, Finance!books, Finance!queue, Finance!statement
<1> QED
  BY <1>1, <1>2, MarkedOnly

\* create_journal commits a draft, and what the worker has assigned so far.
LEMMA DraftJournalKeeps ==
  ASSUME Finance!FinanceAssumption, Finance!OneAtATime, Parts, NEW t \in Tasks,
         Finance!DraftJournal(t)
  PROVE  Parts'
<1> PICK i : i = Head(desk[t].todo)
  OBVIOUS
<1>1. /\ desk[t].pc = "item" /\ desk[t].todo # << >>
      /\ drafts' = [drafts EXCEPT ![i].open = @ + 1] /\ item' = Finance!Flushed(t)
      /\ UNCHANGED <<doc, journals, entries, clock, bank, booked, txn, line, crashes, wanted>>
  BY DEF Finance!DraftJournal, Finance!books, Finance!statement
<1>2. \/ Finance!Assign(t, i, "Posted")
      \/ desk' = [desk EXCEPT ![t] = [desk[t] EXCEPT !.pc = "post"]]
  BY DEF Finance!DraftJournal, Finance!Go
<1>3. /\ Only(t) /\ i \in Items /\ i = desk[t].todo[1]
      /\ \A k \in DOMAIN desk[t].todo : desk[t].todo[k] \in Items /\ ~ Handled(desk[t].todo[k])
  BY <1>1, WorkerHas
<1>4. drafts \in [Items -> [open: Nat, posted: Nat]]
  BY RowTypes DEF Parts
<1>5. /\ drafts' \in [Items -> [open: Nat, posted: Nat]] /\ drafts'[i].open >= 1
      /\ \A j \in Items : drafts'[j].posted = drafts[j].posted
  <2>1. /\ [drafts[i] EXCEPT !.open = @ + 1] \in [open: Nat, posted: Nat]
        /\ [drafts[i] EXCEPT !.open = @ + 1].open >= 1
        /\ [drafts[i] EXCEPT !.open = @ + 1].posted = drafts[i].posted
    BY <1>3, <1>4
  <2> QED
    BY <1>1, <1>3, <1>4, <2>1
<1>6. item' \in [Items -> Finance!Item]
  BY <1>1, <1>3, FlushedRows
<1>7. Waiting(t)
  BY DEF Parts, QueueInv
<1>8. \A k \in DOMAIN desk[t].todo : item'[desk[t].todo[k]].status = "Pending"
  BY <1>1, <1>3, <1>7, FlushedRows DEF Waiting
<1>9. /\ Acts(t) /\ desk'[t].pc \in {"item", "post"}
      /\ \A u \in Tasks : Waiting(u)'
  <2>1. CASE Finance!Assign(t, i, "Posted")
    <3>1. /\ \A u \in Tasks : Waiting(u)'
          /\ Acts(t) /\ desk'[t].pc = "item"
      BY <1>1, <1>8, <2>1, RestWaits, Assigned
    <3> QED
      BY <3>1
  <2>2. CASE desk' = [desk EXCEPT ![t] = [desk[t] EXCEPT !.pc = "post"]]
    <3>1. desk[t] \in Finance!Task
      BY RowTypes DEF Parts
    <3> DEFINE next == [desk[t] EXCEPT !.pc = "post"]
    <3>2. /\ next \in Finance!Task /\ next.pc = "post"
          /\ next.todo = desk[t].todo /\ next.done = desk[t].done
      BY <3>1 DEF Finance!Task
    <3> HIDE DEF next
    <3>3. Acts(t) /\ desk'[t] = next
      BY <1>3, <2>2, <3>2, RowTypes DEF Acts, Only, Parts, next
    <3>4. Waiting(t)'
      <4>1. /\ \A k \in DOMAIN next.todo : item'[next.todo[k]].status = "Pending"
            /\ next.todo # << >> /\ drafts'[next.todo[1]].open >= 1
        BY <1>1, <1>3, <1>5, <1>8, <3>2
      <4>2. /\ \A k, m \in DOMAIN next.todo : next.todo[k] = next.todo[m] => k = m
            /\ \A k \in DOMAIN next.todo, s \in {"Posted", "Skipped", "Failed"} :
                 <<next.todo[k], s>> \notin next.done
        BY <1>7, <3>2 DEF Waiting
      <4> QED
        BY <3>2, <3>3, <4>1, <4>2 DEF Waiting
    <3> QED
      BY <3>2, <3>3, <3>4, OthersWait
  <2> QED
    BY <1>2, <2>1, <2>2
<1>10. QueueInv'
  <2>1. Finance!NoItem' = Finance!NoItem
    BY DEF Finance!NoItem
  <2>2. \A j \in Items :
          /\ item'[j].status = "none" => item'[j] = Finance!NoItem /\ drafts'[j].posted = 0
          /\ item'[j].status = "Pending" /\ item'[j].named => drafts'[j].posted = 0
          /\ item'[j].status = "Pending" => drafts'[j].posted <= crashes'
          /\ drafts'[j].posted <= 1 + IF item'[j].named THEN 0 ELSE crashes'
    <3> SUFFICES ASSUME NEW j \in Items
                 PROVE  /\ item'[j].status = "none" =>
                             item'[j] = Finance!NoItem /\ drafts'[j].posted = 0
                        /\ item'[j].status = "Pending" /\ item'[j].named => drafts'[j].posted = 0
                        /\ item'[j].status = "Pending" => drafts'[j].posted <= crashes'
                        /\ drafts'[j].posted <= 1 + IF item'[j].named THEN 0 ELSE crashes'
      OBVIOUS
    <3>1. item' = Finance!Flushed(t) /\ drafts'[j].posted = drafts[j].posted /\ crashes' = crashes
      BY <1>1, <1>5
    <3>2. Only(t)
      BY <1>3
    <3> QED
      BY <3>1, <3>2, FlushedItems
  <2> QED
    BY <1>9, <2>1, <2>2 DEF QueueInv
<1> QED
  BY <1>1, <1>5, <1>6, <1>9, <1>10, QueueOnly

\* post_journal commits the posting, and the item if the journal names it.
LEMMA PostDraftKeeps ==
  ASSUME Finance!FinanceAssumption, Finance!OneAtATime, Parts, NEW t \in Tasks,
         Finance!PostDraft(t)
  PROVE  Parts'
<1> PICK i : i = Head(desk[t].todo)
  OBVIOUS
<1>1. /\ desk[t].pc = "post"
      /\ drafts' = [drafts EXCEPT ![i] = [open |-> @.open - 1, posted |-> @.posted + 1]]
      /\ item' = Finance!MarkPosted(Finance!Flushed(t), i)
      /\ Finance!Assign(t, i, "Posted")
      /\ UNCHANGED <<doc, journals, entries, clock, bank, booked, txn, line, crashes, wanted>>
  BY DEF Finance!PostDraft, Finance!books, Finance!statement
<1>2. desk[t].todo # << >> /\ drafts[desk[t].todo[1]].open >= 1 /\ Waiting(t)
  BY <1>1 DEF Parts, QueueInv, Waiting
<1>3. /\ Only(t) /\ i \in Items /\ i = desk[t].todo[1] /\ 1 \in DOMAIN desk[t].todo
      /\ item[i].status = "Pending" /\ ~ Handled(i)
      /\ \A k \in DOMAIN desk[t].todo : desk[t].todo[k] \in Items /\ ~ Handled(desk[t].todo[k])
  BY <1>1, <1>2, WorkerHas
<1>4. /\ Acts(t) /\ desk'[t].pc = "item"
      /\ desk'[t].done = desk[t].done \cup {<<i, "Posted">>}
  BY <1>1, <1>2, <1>3, Assigned
<1>5. drafts \in [Items -> [open: Nat, posted: Nat]]
  BY RowTypes DEF Parts
<1>6. /\ drafts' \in [Items -> [open: Nat, posted: Nat]]
      /\ drafts'[i].posted = drafts[i].posted + 1
      /\ \A j \in Items \ {i} : drafts'[j] = drafts[j]
  <2>1. drafts[i].open - 1 \in Nat /\ drafts[i].posted + 1 \in Nat
    BY <1>2, <1>3, <1>5
  <2> QED
    BY <1>1, <1>3, <1>5, <2>1
<1> DEFINE F == Finance!Flushed(t)
<1>7. F \in [Items -> Finance!Item] /\ F[i] = item[i]
  BY <1>3, FlushedRows
<1>8. \A k \in DOMAIN desk[t].todo : F[desk[t].todo[k]].status = "Pending"
  BY <1>2, <1>3, FlushedRows DEF Waiting
<1>9. /\ item' \in [Items -> Finance!Item]
      /\ (item'[i].named <=> item[i].named)
      /\ item'[i].status = IF item[i].named THEN "Posted" ELSE "Pending"
      /\ \A j \in Items \ {i} : item'[j] = F[j]
  <2>1. item' = IF F[i].named THEN [F EXCEPT ![i].status = "Posted"] ELSE F
    BY <1>1 DEF Finance!MarkPosted
  <2> HIDE DEF F
  <2>2. F[i] \in [status: {"none", "Pending", "Posted", "Skipped", "Failed"},
                  size: {"none", "small", "large"}, named: BOOLEAN]
    BY <1>3, <1>7 DEF Finance!Item, Finance!Missing
  <2>3. /\ [F[i] EXCEPT !.status = "Posted"] \in Finance!Item
        /\ [F[i] EXCEPT !.status = "Posted"].named <=> F[i].named
        /\ [F[i] EXCEPT !.status = "Posted"].status = "Posted"
    BY <2>2 DEF Finance!Item, Finance!Missing
  <2>4. CASE F[i].named
    BY <1>3, <1>7, <2>1, <2>3, <2>4
  <2>5. CASE ~ F[i].named
    BY <1>3, <1>7, <2>1, <2>5
  <2> QED
    BY <2>4, <2>5
<1>10. \A k \in DOMAIN desk[t].todo : k # 1 => item'[desk[t].todo[k]].status = "Pending"
  BY <1>2, <1>3, <1>8, <1>9 DEF Waiting
<1> HIDE DEF F
<1>11. \A u \in Tasks : Waiting(u)'
  BY <1>1, <1>2, <1>10, RestWaits
<1>12. Handled(i)'
  BY <1>4 DEF Handled
<1>13. ASSUME NEW j \in Items
       PROVE  /\ item'[j].status = "none" => item'[j] = Finance!NoItem /\ drafts'[j].posted = 0
              /\ item'[j].status = "Pending" /\ item'[j].named => drafts'[j].posted = 0
              /\ item'[j].status = "Pending" /\ ~ Handled(j)' => drafts'[j].posted <= crashes'
              /\ drafts'[j].posted <= 1 + IF item'[j].named THEN 0 ELSE crashes'
  <2>1. CASE j = i
    <3>1. /\ item[i].named => drafts[i].posted = 0
          /\ drafts[i].posted <= crashes
      BY <1>3 DEF Parts, QueueInv
    <3>2. drafts[i].posted \in Nat /\ crashes \in Int
      BY <1>3, <1>5 DEF Parts, Finance!TypeOK
    <3>3. drafts'[j].posted = drafts[i].posted + 1 /\ crashes' = crashes
      BY <1>1, <1>6, <2>1
    <3>4. /\ item'[j].named <=> item[i].named
          /\ item'[j].status = IF item[i].named THEN "Posted" ELSE "Pending"
      BY <1>9, <2>1
    <3>5. Handled(j)'
      BY <1>12, <2>1
    <3>6. CASE item[i].named
      <4>1. item'[j].named /\ item'[j].status = "Posted"
        BY <3>4, <3>6
      <4>2. drafts'[j].posted <= 1 + 0
        BY <3>1, <3>3, <3>6
      <4> QED
        BY <4>1, <4>2
    <3>7. CASE ~ item[i].named
      <4>1. ~ item'[j].named /\ item'[j].status = "Pending"
        BY <3>4, <3>7
      <4>2. drafts'[j].posted <= 1 + crashes'
        BY <3>1, <3>2, <3>3
      <4> QED
        BY <3>5, <4>1, <4>2
    <3> QED
      BY <3>6, <3>7
  <2>2. CASE j # i
    <3>1. item'[j] = F[j] /\ drafts'[j] = drafts[j] /\ crashes' = crashes
      BY <1>1, <1>6, <1>9, <2>2
    <3> QED
      BY <1>3, <3>1, FlushedItems DEF F
  <2> QED
    BY <2>1, <2>2
<1>14. QueueInv'
  <2>1. Finance!NoItem' = Finance!NoItem
    BY DEF Finance!NoItem
  <2> QED
    BY <1>11, <1>13, <2>1 DEF QueueInv
<1> QED
  BY <1>1, <1>4, <1>6, <1>9, <1>14, QueueOnly

\* The worker commits what it has assigned and ends.
LEMMA EndProcessKeeps ==
  ASSUME Finance!FinanceAssumption, Finance!OneAtATime, Parts, NEW t \in Tasks,
         Finance!EndProcess(t)
  PROVE  Parts'
<1>1. /\ desk[t].pc = "item" /\ item' = Finance!Flushed(t)
      /\ desk' = [desk EXCEPT ![t] = Finance!Resting]
      /\ UNCHANGED <<doc, journals, entries, clock, bank, booked, drafts, txn, line, crashes, wanted>>
  BY DEF Finance!EndProcess, Finance!Stop, Finance!Go, Finance!books, Finance!statement
<1>2. Only(t)
  BY <1>1, WorksAlone DEF Parts
<1>3. Acts(t) /\ desk'[t] = Finance!Resting
  BY <1>1, <1>2, RowTypes, RestingType DEF Acts, Only, Parts
<1>4. item' \in [Items -> Finance!Item]
  BY <1>1, <1>2, FlushedRows
<1>5. \A u \in Tasks : Waiting(u)'
  <2>1. Waiting(t)'
    BY <1>3, RestingIs DEF Waiting
  <2> QED
    BY <1>3, <2>1, OthersWait
<1>6. QueueInv'
  <2>1. Finance!NoItem' = Finance!NoItem
    BY DEF Finance!NoItem
  <2>2. \A j \in Items :
          /\ item'[j].status = "none" => item'[j] = Finance!NoItem /\ drafts'[j].posted = 0
          /\ item'[j].status = "Pending" /\ item'[j].named => drafts'[j].posted = 0
          /\ item'[j].status = "Pending" => drafts'[j].posted <= crashes'
          /\ drafts'[j].posted <= 1 + IF item'[j].named THEN 0 ELSE crashes'
    BY <1>1, <1>2, FlushedItems
  <2> QED
    BY <1>5, <2>1, <2>2 DEF QueueInv
<1> QED
  BY <1>1, <1>3, <1>4, <1>6, RestingIs, RowTypes, QueueOnly DEF Parts

----------------------------------------------------------------------------
(* Lost handlers, and every step *)

\* A lost handler leaves what it has committed: one journal more, perhaps, or
\* one posting of the queue.
LEMMA CrashKeeps ==
  ASSUME Finance!FinanceAssumption, Finance!OneAtATime, Parts, wanted \in Wishes,
         NEW t \in Tasks, Finance!Crash(t)
  PROVE  Parts'
<1>1. /\ desk[t].pc # "idle" /\ crashes < wanted.crashes /\ crashes' = crashes + 1
      /\ desk' = [desk EXCEPT ![t] = Finance!Resting]
      /\ UNCHANGED <<doc, journals, entries, clock, bank, booked, item, drafts, txn, line, wanted>>
  BY DEF Finance!Crash, Finance!Stop, Finance!Go, Finance!books, Finance!queue, Finance!statement
<1>2. Only(t)
  BY <1>1, WorksAlone DEF Parts
<1>3. Acts(t) /\ desk'[t] = Finance!Resting
  BY <1>1, <1>2, RowTypes, RestingType DEF Acts, Only, Parts
<1>4. crashes \in Nat /\ crashes' \in 0..wanted.crashes
  <2>1. wanted.crashes \in Nat
    BY DEF Finance!FinanceAssumption, Finance!Scenario
  <2> QED
    BY <1>1, <2>1, RowTypes DEF Parts
<1>5. Finance!TypeOK'
  BY <1>1, <1>3, <1>4 DEF Parts, Acts, Finance!TypeOK
<1>6. BankInv' /\ MatchInv'
  BY <1>1, <1>3, RestingIs, BankKept, MatchKept DEF Parts
<1>7. \A u \in Tasks : desk'[u] = Finance!Resting
  BY <1>3 DEF Acts, Only
<1>8. QueueInv'
  <2>1. Finance!NoItem' = Finance!NoItem
    BY DEF Finance!NoItem
  <2>2. \A u \in Tasks : Waiting(u)'
    BY <1>7, RestingIs DEF Waiting
  <2>3. \A i \in Items : drafts[i].posted \in Nat
    BY RowTypes DEF Parts
  <2>4. ASSUME NEW i \in Items
        PROVE  /\ item[i].status = "none" => item[i] = Finance!NoItem /\ drafts[i].posted = 0
               /\ item[i].status = "Pending" /\ item[i].named => drafts[i].posted = 0
               /\ drafts[i].posted <= 1 + IF item[i].named THEN 0 ELSE crashes
    BY DEF Parts, QueueInv
  <2>5. ASSUME NEW i \in Items
        PROVE  /\ item[i].status = "Pending" => drafts[i].posted <= crashes + 1
               /\ drafts[i].posted <= 1 + IF item[i].named THEN 0 ELSE crashes + 1
    BY <1>4, <2>3, <2>4
  <2> QED
    BY <1>1, <2>1, <2>2, <2>4, <2>5 DEF QueueInv
<1>9. DocsInv'
  <2>1. \A d : ~ Past(d)'
    BY <1>7, RestingIs DEF Past
  <2>2. \A u \in Tasks : Carries(u)'
    BY <1>7, RestingIs DEF Carries, Posting
  <2>3. ASSUME NEW d \in Docs PROVE Counted(d)'
    <3>1. Counted(d) /\ journals[d] \in Nat
      BY RowTypes DEF Parts, DocsInv
    <3>2. Finance!EntriesOf(d)' = Finance!EntriesOf(d) /\ (Final(d)' <=> Final(d))
      BY <1>1 DEF Finance!EntriesOf, Final
    <3>3. doc[d].kind \notin Paid /\ Final(d) => journals[d] \in 1 .. 1 + crashes'
      BY <1>1, <1>4, <3>1 DEF Counted
    <3>4. doc[d].kind \notin Paid /\ ~ Final(d) =>
            journals[d] <= crashes' /\ journals[d] <= crashes' + 1
      BY <1>1, <1>4, <3>1 DEF Counted
    <3>5. Finance!NoDoc' = Finance!NoDoc
      BY DEF Finance!NoDoc
    <3> QED
      BY <1>1, <2>1, <3>1, <3>2, <3>3, <3>4, <3>5 DEF Counted
  <2>4. \A p \in {"customer", "supplier"} : Totalled(p)'
    BY <1>1, TotalledKept DEF Parts
  <2> QED
    BY <1>1, <2>2, <2>3, <2>4 DEF Parts, DocsInv
<1> QED
  BY <1>3, <1>5, <1>6, <1>8, <1>9, DeskKept DEF Parts

\* No document, and every handler at rest.
LEMMA FinanceInit == ASSUME Finance!FinanceAssumption, Finance!Init PROVE FinanceInv
<1>1. /\ doc = [d \in Docs |-> Finance!NoDoc] /\ journals = [d \in Docs |-> 0]
      /\ entries = {} /\ clock = 0 /\ bank = 0 /\ booked = 0
      /\ item = [i \in Items |-> Finance!NoItem] /\ drafts = [i \in Items |-> [open |-> 0, posted |-> 0]]
      /\ txn = [x \in Txns |-> Finance!NoTxn] /\ line = [l \in Lines |-> Finance!NoLine]
      /\ desk = [t \in Tasks |-> Finance!Resting] /\ crashes = 0 /\ wanted \in Wishes
  BY DEF Finance!Init
<1>2. Finance!TypeOK
  <2>1. Finance!Resting \in Finance!Task /\ Finance!NoDoc \in Finance!Document
    BY RestingType
  <2>2. 0 \in 0..MaxAmount
    BY FinanceTypes
  <2>3. /\ Finance!NoItem \in Finance!Item /\ Finance!NoTxn \in Finance!Txn
        /\ Finance!NoLine \in Finance!StatementLine
    BY <2>2 DEF Finance!NoItem, Finance!Item, Finance!NoTxn, Finance!Txn, Finance!NoLine,
                Finance!StatementLine, Finance!Missing
  <2>4. 0 \in 0..wanted.crashes
    BY <1>1 DEF Finance!FinanceAssumption, Finance!Scenario
  <2> QED
    BY <1>1, <2>1, <2>3, <2>4 DEF Finance!TypeOK
<1>3. OneDesk /\ BankInv
  BY <1>1, RestingIs DEF OneDesk, BankInv
<1>4. MatchInv
  BY <1>1, RestingIs DEF MatchInv, Finance!NoLine, Finance!NoTxn, Finance!Missing
<1>5. QueueInv
  <2>1. \A t \in Tasks : Waiting(t)
    BY <1>1, RestingIs DEF Waiting
  <2>2. \A i \in Items : /\ item[i] = Finance!NoItem /\ item[i].status = "none"
                         /\ drafts[i].posted = 0
    BY <1>1 DEF Finance!NoItem, Finance!Missing
  <2>3. \A i \in Items : drafts[i].posted <= 1 + IF item[i].named THEN 0 ELSE crashes
    BY <1>1, <2>2
  <2> QED
    BY <2>1, <2>2, <2>3 DEF QueueInv
<1>6. DocsInv
  <2>1. \A d : ~ Past(d) /\ Finance!EntriesOf(d) = {}
    BY <1>1, RestingIs DEF Past, Finance!EntriesOf
  <2>2. \A p : Finance!LedgerOf(p) = {}
    BY <1>1 DEF Finance!LedgerOf
  <2>3. ASSUME NEW d \in Docs PROVE Counted(d)
    <3>1. doc[d] = Finance!NoDoc /\ doc[d].kind = "none" /\ doc[d].status = "none" /\ journals[d] = 0
      BY <1>1 DEF Finance!NoDoc, Finance!Missing
    <3> QED
      BY <1>1, <2>1, <3>1 DEF Counted, Final, Credit, Paid
  <2>4. \A t \in Tasks : Carries(t)
    BY <1>1, RestingIs DEF Carries, Posting
  <2>5. IsFiniteSet(entries)
    BY <1>1, FS_EmptySet
  <2> QED
    BY <1>1, <2>2, <2>3, <2>4, <2>5 DEF DocsInv, Totalled
<1> QED
  BY <1>1, <1>2, <1>3, <1>4, <1>5, <1>6 DEF FinanceInv, Parts

\* Every step keeps the invariant.
LEMMA FinanceNext ==
  ASSUME Finance!FinanceAssumption, FinanceInv, [Finance!Next]_(Finance!vars)
  PROVE  FinanceInv'
<1>1. CASE UNCHANGED Finance!vars
  <2>1. UNCHANGED <<doc, journals, entries, clock, bank, booked, item, drafts, txn, line, desk, crashes, wanted>>
    BY <1>1 DEF Finance!vars, Finance!books, Finance!queue, Finance!statement
  <2>2. Parts => Parts'
    <3> SUFFICES ASSUME Parts PROVE Parts'
      OBVIOUS
    <3>1. Finance!TypeOK' /\ OneDesk' /\ BankInv' /\ MatchInv'
      BY <2>1 DEF Parts, Finance!TypeOK, OneDesk, BankInv, MatchInv, Finance!ToBank, Finance!Resting
    <3>2. \A d : (Past(d)' <=> Past(d)) /\ (Handled(d)' <=> Handled(d))
      BY <2>1 DEF Past, Handled
    <3>3. QueueInv'
      BY <2>1, <3>2 DEF Parts, QueueInv, Waiting, Finance!NoItem
    <3>4. \A d \in Docs : Counted(d)'
      BY <2>1, <3>2 DEF Parts, DocsInv, Counted, Final, Finance!EntriesOf, Finance!NoDoc
    <3>5. \A u \in Tasks : Carries(u)'
      BY <2>1 DEF Parts, DocsInv, Carries, Posting, Values, Finance!LedgerOf, Finance!Party, Finance!NoDoc
    <3> QED
      BY <2>1, <3>1, <3>3, <3>4, <3>5, TotalledKept DEF Parts, DocsInv
  <2> QED
    BY <2>1, <2>2 DEF FinanceInv, Finance!OneAtATime
<1>2. CASE Finance!Next
  <2>1. wanted' = wanted
    BY <1>2, ZenonT(60) DEF Finance!Next, Finance!Step, Finance!Create, Finance!BeginPost, Finance!BeginAcquire,
      Finance!PostJournal, Finance!InsertAsset, Finance!ReadBalance, Finance!WriteEntry,
      Finance!DropEntry, Finance!BeginTransaction, Finance!WriteTransaction, Finance!Import,
      Finance!BeginMatch, Finance!WriteMatch, Finance!Enqueue, Finance!BeginProcess, Finance!PassItem,
      Finance!DraftJournal, Finance!PostDraft, Finance!RefuseDraft, Finance!EndProcess, Finance!Crash
  <2>2. ASSUME Finance!OneAtATime PROVE Parts'
    <3>1. Parts /\ wanted \in Wishes
      BY <2>2 DEF FinanceInv
    <3>2. PICK t \in Tasks : Finance!Step(t)
      BY <1>2 DEF Finance!Next
    <3>3. CASE \/ Finance!Create(t) \/ Finance!BeginPost(t) \/ Finance!BeginAcquire(t)
               \/ Finance!PostJournal(t) \/ Finance!InsertAsset(t) \/ Finance!ReadBalance(t)
               \/ Finance!WriteEntry(t) \/ Finance!DropEntry(t)
      BY <2>2, <3>1, <3>3, CreateKeeps, BeginPostKeeps, BeginAcquireKeeps, PostJournalKeeps,
         InsertAssetKeeps, ReadBalanceKeeps, WriteEntryKeeps, DropEntryKeeps
    <3>4. CASE \/ Finance!BeginTransaction(t) \/ Finance!WriteTransaction(t) \/ Finance!Import(t)
               \/ Finance!BeginMatch(t) \/ Finance!WriteMatch(t)
      BY <2>2, <3>1, <3>4, BeginTransactionKeeps, WriteTransactionKeeps, ImportKeeps,
         BeginMatchKeeps, WriteMatchKeeps
    <3>5. CASE \/ Finance!Enqueue(t) \/ Finance!BeginProcess(t) \/ Finance!PassItem(t)
               \/ Finance!DraftJournal(t) \/ Finance!PostDraft(t) \/ Finance!RefuseDraft(t)
               \/ Finance!EndProcess(t) \/ Finance!Crash(t)
      BY <2>2, <3>1, <3>5, EnqueueKeeps, BeginProcessKeeps, PassItemKeeps, DraftJournalKeeps,
         PostDraftKeeps, RefuseDraftKeeps, EndProcessKeeps, CrashKeeps
    <3> QED
      BY <3>2, <3>3, <3>4, <3>5 DEF Finance!Step
  <2> QED
    BY <2>1, <2>2 DEF FinanceInv, Finance!OneAtATime
<1> QED
  BY <1>1, <1>2

\* The invariant of finance operations, for any documents, queue items,
\* transactions, statement lines and wishes.
THEOREM FinanceInvariance ==
  ASSUME Finance!FinanceAssumption
  PROVE  Finance!Spec => []FinanceInv
<1>1. Finance!Init => FinanceInv
  BY FinanceInit
<1>2. FinanceInv /\ [Finance!Next]_(Finance!vars) => FinanceInv'
  BY FinanceNext
<1> QED
  BY <1>1, <1>2, PTL DEF Finance!Spec

\* One handler at a time, the bank account has what was booked and statement
\* lines and transactions are paired one to one (record_transaction,
\* post_receipt_voucher, perform_auto_matching).
THEOREM BankBalanceCorrect ==
  ASSUME Finance!FinanceAssumption
  PROVE  Finance!Spec => []BankAgrees
<1>1. FinanceInv => Finance!BankAgrees
  <2> SUFFICES ASSUME FinanceInv, Finance!OneAtATime PROVE Finance!BankAgrees
    BY DEF Finance!BankAgrees
  <2>1. Parts
    BY DEF FinanceInv
  <2>2. ASSUME NEW x \in Txns
        PROVE  LET with == {l \in Lines : line[l].match = x} IN
               /\ Finance!Cardinality(with) = IF txn[x].reconciled THEN 1 ELSE 0
               /\ \A l \in with : line[l].amount = txn[x].amount
    <3> DEFINE with == {l \in Lines : line[l].match = x}
    <3>1. x # "none"
      BY FinanceTypes
    <3>2. \A l \in with : line[l].amount = txn[x].amount /\ txn[x].reconciled
      BY <2>1, <3>1 DEF Parts, MatchInv
    <3>3. Finance!Cardinality(with) = Cardinality(with)
      BY DEF Finance!Cardinality, Cardinality
    <3>4. CASE txn[x].reconciled
      <4>1. PICK l \in Lines : line[l].match = x
        BY <2>1, <3>4 DEF Parts, MatchInv
      <4>2. with = {l}
        BY <2>1, <3>1, <4>1 DEF Parts, MatchInv
      <4> QED
        BY <3>2, <3>3, <3>4, <4>2, FS_Singleton
    <3>5. CASE ~ txn[x].reconciled
      <4>1. with = {}
        BY <3>2, <3>5
      <4> QED
        BY <3>2, <3>3, <3>5, <4>1, FS_EmptySet
    <3> QED
      BY <3>4, <3>5
  <2> QED
    BY <2>1, <2>2 DEF Parts, BankInv, Finance!BankAgrees
<1>2. FinanceInv => BankAgrees
  BY <1>1 DEF BankAgrees
<1> QED
  BY <1>2, FinanceInvariance, PTL

\* One handler at a time, with any number of lost ones, an invoice, a bill, an
\* asset and an item of the queue is posted once, and the running balances of
\* the parties add up (post_invoice, post_bill, create_asset,
\* process_financial_posting_queue_task).
THEOREM NothingPostedTwice ==
  ASSUME Finance!FinanceAssumption
  PROVE  Finance!Spec => []DocumentsPostOnce
<1>1. FinanceInv => Finance!QueuePostsOnce
  BY DEF FinanceInv, Parts, QueueInv, Finance!QueuePostsOnce
<1>2. FinanceInv => Finance!InvoicePostedOnce
  <2> SUFFICES ASSUME FinanceInv, Finance!OneAtATime PROVE Finance!InvoicePostedOnce
    BY DEF Finance!InvoicePostedOnce
  <2>1. Parts
    BY DEF FinanceInv
  <2>2. ASSUME NEW d \in Docs, doc[d].kind \in Finance!Invoices \cup {"asset"}
        PROVE  LET final == doc[d].status \in {"Posted", "Active"} IN
               /\ doc[d].kind # "asset" => Finance!Cardinality(Finance!EntriesOf(d)) = IF final THEN 1 ELSE 0
               /\ final => journals[d] \in 1 .. 1 + crashes
               /\ ~ final /\ (\A t \in Tasks : desk[t].pc = "idle") => journals[d] \in 0 .. crashes
    <3>1. Counted(d) /\ doc[d].kind \in Credit \cup {"asset"} /\ doc[d].kind \notin Paid
      BY <2>1, <2>2 DEF Parts, DocsInv, Finance!Invoices, Credit, Paid
    <3>2. Finance!Cardinality(Finance!EntriesOf(d)) = Cardinality(Finance!EntriesOf(d))
      BY DEF Finance!Cardinality, Cardinality
    <3>3. doc[d].kind # "asset" => Cardinality(Finance!EntriesOf(d)) = IF Final(d) THEN 1 ELSE 0
      BY <3>1, FS_EmptySet, FS_Singleton DEF Counted, Credit
    <3>4. (\A t \in Tasks : desk[t].pc = "idle") => ~ Past(d)
      BY DEF Past
    <3>5. journals[d] \in Nat /\ crashes \in Int
      BY <2>1, RowTypes DEF Parts
    <3> QED
      BY <3>1, <3>2, <3>3, <3>4, <3>5 DEF Counted, Final
  <2>3. ASSUME NEW p \in {"customer", "supplier"}, NEW e \in Finance!LedgerOf(p)
        PROVE  e.running = Finance!MapThenSumSet(LAMBDA f : f.delta,
                             {f \in Finance!LedgerOf(p) : f.stamp <= e.stamp})
    <3>1. Upto(p, e.stamp) \subseteq entries /\ IsFiniteSet(entries)
      BY <2>1 DEF Upto, Finance!LedgerOf, Parts, DocsInv
    <3>2. e.running = SumOver(Values(entries), Upto(p, e.stamp))
      BY <2>1 DEF Parts, DocsInv, Totalled
    <3>3. e.running = Finance!MapThenSumSet(LAMBDA f : f.delta, Upto(p, e.stamp))
      BY <3>1, <3>2, EntrySum
    <3> QED
      BY <3>3 DEF Upto
  <2> QED
    BY <2>2, <2>3 DEF Finance!InvoicePostedOnce, Finance!Parties
<1>3. FinanceInv => DocumentsPostOnce
  BY <1>1, <1>2 DEF DocumentsPostOnce
<1> QED
  BY <1>3, FinanceInvariance, PTL

=============================================================================
