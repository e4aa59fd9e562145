---------------------------- MODULE JournalLedger ----------------------------
(***************************************************************************)
(* The general ledger of the finance domain: journals drafted, changed,    *)
(* posted, reversed, cancelled and deleted (JournalService,                *)
(* PostingEngineService), the running balance each account row carries,    *)
(* the fiscal periods that may bar a posting and the ledger queries that   *)
(* read the posted lines (GeneralLedgerRepository).                        *)
(*                                                                         *)
(* Handlers take no row locks: one loads a journal with its lines and      *)
(* accounts, decides, and commits, and its session updates the columns it  *)
(* changed to values computed from what it loaded.  Creating a journal and *)
(* reversing one take two commits.                                         *)
(***************************************************************************)
EXTENDS Integers, FiniteSets, FiniteSetsExt

CONSTANTS
  Tasks,        \* handlers in flight
  Journals,     \* ids of journals
  Accounts, Periods,
  FirstKind,    \* the types the accounts were created with
  Bodies,       \* line sets a request may carry: net debit of each account
  Threshold,    \* a journal of at least this total needs approval
  Scenarios,    \* what is asked, how many handlers overlap, whether they get lost
  MaxBatches    \* bound on the line sets one journal may collect

Missing == "none"
AllOps == {"create", "entry", "update", "post", "reverse", "cancel", "delete",
           "drop", "retype", "lock", "unlock", "close"}
\* Types of accounts, spelled as the schema lists them; equity is in the place
\* of a liability wherever the ledger looks at types.
Kind == {"Asset", "Expense", "Liability", "Income"}
Scenario == [width: Nat \ {0}, ops: SUBSET AllOps, journals: SUBSET Journals,
             bodies: SUBSET Bodies, crashes: BOOLEAN]
Numbered == [no: Nat \ {0}, body: [Accounts -> Int]]

ASSUME LedgerAssumption ==
  /\ IsFiniteSet(Accounts) /\ IsFiniteSet(Journals) /\ IsFiniteSet(Tasks)
  /\ FirstKind \in [Accounts -> Kind]
  /\ Bodies \subseteq [Accounts -> Int]
  /\ Threshold \in Nat /\ MaxBatches \in Nat
  /\ Scenarios \subseteq Scenario
  /\ Missing \notin Journals \cup Accounts \cup Periods

VARIABLES
  journal,  \* journals and their journal_lines
  balance,  \* ChartOfAccount.current_balance, with opening balances of zero
  dropped,  \* accounts with is_deleted
  kind,     \* ChartOfAccount.account_type
  turned,   \* accounts whose type changed sides while they had a balance
  locked,   \* periods with is_locked
  closed,   \* periods with is_closed
  task,
  scenario  \* the demand this behaviour is about

vars == <<journal, balance, dropped, kind, turned, locked, closed, task, scenario>>

Row == [status: {"Draft", "PendingApproval", "Posted", "Reversed", "Cancelled", Missing},
        deleted: BOOLEAN,
        posted: BOOLEAN,                       \* posted_at is set
        period: Periods \cup {Missing},
        total: Nat,                            \* total_debit, equal to total_credit
        lines: SUBSET Numbered,                \* the line sets written so far
        reverses: Journals \cup {Missing}]     \* a reversal's number names its original
Blank == [status |-> Missing, deleted |-> FALSE, posted |-> FALSE, period |-> Missing,
          total |-> 0, lines |-> {}, reverses |-> Missing]

NoBody == [a \in Accounts |-> 0]
Resting == [pc |-> "idle", op |-> Missing, j |-> Missing, r |-> Missing, body |-> NoBody,
            period |-> Missing, account |-> Missing, new |-> Missing, seen |-> Blank,
            bal |-> NoBody, kinds |-> FirstKind]
Task == [pc: {"idle", "check", "load", "validate", "header", "commit"},
         op: AllOps \cup {Missing}, j: Journals \cup {Missing}, r: Journals \cup {Missing},
         body: [Accounts -> Int], period: Periods \cup {Missing},
         account: Accounts \cup {Missing}, new: Kind \cup {Missing}, seen: Row,
         bal: [Accounts -> Int], kinds: [Accounts -> Kind]]

TypeOK ==
  /\ journal \in [Journals -> Row]
  /\ balance \in [Accounts -> Int]
  /\ dropped \subseteq Accounts /\ locked \subseteq Periods /\ closed \subseteq Periods
  /\ kind \in [Accounts -> Kind] /\ turned \subseteq Accounts
  /\ scenario \in Scenarios
  /\ task \in [Tasks -> Task]

Init ==
  /\ journal = [j \in Journals |-> Blank]
  /\ balance = NoBody
  /\ kind = FirstKind
  /\ dropped = {} /\ turned = {} /\ locked = {} /\ closed = {}
  /\ task = [t \in Tasks |-> Resting]
  /\ scenario \in Scenarios

----------------------------------------------------------------------------
(* Lines *)

Sum(f, S) == MapThenSumSet(LAMBDA x : f[x], S)

Debits(body)  == Sum([a \in Accounts |-> IF body[a] > 0 THEN body[a] ELSE 0], Accounts)
Credits(body) == Sum([a \in Accounts |-> IF body[a] < 0 THEN - body[a] ELSE 0], Accounts)
Touched(lines) == {a \in Accounts : \E b \in lines : b.body[a] # 0}

\* What lines debit an account with, less what they credit it with.
Net(lines, a) == Sum([b \in lines |-> b.body[a]], lines)

\* The checks create_journal and update_journal make on the lines of a request.
Balanced(body) == Debits(body) = Credits(body) /\ Debits(body) > 0

\* The normal balance convention: assets and expenses grow with debits.
Signed(k, x) == IF k \in {"Asset", "Expense"} THEN x ELSE - x
Normal(a, x) == Signed(kind[a], x)

DebitNormal == {a \in Accounts : kind[a] \in {"Asset", "Expense"}}
OfProfit == {a \in Accounts : kind[a] \in {"Income", "Expense"}}

Swapped(lines) == {[b EXCEPT !.body = [a \in Accounts |-> - b.body[a]]] : b \in lines}

\* A period bars postings when it is locked or closed.
Barred(p) == p \in locked \cup closed
Live(body) == \A a \in Accounts : body[a] # 0 => a \notin dropped

----------------------------------------------------------------------------
(* Handlers *)

\* A handler may start when fewer than the scenario's width are under way.
MayBegin(t) ==
  /\ task[t].pc = "idle"
  /\ Cardinality({u \in Tasks : task[u].pc # "idle"}) < scenario.width

At(t, pc) == task[t].pc = pc
Goto(t, pc) == task' = [task EXCEPT ![t].pc = pc]
Finish(t) == task' = [task EXCEPT ![t] = Resting]
Unwritten == UNCHANGED <<journal, balance, dropped, kind, turned, locked, closed, scenario>>

BeginNew(t) ==
  /\ MayBegin(t)
  /\ \E op \in scenario.ops \cap {"create", "entry"}, j \in scenario.journals,
        body \in scenario.bodies, p \in Periods :
       /\ journal[j].status = Missing
       /\ \A u \in Tasks : j \notin {task[u].j, task[u].r}
       /\ task' = [task EXCEPT ![t] = [Resting EXCEPT
            !.pc = "check", !.op = op, !.j = j, !.body = body, !.period = p]]
  /\ Unwritten

BeginUpdate(t) ==
  /\ MayBegin(t) /\ "update" \in scenario.ops
  /\ \E j \in scenario.journals, body \in scenario.bodies, p \in Periods :
       /\ journal[j].status # Missing /\ Cardinality(journal[j].lines) < MaxBatches
       /\ task' = [task EXCEPT ![t] = [Resting EXCEPT
            !.pc = "load", !.op = "update", !.j = j, !.body = body, !.period = p]]
  /\ Unwritten

BeginDecision(t) ==
  /\ MayBegin(t)
  /\ \E op \in scenario.ops \cap {"post", "reverse", "cancel", "delete"},
        j \in scenario.journals :
       /\ journal[j].status # Missing
       /\ task' = [task EXCEPT ![t] = [Resting EXCEPT !.pc = "load", !.op = op, !.j = j]]
  /\ Unwritten

BeginAdmin(t) ==
  /\ MayBegin(t)
  /\ \/ \E op \in scenario.ops \cap {"lock", "unlock", "close"}, p \in Periods :
          task' = [task EXCEPT ![t] = [Resting EXCEPT !.pc = "load", !.op = op, !.period = p]]
     \/ \E a \in Accounts : "drop" \in scenario.ops /\
          task' = [task EXCEPT ![t] = [Resting EXCEPT
            !.pc = "load", !.op = "drop", !.account = a]]
     \/ \E a \in Accounts, k \in Kind : "retype" \in scenario.ops /\
          task' = [task EXCEPT ![t] = [Resting EXCEPT
            !.pc = "load", !.op = "retype", !.account = a, !.new = k]]
  /\ Unwritten

\* create_journal and post_double_entry_journal check the period and the lines.
Check(t) ==
  LET me == task[t] IN
  /\ At(t, "check")
  /\ IF ~ Barred(me.period) /\ Balanced(me.body) /\ Live(me.body)
     THEN task' = [task EXCEPT ![t].pc = IF me.op = "create" THEN "header" ELSE "commit",
                               ![t].bal = balance, ![t].kinds = kind]
     ELSE Finish(t)
  /\ Unwritten

\* The journal-level checks of post_journal.
Postable(row) == row.status = "Draft" /\ row.total > 0 /\ row.lines # {}

\* A mistaken Alterable: only a cancelled journal is refused.
AlterableAgain(op, row) ==
  IF op = "reverse" THEN row.status = "Posted" ELSE row.status # "Cancelled"

\* Statuses in which update, cancel, delete and reverse accept a journal.
Alterable(op, row) ==
  CASE op = "update"             -> row.status \in {"Draft", "PendingApproval"}
    [] op \in {"cancel", "delete"} -> row.status # "Posted"
    [] op = "reverse"            -> row.status = "Posted"

\* A journal is loaded with its lines, their accounts and its period.
Load(t) ==
  LET me == task[t]  row == journal[me.j] IN
  /\ At(t, "load") /\ me.op \in {"update", "post", "reverse", "cancel", "delete"}
  /\ IF /\ ~ row.deleted
        /\ IF me.op = "post" THEN Postable(row) ELSE Alterable(me.op, row)
        /\ me.op \in {"post", "reverse"} => ~ Barred(row.period)
     THEN task' = [task EXCEPT ![t].seen = row, ![t].bal = balance, ![t].kinds = kind, ![t].pc =
            CASE me.op \in {"update", "post"} -> "validate"
              [] me.op = "reverse" -> "header"
              [] OTHER -> "commit"]
     ELSE Finish(t)
  /\ Unwritten

\* post_journal looks for each account; update_journal checks the new period
\* and lines and issues the DELETE of the lines it can see.
Validate(t) ==
  LET me == task[t] IN
  /\ At(t, "validate")
  /\ IF me.op = "post"
     THEN IF Touched(me.seen.lines) \cap dropped = {} THEN Goto(t, "commit") ELSE Finish(t)
     ELSE IF ~ Barred(me.period) /\ Balanced(me.body) /\ Live(me.body)
          THEN task' = [task EXCEPT ![t].pc = "commit",
                          ![t].seen.lines = journal[me.j].lines]
          ELSE Finish(t)
  /\ Unwritten

\* has_posted_transactions: an account named by a posted line may not be dropped.
MayDrop(a) ==
  \A j \in Journals : journal[j].status = "Posted" /\ ~ journal[j].deleted =>
    a \notin Touched(journal[j].lines)

\* lock_period refuses to unlock a closed period; delete_account looks for
\* posted transactions; update_account takes any account that is not deleted.
LoadAdmin(t) ==
  LET me == task[t] IN
  /\ At(t, "load") /\ me.op \in {"drop", "retype", "lock", "unlock", "close"}
  /\ IF \/ me.op \in {"lock", "close"}
        \/ me.op = "unlock" /\ me.period \notin closed
        \/ me.op = "drop" /\ me.account \notin dropped /\ MayDrop(me.account)
        \/ me.op = "retype" /\ me.account \notin dropped
     THEN task' = [task EXCEPT ![t].pc = "commit", ![t].kinds = kind] ELSE Finish(t)
  /\ Unwritten

\* A mistaken NumberFree: the number of a reversal may be given twice.
NumberReused(j) == TRUE

\* journal_number is unique, and a reversal is numbered REV- and its original's.
NumberFree(j) == \A r \in Journals : journal[r].reverses # j

\* The status create_journal gives to a journal of this total.
Status(total) == IF total >= Threshold THEN "PendingApproval" ELSE "Draft"

\* The header of a journal, committed before its lines.
Header(t) ==
  LET me == task[t] IN
  /\ At(t, "header")
  /\ \/ /\ me.op = "create"
        /\ journal' = [journal EXCEPT ![me.j] = [Blank EXCEPT
             !.status = Status(Debits(me.body)), !.period = me.period,
             !.total = Debits(me.body)]]
        /\ Goto(t, "commit")
     \/ /\ me.op = "reverse" /\ NumberFree(me.j)
        /\ \E r \in scenario.journals :
             /\ journal[r].status = Missing
             /\ \A u \in Tasks : r \notin {task[u].j, task[u].r}
             /\ journal' = [journal EXCEPT ![r] = [Blank EXCEPT
                  !.status = "Posted", !.posted = TRUE, !.period = me.seen.period,
                  !.total = me.seen.total, !.reverses = me.j]]
             /\ task' = [task EXCEPT ![t].r = r, ![t].pc = "commit"]
     \/ /\ me.op = "reverse" /\ ~ NumberFree(me.j)
        /\ Finish(t) /\ UNCHANGED journal
  /\ UNCHANGED <<balance, dropped, kind, turned, locked, closed, scenario>>

\* A column is written when the handler changed what it had loaded.
Wrote(seen, new, stored) == IF new = seen THEN stored ELSE new

\* A number no line set of j has, nor had when a handler last saw it.
NewNo(j) ==
  LET used == {b.no : b \in journal[j].lines \cup
                       UNION {task[u].seen.lines : u \in {v \in Tasks : task[v].j = j}}}
  IN CHOOSE n \in 1..Cardinality(used) + 1 : n \notin used
NewLines(j, body) == {[no |-> NewNo(j), body |-> body]}

CommitCreate(t) ==
  LET me == task[t] IN
  /\ At(t, "commit") /\ me.op = "create"
  /\ journal' = [journal EXCEPT ![me.j].lines = @ \cup NewLines(me.j, me.body)]
  /\ Finish(t)
  /\ UNCHANGED <<balance, dropped, kind, turned, locked, closed, scenario>>

\* Account balances move from what the session loaded, on the side of the type
\* it loaded.
Moved(me, lines) ==
  [a \in Accounts |->
     Wrote(me.bal[a], me.bal[a] + Signed(me.kinds[a], Net(lines, a)), balance[a])]

CommitEntry(t) ==
  LET me == task[t]  lines == NewLines(me.j, me.body) IN
  /\ At(t, "commit") /\ me.op = "entry"
  /\ journal' = [journal EXCEPT ![me.j] = [Blank EXCEPT
       !.status = "Posted", !.posted = TRUE, !.period = me.period,
       !.total = Debits(me.body), !.lines = lines]]
  /\ balance' = Moved(me, lines)
  /\ Finish(t)
  /\ UNCHANGED <<dropped, kind, turned, locked, closed, scenario>>

\* A mistaken Replaced: the old lines stay.
Appended(stored, seen, new) == stored \cup new

\* The lines the DELETE saw go, the new ones come.
Replaced(stored, seen, new) == (stored \ seen) \cup new

CommitUpdate(t) ==
  LET me == task[t] IN
  /\ At(t, "commit") /\ me.op = "update"
  /\ journal' = [journal EXCEPT
       ![me.j].period = Wrote(me.seen.period, me.period, @),
       ![me.j].total = Wrote(me.seen.total, Debits(me.body), @),
       ![me.j].lines = Replaced(@, me.seen.lines, NewLines(me.j, me.body))]
  /\ Finish(t)
  /\ UNCHANGED <<balance, dropped, kind, turned, locked, closed, scenario>>

CommitPost(t) ==
  LET me == task[t] IN
  /\ At(t, "commit") /\ me.op = "post"
  /\ journal' = [journal EXCEPT ![me.j].status = "Posted", ![me.j].posted = TRUE]
  /\ balance' = Moved(me, me.seen.lines)
  /\ Finish(t)
  /\ UNCHANGED <<dropped, kind, turned, locked, closed, scenario>>

\* The swapped lines, the balances of the accounts that still exist and the
\* original's status are one commit, after the header's.
CommitReverse(t) ==
  LET me == task[t]  lines == Swapped(me.seen.lines) IN
  /\ At(t, "commit") /\ me.op = "reverse"
  /\ journal' = [journal EXCEPT ![me.r].lines = lines, ![me.j].status = "Reversed"]
  /\ balance' = [a \in Accounts |-> IF a \in dropped THEN balance[a] ELSE Moved(me, lines)[a]]
  /\ Finish(t)
  /\ UNCHANGED <<dropped, kind, turned, locked, closed, scenario>>

CommitClosing(t) ==
  LET me == task[t] IN
  /\ At(t, "commit") /\ me.op \in {"cancel", "delete"}
  /\ journal' = IF me.op = "delete" THEN [journal EXCEPT ![me.j].deleted = TRUE]
                ELSE [journal EXCEPT ![me.j].status = Wrote(me.seen.status, "Cancelled", @)]
  /\ Finish(t)
  /\ UNCHANGED <<balance, dropped, kind, turned, locked, closed, scenario>>

CommitAdmin(t) ==
  LET me == task[t] IN
  /\ At(t, "commit") /\ me.op \in {"drop", "lock", "unlock", "close"}
  /\ dropped' = IF me.op = "drop" THEN dropped \cup {me.account} ELSE dropped
  /\ locked' = CASE me.op \in {"lock", "close"} -> locked \cup {me.period}
                 [] me.op = "unlock" -> locked \ {me.period}
                 [] OTHER -> locked
  /\ closed' = IF me.op = "close" THEN closed \cup {me.period} ELSE closed
  /\ Finish(t)
  /\ UNCHANGED <<journal, balance, kind, turned, scenario>>

\* update_account writes the new type and leaves the balance as it is.
CommitRetype(t) ==
  LET me == task[t]  a == me.account IN
  /\ At(t, "commit") /\ me.op = "retype"
  /\ kind' = [kind EXCEPT ![a] = Wrote(me.kinds[a], me.new, @)]
  /\ turned' = IF Signed(kind'[a], balance[a]) = Normal(a, balance[a]) THEN turned
               ELSE turned \cup {a}
  /\ Finish(t)
  /\ UNCHANGED <<journal, balance, dropped, locked, closed, scenario>>

Abandon(t) == scenario.crashes /\ task[t].pc # "idle" /\ Finish(t) /\ Unwritten

Step(t) ==
  \/ BeginNew(t) \/ BeginUpdate(t) \/ BeginDecision(t) \/ BeginAdmin(t)
  \/ Check(t) \/ Load(t) \/ Validate(t) \/ LoadAdmin(t) \/ Header(t)
  \/ CommitCreate(t) \/ CommitEntry(t) \/ CommitUpdate(t) \/ CommitPost(t)
  \/ CommitReverse(t) \/ CommitClosing(t) \/ CommitAdmin(t) \/ CommitRetype(t) \/ Abandon(t)

Next == \E t \in Tasks : Step(t)

Spec == Init /\ [][Next]_vars

----------------------------------------------------------------------------
(* What is read of the books *)

\* The journals the ledger and trial balance queries read.
InLedger == {j \in Journals : journal[j].status = "Posted" /\ ~ journal[j].deleted}

\* What a set of journals adds to an account.
Turnover(S, a) == Sum([j \in S |-> Normal(a, Net(journal[j].lines, a))], S)

\* The last running balance of an account's ledger, over all pages.
Closing(a) == Turnover(InLedger, a)

\* Amounts of accounts as the two columns of a trial balance: one below zero is
\* in the other column.
Columns(amount) ==
  LET Left(a) == (a \in DebitNormal) = (amount[a] >= 0)
      Size(a) == IF amount[a] < 0 THEN - amount[a] ELSE amount[a]
      sizes   == [a \in DOMAIN amount |-> Size(a)]
  IN [debit  |-> Sum(sizes, {a \in DOMAIN amount : Left(a)}),
      credit |-> Sum(sizes, {a \in DOMAIN amount : ~ Left(a)})]

\* get_trial_balance: the posted lines of the accounts not deleted.
TrialBalance == Columns([a \in Accounts \ dropped |-> Closing(a)])

\* generate_trial_balance: the current balances of all accounts.
TrialOfBalances == Columns(balance)

Total(S) == Sum(balance, S)
BalanceSheet ==
  [assets |-> Total(DebitNormal \ OfProfit),
   claims |-> Total(Accounts \ (DebitNormal \cup OfProfit))]   \* liabilities and equity
NetProfit == Total(OfProfit \ DebitNormal) - Total(OfProfit \cap DebitNormal)

----------------------------------------------------------------------------
(* Properties *)

EverPosted == {j \in Journals : journal[j].posted}

OneAtATime == scenario.width = 1

\* The books agree.  With any two handlers at once, over every posted line
\* debits equal credits.  One handler at a time, lost ones included, the balance
\* of an account is what every journal ever posted, reversed since or not, put
\* on it, unless its type changed sides while it had a balance; the header total
\* of a posted journal is the total of its lines, but for a reversal still
\* without lines; no posted line is on a deleted account; the trial balance of
\* the posted lines agrees whatever types changed, and that of the balances and
\* the balance sheet while no account changed sides (get_trial_balance,
\* post_journal, post_double_entry_journal, reverse_journal, create_journal,
\* update_journal, update_account, delete_account).
BooksAgree ==
  /\ Sum([a \in Accounts |-> Sum([j \in InLedger |-> Net(journal[j].lines, a)], InLedger)],
         Accounts) = 0
  /\ OneAtATime =>
    /\ \A a \in Accounts \ turned : balance[a] = Turnover(EverPosted, a)
    /\ \A j \in EverPosted : journal[j].reverses = Missing =>
         journal[j].total = Sum([b \in journal[j].lines |-> Debits(b.body)], journal[j].lines)
    /\ \A j \in InLedger : Touched(journal[j].lines) \cap dropped = {}
    /\ TrialBalance.debit = TrialBalance.credit
    /\ turned = {} =>
         /\ TrialOfBalances.debit = TrialOfBalances.credit
         /\ BalanceSheet.assets = BalanceSheet.claims + NetProfit

\* A posting is never taken back twice, whatever two reversals, a crash and a
\* retry do: the unique REV- number admits one reversal (reverse_journal).
ReversedOnce ==
  \A j \in Journals : Cardinality({r \in Journals : journal[r].reverses = j}) <= 1

\* What a step may do to a journal: post it in an open period, and once it is
\* posted only reverse it or write lines a reversal still lacks.
StaysPosted(j) ==
  /\ journal'[j].posted /\ ~ journal[j].posted => journal'[j].period \notin locked \cup closed
  /\ journal[j].status = "Posted" =>
       /\ journal'[j].status \in {"Posted", "Reversed"}
       /\ journal'[j].total = journal[j].total /\ journal'[j].period = journal[j].period
       /\ journal[j].lines \subseteq journal'[j].lines
       /\ ~ journal'[j].deleted

\* One handler at a time, nothing is posted in a period that is locked or
\* closed when it is posted, though the journal was drafted before; and posting
\* is for good: a posted journal keeps its lines, total and period, is not
\* deleted, and leaves its status only by being reversed (post_journal,
\* post_double_entry_journal, update_journal, delete_journal, cancel_journal).
PostedIsFinal == [][OneAtATime => \A j \in Journals : StaysPosted(j)]_vars

=============================================================================
