-------------------------- MODULE FinanceDocuments --------------------------
(***************************************************************************)
(* Finance operations: customer invoices and receipts, supplier bills and  *)
(* payments with the running balance of the two parties, one bank account  *)
(* and its reconciliation, asset acquisition, and the posting queue.       *)
(*                                                                         *)
(* post_double_entry_journal commits.  What a caller changes after it is   *)
(* committed only if something else commits later in the same request:     *)
(* ledger_repo.create does so for invoices and bills, nothing does for     *)
(* vouchers.  Nothing here takes a row lock.                               *)
(***************************************************************************)
EXTENDS Integers, Sequences, FiniteSets, FiniteSetsExt

CONSTANTS
  Tasks,      \* handlers and workers in flight
  Docs,       \* ids of invoices, receipts, bills, payments and assets
  Items,      \* ids of rows of the posting queue
  Txns,       \* ids of bank transactions
  Lines,      \* ids of statement lines
  MaxAmount,  \* most that a document or transaction is worth
  Scenarios   \* what is asked, and how many handlers overlap

Missing == "none"
Parties == {"customer", "supplier"}
Invoices == {"invoice", "bill"}
Vouchers == {"receipt", "payment"}
DocKinds == Invoices \cup Vouchers \cup {"asset"}
Ops == {"create", "post", "acquire", "enqueue", "process", "transact", "import", "match"}
Scenario == [width: Nat \ {0}, ops: SUBSET Ops, kinds: SUBSET DocKinds,
             docs: Nat, items: Nat, txns: Nat, lines: Nat,  \* bounds on rows
             posts: Nat,                                    \* bound on journals of a document
             crashes: Nat]                                  \* bound on handlers lost

\* What theorems may assume, and the module that gives the constants checks.
FinanceAssumption ==
  /\ MaxAmount \in Nat \ {0} /\ Scenarios \subseteq Scenario
  /\ IsFiniteSet(Tasks) /\ IsFiniteSet(Items)
  /\ Missing \notin Docs \cup Txns

VARIABLES
  doc,       \* the committed documents
  journals,  \* how many posted journals refer to each document
  entries,   \* the committed entries of customer and supplier ledger
  clock,     \* transactions begun so far, which orders the entries
  bank,      \* current_balance of the bank account
  booked,    \* ghost: what the bank has been told to book
  item,      \* the rows of the posting queue
  drafts,    \* journals of each queue item: not posted, and posted
  txn,       \* the bank transactions
  line,      \* the statement lines, of this bank account and of others
  task, crashes, scenario

books == <<doc, journals, entries, clock, bank, booked>>
queue == <<item, drafts>>
statement == <<txn, line>>
vars == <<books, queue, statement, task, crashes, scenario>>

----------------------------------------------------------------------------
(* Rows *)

Document == [kind: DocKinds \cup {Missing}, status: {Missing, "Draft", "Posted", "Active"},
             amount: 0..MaxAmount, bank: BOOLEAN]   \* bank: payment_mode is Bank
Entry == [doc: Docs, party: Parties, stamp: Nat, delta: Int, running: Int]
\* size: no amount in the payload, below or at the approval threshold;
\* named: the payload has a reference_id.
Item == [status: {Missing, "Pending", "Posted", "Skipped", "Failed"},
         size: {"none", "small", "large"}, named: BOOLEAN]
Txn == [amount: 0..MaxAmount, reconciled: BOOLEAN]
StatementLine == [amount: 0..MaxAmount, ours: BOOLEAN, match: Txns \cup {Missing}]

NoDoc  == [kind |-> Missing, status |-> Missing, amount |-> 0, bank |-> FALSE]
NoItem == [status |-> Missing, size |-> "none", named |-> FALSE]
NoTxn  == [amount |-> 0, reconciled |-> FALSE]
NoLine == [amount |-> 0, ours |-> FALSE, match |-> Missing]

Party(kind) == IF kind \in {"invoice", "receipt"} THEN "customer" ELSE "supplier"
Delta(row) == IF row.kind \in Invoices THEN row.amount ELSE - row.amount
\* What posting a document does to the bank account.
ToBank(row) == IF ~ row.bank THEN 0 ELSE IF row.kind = "receipt" THEN row.amount
               ELSE IF row.kind = "payment" THEN - row.amount ELSE 0

Resting == [pc |-> "idle", d |-> Missing, row |-> NoDoc, bank |-> 0, stamp |-> 0, prev |-> 0,
            todo |-> << >>, done |-> {}, txns |-> {}, lines |-> {}, amount |-> 0]
Task == [pc: {"idle", "journal", "read", "entry", "row", "item", "draft", "post", "match", "bank"},
         d: Docs \cup {Missing}, row: Document, bank: Int,  \* rows as they were loaded
         stamp: Nat, prev: Int,                             \* its transaction; the balance it found
         todo: Seq(Items), done: SUBSET (Items \X {"Posted", "Skipped", "Failed"}),
         txns: SUBSET Txns, lines: SUBSET Lines, amount: -MaxAmount..MaxAmount]

TypeOK ==
  /\ doc \in [Docs -> Document] /\ journals \in [Docs -> Nat]
  /\ entries \subseteq Entry /\ clock \in Nat /\ bank \in Int /\ booked \in Int
  /\ item \in [Items -> Item] /\ drafts \in [Items -> [open: Nat, posted: Nat]]
  /\ txn \in [Txns -> Txn] /\ line \in [Lines -> StatementLine]
  /\ task \in [Tasks -> Task]
  /\ crashes \in 0..scenario.crashes /\ scenario \in Scenarios

Init ==
  /\ doc = [d \in Docs |-> NoDoc] /\ journals = [d \in Docs |-> 0]
  /\ entries = {} /\ clock = 0 /\ bank = 0 /\ booked = 0
  /\ item = [i \in Items |-> NoItem] /\ drafts = [i \in Items |-> [open |-> 0, posted |-> 0]]
  /\ txn = [x \in Txns |-> NoTxn] /\ line = [l \in Lines |-> NoLine]
  /\ task = [t \in Tasks |-> Resting]
  /\ crashes = 0 /\ scenario \in Scenarios

Asked(op) == op \in scenario.ops
MayBegin(t) ==
  /\ task[t].pc = "idle"
  /\ Cardinality({u \in Tasks : task[u].pc # "idle"}) < scenario.width
Go(t, me) == task' = [task EXCEPT ![t] = me]
Stop(t) == Go(t, Resting)
Free(rows, none, bound) ==
  {x \in DOMAIN rows : rows[x] = none /\ Cardinality({y \in DOMAIN rows : rows[y] # none}) < bound}

----------------------------------------------------------------------------
(* Documents *)

\* create_invoice, create_bill, create_receipt_voucher, create_payment_voucher.
Create(t) ==
  /\ MayBegin(t) /\ Asked("create")
  /\ \E d \in Free(doc, NoDoc, scenario.docs), k \in scenario.kinds \ {"asset"},
        a \in 1..MaxAmount, b \in BOOLEAN :
       /\ b => k \in Vouchers
       /\ \A u \in Tasks : task[u].d # d
       /\ doc' = [doc EXCEPT ![d] = [kind |-> k, status |-> "Draft", amount |-> a, bank |-> b]]
  /\ UNCHANGED <<journals, entries, clock, bank, booked, queue, statement, task, crashes, scenario>>

\* A mistaken Postable: the status of the document is not looked at.
PostableAlways(row) == row.kind # Missing

Postable(row) == row.status = "Draft"

\* post_invoice, post_bill, post_receipt_voucher, post_payment_voucher: read
\* the document, and the bank account if it is paid there.
BeginPost(t) ==
  /\ MayBegin(t) /\ Asked("post")
  /\ \E d \in Docs :
       /\ Postable(doc[d]) /\ journals[d] < scenario.posts
       /\ Go(t, [Resting EXCEPT !.pc = "journal", !.d = d, !.row = doc[d], !.bank = bank])
  /\ UNCHANGED <<books, queue, statement, crashes, scenario>>

\* create_asset posts the acquisition before it inserts the asset.
BeginAcquire(t) ==
  /\ MayBegin(t) /\ Asked("acquire")
  /\ \E d \in Free(doc, NoDoc, scenario.docs), a \in 1..MaxAmount :
       /\ \A u \in Tasks : task[u].d # d
       /\ journals[d] < scenario.posts
       /\ Go(t, [Resting EXCEPT !.pc = "journal", !.d = d,
                   !.row = [NoDoc EXCEPT !.kind = "asset", !.status = "Active", !.amount = a]])
  /\ UNCHANGED <<books, queue, statement, crashes, scenario>>

\* A mistaken PostJournal: the bank account is changed after the journal, in
\* the part of a voucher that nothing commits.
PostJournalOnly(t) ==
  LET me == task[t] IN
  /\ me.pc = "journal"
  /\ journals' = [journals EXCEPT ![me.d] = @ + 1]
  /\ booked' = booked + ToBank(me.row)
  /\ clock' = clock + 1
  /\ Go(t, [me EXCEPT !.pc = IF me.row.kind = "asset" THEN "row" ELSE "read", !.stamp = clock + 1])
  /\ UNCHANGED <<doc, entries, bank, queue, statement, crashes, scenario>>

\* post_double_entry_journal commits the journal, with the new balance of
\* the bank account; the next transaction begins.
PostJournal(t) ==
  LET me == task[t] IN
  /\ me.pc = "journal"
  /\ journals' = [journals EXCEPT ![me.d] = @ + 1]
  /\ bank' = IF ToBank(me.row) = 0 THEN bank ELSE me.bank + ToBank(me.row)
  /\ booked' = booked + ToBank(me.row)
  /\ clock' = clock + 1
  /\ Go(t, [me EXCEPT !.pc = IF me.row.kind = "asset" THEN "row" ELSE "read", !.stamp = clock + 1])
  /\ UNCHANGED <<doc, entries, queue, statement, crashes, scenario>>

InsertAsset(t) ==
  /\ task[t].pc = "row"
  /\ doc' = [doc EXCEPT ![task[t].d] = task[t].row]
  /\ Stop(t)
  /\ UNCHANGED <<journals, entries, clock, bank, booked, queue, statement, crashes, scenario>>

LedgerOf(p) == {e \in entries : e.party = p}

\* order_by(created_at.desc()).first()
LastBalance(p) ==
  IF LedgerOf(p) = {} THEN 0
  ELSE (CHOOSE e \in LedgerOf(p) : \A f \in LedgerOf(p) : f.stamp <= e.stamp).running

ReadBalance(t) ==
  LET me == task[t] IN
  /\ me.pc = "read"
  /\ Go(t, [me EXCEPT !.pc = "entry", !.prev = LastBalance(Party(me.row.kind))])
  /\ UNCHANGED <<books, queue, statement, crashes, scenario>>

\* The entry of an invoice or bill is committed together with its status.
WriteEntry(t) ==
  LET me == task[t] IN
  /\ me.pc = "entry" /\ me.row.kind \in Invoices
  /\ entries' = entries \cup
       {[doc |-> me.d, party |-> Party(me.row.kind), stamp |-> me.stamp,
         delta |-> Delta(me.row), running |-> me.prev + Delta(me.row)]}
  /\ doc' = [doc EXCEPT ![me.d].status = "Posted"]
  /\ Stop(t)
  /\ UNCHANGED <<journals, clock, bank, booked, queue, statement, crashes, scenario>>

\* The entry and the status of a voucher are added to the session, which is
\* closed at the end of the request without a commit.
DropEntry(t) ==
  /\ task[t].pc = "entry" /\ task[t].row.kind \in Vouchers
  /\ Stop(t)
  /\ UNCHANGED <<books, queue, statement, crashes, scenario>>

----------------------------------------------------------------------------
(* The bank account: transactions, statements, reconciliation *)

\* record_transaction reads the account ...
BeginTransaction(t) ==
  /\ MayBegin(t) /\ Asked("transact") /\ Free(txn, NoTxn, scenario.txns) # {}
  /\ \E a \in -MaxAmount..MaxAmount :
       a # 0 /\ Go(t, [Resting EXCEPT !.pc = "bank", !.bank = bank, !.amount = a])
  /\ UNCHANGED <<books, queue, statement, crashes, scenario>>

\* ... and commits the transaction with the new balance.
WriteTransaction(t) ==
  LET me == task[t]  size == IF me.amount < 0 THEN - me.amount ELSE me.amount IN
  /\ me.pc = "bank"
  /\ \E x \in Txns : txn[x] = NoTxn /\ txn' = [txn EXCEPT ![x].amount = size]
  /\ bank' = me.bank + me.amount /\ booked' = booked + me.amount
  /\ Stop(t)
  /\ UNCHANGED <<doc, journals, entries, clock, queue, line, crashes, scenario>>

\* import_statement, of this bank account or of another.
Import(t) ==
  /\ MayBegin(t) /\ Asked("import")
  /\ \E l \in Free(line, NoLine, scenario.lines), a \in 1..MaxAmount, ours \in BOOLEAN :
       line' = [line EXCEPT ![l] = [amount |-> a, ours |-> ours, match |-> Missing]]
  /\ UNCHANGED <<books, queue, txn, task, crashes, scenario>>

\* perform_auto_matching reads unmatched lines, of whatever account, and
\* unreconciled transactions ...
BeginMatch(t) ==
  /\ MayBegin(t) /\ Asked("match")
  /\ Go(t, [Resting EXCEPT !.pc = "match",
              !.txns = {x \in Txns : txn[x] # NoTxn /\ ~ txn[x].reconciled},
              !.lines = {l \in Lines : line[l] # NoLine /\ line[l].match = Missing}])
  /\ UNCHANGED <<books, queue, statement, crashes, scenario>>

\* What going through the lines in some order, and for each through the
\* transactions, may pair: equal amounts, nothing twice, nothing left over.
Pairings(lines, txns) ==
  {f \in UNION {[ls -> txns] : ls \in SUBSET lines} :
     /\ \A l \in DOMAIN f : txn[f[l]].amount = line[l].amount
     /\ \A l, k \in DOMAIN f : f[l] = f[k] => l = k
     /\ \A l \in lines \ DOMAIN f, x \in txns :
          txn[x].amount = line[l].amount => \E k \in DOMAIN f : f[k] = x}

\* ... and commits the pairs.
WriteMatch(t) ==
  LET me == task[t] IN
  /\ me.pc = "match"
  /\ \E f \in Pairings(me.lines, me.txns) :
       /\ line' = [l \in Lines |-> IF l \in DOMAIN f THEN [line[l] EXCEPT !.match = f[l]] ELSE line[l]]
       /\ txn' = [x \in Txns |-> IF \E l \in DOMAIN f : f[l] = x
                                 THEN [txn[x] EXCEPT !.reconciled = TRUE] ELSE txn[x]]
  /\ Stop(t)
  /\ UNCHANGED <<books, queue, crashes, scenario>>

----------------------------------------------------------------------------
(* The posting queue *)

\* publish_financial_payload enqueues a payload without an amount; other
\* producers are outside the repository.
Enqueue(t) ==
  /\ MayBegin(t) /\ Asked("enqueue")
  /\ \E i \in Free(item, NoItem, scenario.items), s \in {"none", "small", "large"}, n \in BOOLEAN :
       item' = [item EXCEPT ![i] = [status |-> "Pending", size |-> s, named |-> n]]
  /\ UNCHANGED <<books, drafts, statement, task, crashes, scenario>>

\* process_financial_posting_queue_task reads the pending items once ...
BeginProcess(t) ==
  LET pending == {i \in Items : item[i].status = "Pending"} IN
  /\ MayBegin(t) /\ Asked("process") /\ pending # {}
  /\ \E order \in [1..Cardinality(pending) -> pending] :
       /\ \A i \in pending : \E k \in DOMAIN order : order[k] = i
       /\ Go(t, [Resting EXCEPT !.pc = "item", !.todo = order])
  /\ UNCHANGED <<books, queue, statement, crashes, scenario>>

\* What the worker has assigned is flushed by any commit of its session.
Flushed(t) ==
  [i \in Items |-> IF \E s \in {"Posted", "Skipped", "Failed"} : <<i, s>> \in task[t].done
                   THEN [item[i] EXCEPT !.status =
                           CHOOSE s \in {"Posted", "Skipped", "Failed"} : <<i, s>> \in task[t].done]
                   ELSE item[i]]
Assign(t, i, s) == Go(t, [task[t] EXCEPT !.pc = "item", !.todo = Tail(@), !.done = @ \cup {<<i, s>>}])

\* No rule, no amount, or an error: nothing is committed for this item.
PassItem(t) ==
  LET me == task[t] IN
  /\ me.pc = "item" /\ me.todo # << >>
  /\ \/ item[Head(me.todo)].size = "none" /\ Assign(t, Head(me.todo), "Skipped")
     \/ item[Head(me.todo)].size # "none" /\ Assign(t, Head(me.todo), "Failed")
  /\ UNCHANGED <<books, queue, statement, crashes, scenario>>

\* create_journal commits a draft, or a journal that waits for approval.
DraftJournal(t) ==
  LET me == task[t]  i == Head(me.todo) IN
  /\ me.pc = "item" /\ me.todo # << >> /\ item[i].size # "none"
  /\ drafts[i].open + drafts[i].posted < scenario.posts
  /\ drafts' = [drafts EXCEPT ![i].open = @ + 1]
  /\ item' = Flushed(t)
  /\ IF item[i].size = "large" THEN Assign(t, i, "Posted") ELSE Go(t, [me EXCEPT !.pc = "post"])
  /\ UNCHANGED <<books, statement, crashes, scenario>>

\* UPDATE financial_posting_queues WHERE payload->>'reference_id' = ...
MarkPosted(rows, i) == IF rows[i].named THEN [rows EXCEPT ![i].status = "Posted"] ELSE rows

\* post_journal commits the posting, and the item if the journal names it.
PostDraft(t) ==
  LET me == task[t]  i == Head(me.todo) IN
  /\ me.pc = "post"
  /\ drafts' = [drafts EXCEPT ![i] = [open |-> @.open - 1, posted |-> @.posted + 1]]
  /\ item' = MarkPosted(Flushed(t), i)
  /\ Assign(t, i, "Posted")
  /\ UNCHANGED <<books, statement, crashes, scenario>>

\* post_journal refuses: a locked period, an inactive account.
RefuseDraft(t) ==
  /\ task[t].pc = "post"
  /\ Assign(t, Head(task[t].todo), "Failed")
  /\ UNCHANGED <<books, queue, statement, crashes, scenario>>

EndProcess(t) ==
  /\ task[t].pc = "item" /\ task[t].todo = << >>
  /\ item' = Flushed(t)
  /\ Stop(t)
  /\ UNCHANGED <<books, drafts, statement, crashes, scenario>>

----------------------------------------------------------------------------
\* The process is lost: what was committed stays.
Crash(t) ==
  /\ task[t].pc # "idle" /\ crashes < scenario.crashes
  /\ crashes' = crashes + 1
  /\ Stop(t)
  /\ UNCHANGED <<books, queue, statement, scenario>>

Step(t) ==
  \/ Create(t) \/ BeginPost(t) \/ BeginAcquire(t) \/ PostJournal(t) \/ InsertAsset(t)
  \/ ReadBalance(t) \/ WriteEntry(t) \/ DropEntry(t)
  \/ BeginTransaction(t) \/ WriteTransaction(t) \/ Import(t) \/ BeginMatch(t) \/ WriteMatch(t)
  \/ Enqueue(t) \/ BeginProcess(t) \/ PassItem(t) \/ DraftJournal(t) \/ PostDraft(t)
  \/ RefuseDraft(t) \/ EndProcess(t)
  \/ Crash(t)

Next == \E t \in Tasks : Step(t)

Spec == Init /\ [][Next]_vars

----------------------------------------------------------------------------
(* Properties *)

OneAtATime == scenario.width = 1
EntriesOf(d) == {e \in entries : e.doc = d}

\* One handler at a time, an invoice or bill has one entry in the ledger of
\* its party exactly when it is Posted, an asset exists only with its
\* journal, there is no further journal but one for each handler lost, and each
\* running balance of a party is the one before it plus what its document was
\* worth (post_invoice, post_bill, create_asset).
InvoicePostedOnce ==
  OneAtATime =>
    /\ \A d \in Docs : doc[d].kind \in Invoices \cup {"asset"} =>
         LET final == doc[d].status \in {"Posted", "Active"} IN
         /\ doc[d].kind # "asset" => Cardinality(EntriesOf(d)) = IF final THEN 1 ELSE 0
         /\ final => journals[d] \in 1 .. 1 + crashes
         /\ ~ final /\ (\A t \in Tasks : task[t].pc = "idle") => journals[d] \in 0 .. crashes
    /\ \A p \in Parties : \A e \in LedgerOf(p) :
         e.running = MapThenSumSet(LAMBDA f : f.delta, {f \in LedgerOf(p) : f.stamp <= e.stamp})

\* One handler at a time, the balance of the bank account is what recorded
\* transactions and posted vouchers have booked, with handlers lost at any
\* point, and a transaction is reconciled exactly when one statement line of
\* the same amount is matched with it (record_transaction,
\* post_receipt_voucher, post_payment_voucher, perform_auto_matching).
BankAgrees ==
  OneAtATime =>
    /\ bank = booked
    /\ \A x \in Txns : LET with == {l \in Lines : line[l].match = x} IN
         /\ Cardinality(with) = IF txn[x].reconciled THEN 1 ELSE 0
         /\ \A l \in with : line[l].amount = txn[x].amount

\* One worker at a time, a queue item whose payload names its reference is
\* posted by at most one journal, although the worker may be lost after any
\* of its commits; an item without reference by one more for each worker lost
\* (process_financial_posting_queue_task, post_journal).
QueuePostsOnce ==
  OneAtATime => \A i \in Items :
    drafts[i].posted <= 1 + IF item[i].named THEN 0 ELSE crashes

=============================================================================
