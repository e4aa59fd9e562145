-------------------------- MODULE MCJournalLedger --------------------------
(* The general ledger or the finance documents that post to it, one of them   *)
(* at a time: neither side reads what the other writes.                       *)
EXTENDS LedgerAndDocuments, TLC

CONSTANTS t1, t2, j1, j2, j3, cash, sales, may, d1, d2, d3, i1, i2, x1, x2, l1, l2

Sale     == (cash :> 1) @@ (sales :> -1)
BigSale  == (cash :> 2) @@ (sales :> -2)
Lopsided == (cash :> 2) @@ (sales :> -1)
AnyBody  == {Sale, BigSale, Lopsided}

CashAndSales == (cash :> "Asset") @@ (sales :> "Income")

\* Every operation one at a time, but for types of accounts; types that change
\* between entries, postings and reversals; reversals of reversals; two handlers
\* on one journal, and on two; and two that reverse one journal, with room for
\* two reversals.
Demands == {
  [width |-> 1, ops |-> AllOps \ {"retype"}, journals |-> {j1, j2}, bodies |-> AnyBody,
   crashes |-> TRUE],
  [width |-> 1, ops |-> {"entry", "create", "post", "reverse", "drop", "retype"},
   journals |-> {j1, j2}, bodies |-> {Sale}, crashes |-> TRUE],
  [width |-> 1, ops |-> {"entry", "create", "update", "post", "reverse", "cancel", "drop"},
   journals |-> {j1, j2, j3}, bodies |-> {Sale}, crashes |-> TRUE],
  [width |-> 2, ops |-> {"create", "entry", "update", "post", "cancel"},
   journals |-> {j1}, bodies |-> {Sale, BigSale, Lopsided}, crashes |-> TRUE],
  [width |-> 2, ops |-> {"create", "post", "reverse", "cancel"},
   journals |-> {j1, j2}, bodies |-> {Sale}, crashes |-> TRUE],
  [width |-> 2, ops |-> {"entry", "reverse", "cancel"},
   journals |-> {j1, j2, j3}, bodies |-> {Sale}, crashes |-> TRUE] }

Nothing == [width |-> 1, ops |-> {}, journals |-> {}, bodies |-> {}, crashes |-> FALSE]
DemandsOrNothing == Demands \cup {Nothing}

AllKinds == {"invoice", "bill", "receipt", "payment", "asset"}
NoWish == [width |-> 1, ops |-> {}, kinds |-> {}, docs |-> 0, items |-> 0, txns |-> 0,
         lines |-> 0, posts |-> 3, crashes |-> 0]
Wish(ops) == [NoWish EXCEPT !.ops = ops]

\* Invoices, bills, assets, vouchers and transactions with lost handlers;
\* statements and matching; the queue with lost workers; two at once.
AllWishes == {
  [Wish({"create", "post"}) EXCEPT !.kinds = {"invoice", "bill"}, !.docs = 3, !.crashes = 1],
  [Wish({"create", "post", "acquire", "transact"})
     EXCEPT !.kinds = AllKinds, !.docs = 2, !.txns = 1, !.posts = 1, !.crashes = 1],
  [Wish({"transact", "import", "match"}) EXCEPT !.txns = 2, !.lines = 2],
  [Wish({"enqueue", "process"}) EXCEPT !.items = 2, !.crashes = 2],
  [Wish({"create", "post", "acquire"})
     EXCEPT !.width = 2, !.kinds = {"invoice", "asset"}, !.docs = 2, !.posts = 2],
  [Wish({"transact", "import", "match"}) EXCEPT !.width = 2, !.txns = 2, !.lines = 2],
  [Wish({"enqueue", "process"}) EXCEPT !.width = 2, !.items = 2] }

WishesOrNone == AllWishes \cup {NoWish}

ASSUME DocumentsAssumption == Finance!FinanceAssumption

OneInit == BothInit /\ (wanted = NoWish \/ scenario = Nothing)
OneSpec == OneInit /\ [][BothNext]_<<vars, records>>

Symmetry == Permutations(Tasks)
=============================================================================
