------------------------- MODULE MCPurchaseOrders -------------------------
(* One order and its returns, or how a supplier comes to an order, one of    *)
(* them at a time: neither side reads what the other writes.                 *)
EXTENDS PurchasingAndSourcing, TLC

CONSTANTS t1, t2, i1, i2, v1, v2, s1, s2, c1, c2, c3, r1, r2, q1, q2, o1, o2

Ordinary == {"create", "approve", "receive"}
\* Every operation one at a time; documents that name a line twice; receipts
\* against the order's other handlers; receipts against returns; new batches.
Demands == {
  [width |-> 1, ops |-> Ops, lines |-> 2, batches |-> FALSE, repeats |-> FALSE],
  [width |-> 1, ops |-> Ordinary \cup {"draftReturn", "process"},
   lines |-> 2, batches |-> FALSE, repeats |-> TRUE],
  [width |-> 2, ops |-> Ordinary \cup {"amend", "cancel", "close", "reopen"},
   lines |-> 2, batches |-> FALSE, repeats |-> FALSE],
  [width |-> 2, ops |-> Ordinary \cup {"draftReturn", "editReturn", "process"},
   lines |-> 1, batches |-> FALSE, repeats |-> FALSE],
  [width |-> 2, ops |-> Ordinary, lines |-> 2, batches |-> TRUE, repeats |-> FALSE] }
Nobody == [width |-> 1, ops |-> {}, lines |-> 1, batches |-> FALSE, repeats |-> FALSE]
DemandsOrNone == Demands \cup {Nobody}

DocumentOps == {"status", "delete", "rfq", "issue", "cancelRfq", "invite", "uninvite", "quote",
                "submit", "withdraw", "approve", "reject", "award", "order", "supplierOf",
                "receive", "cancelOrder"}
Wish(rows, ops) == [rows |-> rows, ops |-> ops \cup {"supplier"}]

\* Two handlers of the contacts of one supplier; every operation on documents
\* but the entering of orders; two quotations of two requests; invitations, and
\* suppliers that are replaced; orders that are entered with an origin.
AllWishes == {
  Wish({s1, c1, c2, c3}, {"addContact", "updateContact", "deleteContact", "delete"}),
  Wish({s1, s2, r1, q1, o1, o2}, DocumentOps),
  Wish({s1, r1, r2, q1, q2, o1},
       {"rfq", "quote", "submit", "award", "approve", "reject", "withdraw", "order", "delete"}),
  Wish({s1, s2, r1, q1, o1},
       {"status", "delete", "rfq", "invite", "uninvite", "quote", "approve", "order",
        "supplierOf", "cancelOrder"}),
  Wish({s1, s2, q1, o1, o2},
       {"delete", "quote", "approve", "reject", "order", "enter", "supplierOf", "receive",
        "cancelOrder"}) }
None == [rows |-> {}, ops |-> {}]

WishesOrNone == AllWishes \cup {None}

ASSUME SourceAssumption == Source!SourcingAssumption

OneInit == BothInit /\ (wanted = None \/ scenario = Nobody)
OneSpec == OneInit /\ [][BothNext]_<<vars, records>>

Symmetry == Permutations(Tasks) \cup Permutations(Items) \cup Permutations(Returns)
=============================================================================
