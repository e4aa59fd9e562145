-------------------------- MODULE MCSalesDelivery --------------------------
(* Quotations, orders and deliveries, or leads and what becomes of them, one *)
(* of them at a time: neither side reads what the other writes.              *)
EXTENDS SalesAndLeads, TLC

CONSTANTS t1, t2, q1, q2, o1, o2, d1, d2, d3, l1, l2, c1, c2, p1, p2, k1

Base == [width |-> 1, ops |-> {}, begin |-> "order", lines |-> 1,
         quotes |-> 0, orders |-> 1, docs |-> 0, crashes |-> 0]
Demand(ops) == [Base EXCEPT !.ops = ops]

\* Quotations from creation to conversion, with lost handlers; an order from
\* creation to delivery; deliveries and returns of two lines, with lost
\* handlers, without and with changes by the warehouse; conversions, order
\* changes and deliveries with two at once.
Demands == {
  [Demand(QuoteOps \cup {"order"})
     EXCEPT !.begin = "quotes", !.quotes = 2, !.orders = 2, !.crashes = 1],
  [Demand(OrderOps \cup {"deliver"})
     EXCEPT !.begin = "quotes", !.lines = 2, !.docs = 1],
  [Demand({"cancel", "close", "reopen", "deliver", "cancel delivery"})
     EXCEPT !.lines = 2, !.docs = 3],
  [Demand({"deliver", "return", "approve return", "post"})
     EXCEPT !.lines = 2, !.docs = 2],
  [Demand({"deliver", "return", "approve return", "post"})
     EXCEPT !.docs = 2, !.crashes = 1],
  [Demand({"deliver", "return", "approve return", "post", "edit"})
     EXCEPT !.docs = 2, !.crashes = 1],
  [Demand({"quote", "submit q", "approve q", "cancel q", "expire", "convert"})
     EXCEPT !.begin = "quotes", !.width = 2, !.quotes = 1, !.orders = 2],
  [Demand({"order", "update", "approve", "cancel", "deliver"})
     EXCEPT !.begin = "quotes", !.width = 2, !.docs = 2],
  [Demand({"cancel", "deliver", "cancel delivery", "return", "approve return", "post"})
     EXCEPT !.width = 2, !.docs = 2],
  [Demand({"deliver", "return", "approve return", "post", "edit"})
     EXCEPT !.width = 2, !.docs = 1] }

Nobody == [Base EXCEPT !.begin = "quotes"]
DemandsOrNone == Demands \cup {Nobody}

Wish(width, ops, rows, early, n) ==
  [width |-> width, ops |-> ops, rows |-> rows, early |-> early, losses |-> n]
AllOps == {"create", "update", "delete", "convert", "addCustomer", "dropCustomer"}

\* Everything one at a time, with a lost handler; two leads of one person; two
\* handlers, with a customer to be found and without.
AllWishes == {
  Wish(1, AllOps, {l1, c1, c2, p1, p2}, TRUE, 1),
  Wish(1, {"create", "convert"}, {l1, l2, c1, c2, p1, p2}, TRUE, 1),
  Wish(2, {"create", "update", "delete", "convert", "addCustomer"}, {l1, c1}, FALSE, 0),
  Wish(2, {"create", "convert", "dropCustomer"}, {l1, c1, p1, p2}, TRUE, 0) }
None == Wish(1, {}, {}, FALSE, 0)

WishesOrNone == AllWishes \cup {None}

ASSUME CrmAssumption == Crm!LeadAssumption

OneInit == BothInit /\ (wanted = None \/ scenario = Nobody)
OneSpec == OneInit /\ [][BothNext]_<<vars, records>>

Symmetry == Permutations(Tasks) \cup Permutations(Quotes) \cup Permutations(Orders)
              \cup Permutations(Docs)
=============================================================================
