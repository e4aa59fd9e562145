------------------------ MODULE MCWarehouseDocuments ------------------------
(* Receipts, issues, transfers, counts, adjustments and reservations; beside *)
(* them, the inventory reports.  Neither side reads what the other writes,   *)
(* so a run asks for one of them at a time.                                  *)
EXTENDS WarehouseDocuments, TLC

CONSTANTS t1, t2, d1, d2, r1, r2, r3, p1, p2, x1,
          a1, a2, w1, w2, s1, b1, h1, h2, nothing, all

VARIABLES balance, ledger, batch, hold, archived, closed, today, now, report, wanted

Base == [width |-> 1, ops |-> {}, kinds |-> {}, lines |-> 1, naming |-> FALSE,
         docs |-> 1, resvs |-> 2, together |-> FALSE, crashes |-> 0]
Demand(ops, kinds) == [Base EXCEPT !.ops = ops, !.kinds = kinds]

\* Documents of two lines, and transfers in two stages, with lost handlers;
\* counts, adjustments and opening stock; issues of reserved stock;
\* receipts that name batches; reservations of a warehouse with two locations,
\* with expiry; recalculation and audit beside them; documents, reservations
\* and recalculations with two handlers at once.
Demands == {
  [Demand({"create", "update", "approve", "cancel", "delete", "post"}, Movers)
     EXCEPT !.lines = 2, !.crashes = 1],
  [Demand({"create", "post", "dispatch", "complete"}, {"transfer"})
     EXCEPT !.docs = 2, !.crashes = 1],
  [Demand({"create", "update", "approve", "apply", "settle", "open", "post"},
          {"adjustment", "count", "receipt"})
     EXCEPT !.docs = 2, !.crashes = 1],
  [Demand({"create", "post", "reserve", "release", "withdraw", "consume"}, {"issue"})
     EXCEPT !.lines = 2, !.naming = TRUE],
  [Demand({"create", "post"}, {"receipt"}) EXCEPT !.lines = 2, !.naming = TRUE, !.docs = 2,
     !.crashes = 1],
  [Demand({"create", "post", "reserve", "release", "recalculate", "audit"}, {"issue"})
     EXCEPT !.together = TRUE],
  [Demand({"reserve", "release", "consume", "expire"}, {}) EXCEPT !.together = TRUE],
  [Demand({"create", "cancel", "post", "dispatch", "complete"}, Movers)
     EXCEPT !.width = 2, !.docs = 2],
  [Demand({"create", "approve", "apply", "settle"}, {"adjustment", "count"})
     EXCEPT !.width = 2, !.docs = 2],
  [Demand({"create", "post", "reserve", "release", "consume"}, {"issue"})
     EXCEPT !.width = 2, !.naming = TRUE],
  [Demand({"create", "post"}, {"receipt"})
     EXCEPT !.width = 2, !.lines = 2, !.naming = TRUE, !.crashes = 1],
  [Demand({"create", "post", "reserve", "recalculate"}, {"issue", "count"})
     EXCEPT !.width = 2, !.resvs = 1],
  [Demand({"reserve", "release", "expire"}, {})
     EXCEPT !.width = 2, !.resvs = 3, !.together = TRUE] }

Nobody == Base
DemandsOrNone == Demands \cup {Nobody}

\* The reports over two products, two warehouses and a location, with two
\* commits while a report is read.
Filter(w, p, active) ==
  [warehouse |-> w, product |-> p, active |-> active, from |-> 0, to |-> 1]
Whole == Filter(all, all, FALSE)
Floor(p, w) == <<p, w, nothing>>
Shelf(p, w) == <<p, w, s1>>
Wish(name, filter, places, begun, n) ==
  [ask |-> [name |-> name, filter |-> filter], places |-> places, begun |-> begun,
   recalculate |-> {}, changes |-> n]
Recalculating(wish, places) == [wish EXCEPT !.recalculate = places]
Three == {Floor(a1, w1), Shelf(a1, w1), Floor(a1, w2)}
Two   == {Floor(a1, w1), Floor(a2, w1)}
Stocks == {Floor(a1, w1)}

Wishes == {
  Wish("stock", Filter(all, all, TRUE), {Floor(a1, w1), Shelf(a1, w1), Floor(a2, w1)}, Stocks, 2),
  Wish("available", Filter(w1, all, FALSE), Three, {Floor(a1, w1), Shelf(a1, w1)}, 2),
  Recalculating(Wish("available", Filter(w1, all, FALSE), Three, Stocks, 2), Three),
  Wish("movements", [Whole EXCEPT !.from = 1], Two, Stocks, 2),
  Wish("warehouse", Filter(w1, all, FALSE), {Floor(a1, w1), Floor(a1, w2)}, Stocks, 2),
  Wish("product", Filter(all, a1, FALSE), {Floor(a1, w1), Floor(a1, w2)}, Stocks, 2),
  Wish("batches", Filter(all, a1, FALSE), Two, Stocks, 2),
  Wish("reservations", Whole, {Floor(a1, w1), Floor(a1, w2)},
       {Floor(a1, w1), Floor(a1, w2)}, 2),
  Wish("low", Whole, {Floor(a1, w1), Floor(a1, w2)}, {}, 2),
  Wish("low", Filter(w1, all, FALSE), Stocks, Stocks, 2),
  Wish("analytics", Whole, Two, Stocks, 2),
  Wish("aging", Filter(w1, all, FALSE), Three, {}, 2),
  Recalculating(Wish("dashboard", Whole, {Floor(a1, w1), Floor(a1, w2)}, Stocks, 2), Stocks),
  Wish("valuation", Whole, {Floor(a1, w1), Shelf(a1, w1)}, Stocks, 2),
  Wish("turnover", Whole, Two, Stocks, 2) }
None == Wish("stock", Whole, {}, {}, 0)

Rep == INSTANCE InventoryReports WITH
  Products <- {a1, a2}, Warehouses <- {w1, w2}, Shelves <- {nothing, s1}, Lots <- {b1},
  Holds <- {h1, h2}, None <- nothing, All <- all, LotOf <- [b \in {b1} |-> a1],
  Reorder <- [a \in {a1, a2} |-> IF a = a1 THEN 2 ELSE 1], Days <- {0, 1},
  Scenarios <- Wishes \cup {None}, scenario <- wanted

ASSUME ReportAssumption == Rep!ReportAssumption

FiguresFollowTheLedger == Rep!FiguresFollowTheLedger
NothingLeftOut == Rep!NothingLeftOut

records == <<balance, ledger, batch, hold, archived, closed, today, now, report, wanted>>
BothInit == Init /\ Rep!Init /\ (wanted = None \/ scenario = Nobody)
BothNext == \/ Next /\ UNCHANGED records
            \/ wanted # None /\ Rep!Next /\ UNCHANGED vars
BothSpec == BothInit /\ [][BothNext]_<<vars, records>>

Symmetry == Permutations(Tasks) \cup Permutations(Docs) \cup Permutations(Reservations)
=============================================================================
