-------------------------- MODULE InventoryReports --------------------------
(***************************************************************************)
(* The inventory reports of ApnaERP: InventoryReportRepository and the     *)
(* services over it, read while movements and reservations go on.          *)
(*                                                                         *)
(* A report is several SELECT statements of one request.  At READ          *)
(* COMMITTED each of them sees what was committed when it started, so two  *)
(* figures of one report may be of two moments.  A statement is one step   *)
(* here, and what it prints is a set of claims: the stock, the reserved    *)
(* quantity or the quantity moved over a set of places is so much.  What a *)
(* movement, a reservation or a recalculation does to the balance is one   *)
(* step (StockEngine and WarehouseDocuments show how it comes about), and  *)
(* of one unit.  Text search, sorting and the cut into pages are left out: *)
(* a page holds every row.                                                 *)
(***************************************************************************)
EXTENDS Integers, Sequences, FiniteSets, FiniteSetsExt, SequencesExt

CONSTANTS
  Products, Warehouses,
  Shelves,       \* storage locations of a warehouse, and None: no location
  Lots,          \* batches
  Holds,         \* reservations
  None, All,
  LotOf,         \* the product of a batch
  Reorder,       \* Product.reorder_level
  Days,          \* days on which something happens
  Scenarios      \* what a run of the model asks for: see Scenario

Cells == Products \X Warehouses \X Shelves
Names  == {"stock", "available", "movements", "warehouse", "product", "batches",
           "reservations", "low", "analytics", "aging", "dashboard", "valuation",
           "turnover"}

ReportAssumption ==
  /\ None \in Shelves /\ None \notin Lots
  /\ LotOf \in [Lots -> Products]
  /\ Reorder \in [Products -> Nat]
  /\ Days \subseteq Nat /\ 0 \in Days
  /\ \A s \in Scenarios :
       /\ s.ask.name \in Names
       /\ s.begun \subseteq s.places /\ s.places \subseteq Cells
       /\ s.changes \in Nat /\ s.recalculate \subseteq s.places

\* A row of stock_balances, stock_ledger and stock_reservations.  at, made and
\* ended are not columns: they number the commits, for the properties.
BalanceRow == [onHand: Int, reserved: Nat]
Entry == [place: Cells, dir: {"IN", "OUT"}, qty: Nat \ {0},
          lot: Lots \cup {None}, day: Days, at: Nat]
Hold == [place: Cells, qty: Nat \ {0}, made: Nat, ended: Nat \cup {None}]

VARIABLES
  scenario,  \* the report asked for (ask), the places in use, those that begin
             \* with stock (begun), those whose balance may be recalculated, and
             \* the bound on what is committed (changes)
  balance,   \* [Cells -> BalanceRow or None]
  ledger,    \* entries, oldest first
  batch,     \* Batch.current_quantity
  hold,      \* [Holds -> Hold or None]
  archived,  \* products whose status is Archived
  closed,    \* warehouses that are not active
  today, now,
  report     \* the request being answered: what was asked, the statement it
             \* has come to, the claims printed, the moments it began and ended

store == <<balance, ledger, batch, hold, archived, closed, today, now>>
vars  == <<scenario, store, report>>

-----------------------------------------------------------------------------
(* What a statement reads. *)

Idle == [ask |-> None, at |-> 0, claims |-> {}, began |-> 0, ended |-> 0]

\* A mistaken Rows: joined with the location of a row, which it may not have.
RowsWithShelf == {pl \in Cells : balance[pl] # None /\ pl[3] # None}

\* The rows of stock_balances; every join of a report with the location of a
\* row is an outer join, a row without one stays.
Rows == {pl \in Cells : balance[pl] # None}

OfProduct(S, p)   == {pl \in S : p \in {All, pl[1]}}
OfWarehouse(S, w) == {pl \in S : w \in {All, pl[2]}}
Within(S, f)      == OfProduct(OfWarehouse(S, f.warehouse), f.product)
Live(S) == {pl \in S : pl[1] \notin archived /\ pl[2] \notin closed}

OnHand(S)   == MapThenSumSet(LAMBDA pl : balance[pl].onHand, S)
Reserved(S) == MapThenSumSet(LAMBDA pl : balance[pl].reserved, S)

\* The claims.  lots narrows a claim about stock to some batches, days one
\* about movements to some days.
Claim(of, S, qty) ==
  [of |-> of, places |-> S, lots |-> Lots \cup {None}, days |-> Days, qty |-> qty]

Stock(S)      == Claim("stock", S, OnHand(S \cap Rows))
Held(S)       == Claim("reserved", S, Reserved(S \cap Rows))
OnShelf(S)    == {Stock(S), Held(S)}
EachOf(S)     == UNION {OnShelf({pl}) : pl \in S}

Flow(of, S, days) ==
  [Claim(of, S, MapThenSumSet(LAMBDA i : ledger[i].qty,
           {i \in DOMAIN ledger : /\ ledger[i].place \in S
                                  /\ ledger[i].dir = of
                                  /\ ledger[i].day \in days}))
     EXCEPT !.days = days]
Flows(S, days) == {Flow("IN", S, days), Flow("OUT", S, days)}
Period(f) == {d \in Days : f.from <= d /\ d <= f.to}

Splits(S) == {OfProduct(S, p) : p \in Products}
Sites(S)  == {OfWarehouse(S, w) : w \in Warehouses}

-----------------------------------------------------------------------------
(* The reports: the claims of each statement, in the order of the code. *)

\* 1 and 8.  The totals, then the rows.
CurrentStock(f) ==
  LET S == IF f.active THEN Live(Within(Cells, f)) ELSE Within(Cells, f)
  IN << OnShelf(S), EachOf(S \cap Rows) >>

AvailableStock(f) == << {}, EachOf(Within(Rows, f)) >>

\* 2.  Inbound and outbound totals, then the entries.
StockMovements(f) ==
  << Flows(Within(Cells, f), Period(f)),
     UNION {Flows({pl}, Period(f)) :
              pl \in {ledger[i].place : i \in DOMAIN ledger} \cap Within(Cells, f)} >>

\* 3.  The quantities of a warehouse, and how many of its rows are low.
WarehouseInventory(f) == << OnShelf(OfWarehouse(Cells, f.warehouse)) >>

\* 4.  The quantities of a product over all warehouses.
ProductInventory(f) == << OnShelf(OfProduct(Cells, f.product)) >>

\* 5.  Batches: what is left of all of them, then of each.
OfLots(L) == [Claim("stock", Cells, MapThenSumSet(LAMBDA b : batch[b], L))
                EXCEPT !.lots = L]
BatchExpiry(f) ==
  LET L == {b \in Lots : f.product \in {All, LotOf[b]}}
  IN << {OfLots(L)}, {OfLots({b}) : b \in L} >>

\* 7.  The quantity of the active reservations, then each of them.
ReservationReport(f) ==
  LET S == {h \in Holds : hold[h] # None /\ hold[h].place \in Within(Cells, f)
                          /\ hold[h].ended = None}
  IN << {Claim("kept", Within(Cells, f), MapThenSumSet(LAMBDA h : hold[h].qty, S))}, {} >>

\* A mistaken LowStock: an inner join with the balances.
LowStockOfRows(f) ==
  LET S(p) == OfProduct(OfWarehouse(Rows, f.warehouse), p)
  IN << {Stock(OfProduct(OfWarehouse(Cells, f.warehouse), p)) :
           p \in {q \in Products : S(q) # {} /\ OnHand(S(q)) < Reorder[q]}} >>

\* 9.  One statement groups the balances by product; a product without a row
\* counts as zero unless a warehouse is named.
LowStock(f) ==
  LET Known == {p \in Products : f.warehouse = All \/ OfProduct(OfWarehouse(Rows, f.warehouse), p) # {}}
  IN << {Stock(OfProduct(OfWarehouse(Cells, f.warehouse), p)) :
           p \in {q \in Known : OnHand(OfProduct(OfWarehouse(Rows, f.warehouse), q)) < Reorder[q]}} >>

\* 10.  Totals, then by category, by warehouse and by day.
MovementAnalytics(f) ==
  LET S == Within(Cells, f)
  IN << Flows(S, Period(f)),
        UNION {Flows(C, Period(f)) : C \in Splits(S)},
        UNION {Flows(W, Period(f)) : W \in Sites(S)},
        UNION {Flows(S, {d}) : d \in Period(f)} >>

\* 11.  The stock of a product in a warehouse, by the age of its last receipt.
InventoryAging(f) ==
  << {Stock(C) : C \in UNION {Splits(W) : W \in Sites(Within(Cells, f))}} >>

\* 12.  Totals, the movements of the period, the active warehouses.
Dashboard(f) ==
  << OnShelf(Cells), Flows(Cells, Period(f)),
     UNION {OnShelf(W) : W \in Sites({pl \in Cells : pl[2] \notin closed})} >>

\* The valuation prices the stock of each row; the turnover counts all issues.
Valuation(f) == << {Stock({pl}) : pl \in OfWarehouse(Rows, f.warehouse)} >>
Turnover(f)  == << {Flow("OUT", C, Days) : C \in Splits(Cells)} >>

Report(name, f) ==
  CASE name = "stock"        -> CurrentStock(f)
    [] name = "available"    -> AvailableStock(f)
    [] name = "movements"    -> StockMovements(f)
    [] name = "warehouse"    -> WarehouseInventory(f)
    [] name = "product"      -> ProductInventory(f)
    [] name = "batches"      -> BatchExpiry(f)
    [] name = "reservations" -> ReservationReport(f)
    [] name = "low"          -> LowStock(f)
    [] name = "analytics"    -> MovementAnalytics(f)
    [] name = "aging"        -> InventoryAging(f)
    [] name = "dashboard"    -> Dashboard(f)
    [] name = "valuation"    -> Valuation(f)
    [] name = "turnover"     -> Turnover(f)

-----------------------------------------------------------------------------
(* A request for a report. *)

Ask ==
  /\ report.at = 0
  /\ report' = [ask |-> scenario.ask, at |-> 1, claims |-> {}, began |-> now, ended |-> now]
  /\ UNCHANGED <<scenario, store>>

Statements == Report(report.ask.name, report.ask.filter)

\* The next statement; after the last one the report is complete.
ReadNext ==
  /\ report.at > 0 /\ report.at \in DOMAIN Statements
  /\ report' = [report EXCEPT !.claims = @ \cup Statements[report.at],
                              !.at = @ + 1, !.ended = now]
  /\ UNCHANGED <<scenario, store>>

Answered == report.at > 0 /\ report.at \notin DOMAIN Statements

Answer ==
  /\ Answered
  /\ report' = Idle
  /\ UNCHANGED <<scenario, store>>

-----------------------------------------------------------------------------
(* What goes on meanwhile. *)

Change == now < scenario.changes /\ now' = now + 1

Row(pl) == IF balance[pl] = None THEN [onHand |-> 0, reserved |-> 0] ELSE balance[pl]

\* The places of the warehouse of a place, and what is reserved of the product
\* there: create_reservation compares it with the row's own figure.
Around(pl) == Within(Cells, [product |-> pl[1], warehouse |-> pl[2]])
ActiveAround(pl) ==
  MapThenSumSet(LAMBDA h : hold[h].qty,
    {h \in Holds : hold[h] # None /\ hold[h].ended = None /\ hold[h].place \in Around(pl)})

\* A movement: the entry, the balance and the quantity of the batch.
Move(pl, dir, b) ==
  LET delta == IF dir = "IN" THEN 1 ELSE -1
  IN /\ Change
     /\ b # None => LotOf[b] = pl[1] /\ batch[b] + delta >= 0
     /\ dir = "OUT" => Row(pl).onHand > 0
     /\ balance' = [balance EXCEPT ![pl] = [Row(pl) EXCEPT !.onHand = @ + delta]]
     /\ ledger' = Append(ledger, [place |-> pl, dir |-> dir, qty |-> 1, lot |-> b,
                                  day |-> today, at |-> now'])
     /\ batch' = [x \in Lots |-> IF x = b THEN batch[x] + delta ELSE batch[x]]
     /\ UNCHANGED <<scenario, hold, archived, closed, today, report>>

Reserve(h, pl) ==
  LET effective == IF Row(pl).reserved > ActiveAround(pl) THEN Row(pl).reserved ELSE ActiveAround(pl)
  IN /\ Change
     /\ hold[h] = None
     /\ Row(pl).onHand > effective
     /\ hold' = [hold EXCEPT ![h] = [place |-> pl, qty |-> 1, made |-> now', ended |-> None]]
     /\ balance' = [balance EXCEPT ![pl].reserved = effective + 1]
     /\ UNCHANGED <<scenario, ledger, batch, archived, closed, today, report>>

Release(h) ==
  /\ Change
  /\ hold[h] # None /\ hold[h].ended = None
  /\ hold' = [hold EXCEPT ![h].ended = now']
  /\ balance' = [balance EXCEPT ![hold[h].place].reserved =
                   IF @ > hold[h].qty THEN @ - hold[h].qty ELSE 0]
  /\ UNCHANGED <<scenario, ledger, batch, archived, closed, today, report>>

\* recalculate_balance_projection: what the ledger adds up to, for a row
\* without a location over the whole warehouse, and nothing reserved.
Recalculate(pl) ==
  LET S == IF pl[3] = None THEN Around(pl) ELSE {pl}
      Total(dir) == Flow(dir, S, Days).qty
  IN /\ Change
     /\ balance' = [balance EXCEPT ![pl] = [onHand |-> Total("IN") - Total("OUT"), reserved |-> 0]]
     /\ UNCHANGED <<scenario, ledger, batch, hold, archived, closed, today, report>>

\* The catalogue: a product is archived, a warehouse closed, with its stock.
Archive(p) ==
  /\ Change /\ p \notin archived
  /\ archived' = archived \cup {p}
  /\ UNCHANGED <<scenario, balance, ledger, batch, hold, closed, today, report>>

Close(w) ==
  /\ Change /\ w \notin closed
  /\ closed' = closed \cup {w}
  /\ UNCHANGED <<scenario, balance, ledger, batch, hold, archived, today, report>>

NextDay ==
  /\ \E d \in Days : d > today /\ today' = d
  /\ UNCHANGED <<scenario, balance, ledger, batch, hold, archived, closed, now, report>>

Init ==
  /\ scenario \in Scenarios
  /\ balance = [pl \in Cells |->
       IF pl \in scenario.begun THEN [onHand |-> 2, reserved |-> 0] ELSE None]
  /\ ledger = [i \in 1..Cardinality(scenario.begun) |->
       [place |-> SetToSeq(scenario.begun)[i], dir |-> "IN", qty |-> 2, lot |-> None,
        day |-> 0, at |-> 0]]
  /\ batch = [b \in Lots |-> 0]
  /\ hold = [h \in Holds |-> None]
  /\ archived = {} /\ closed = {}
  /\ today = 0 /\ now = 0
  /\ report = Idle

Next ==
  \/ Ask
  \/ ReadNext
  \/ Answer
  \/ \E pl \in scenario.places, dir \in {"IN", "OUT"}, b \in Lots \cup {None} :
        Move(pl, dir, b)
  \/ \E h \in Holds, pl \in scenario.places : Reserve(h, pl)
  \/ \E h \in Holds : Release(h)
  \/ \E pl \in scenario.recalculate : Recalculate(pl)
  \/ \E p \in Products : Archive(p)
  \/ \E w \in Warehouses : Close(w)
  \/ NextDay

Spec == Init /\ [][Next]_vars

-----------------------------------------------------------------------------
(* Properties. *)

TypeOK ==
  /\ balance \in [Cells -> BalanceRow \cup {None}]
  /\ ledger \in Seq(Entry)
  /\ batch \in [Lots -> Nat]
  /\ hold \in [Holds -> Hold \cup {None}]
  /\ archived \subseteq Products /\ closed \subseteq Warehouses
  /\ today \in Days /\ now \in 0..scenario.changes
  /\ report.at = 0 \/ report.ask = scenario.ask

\* What the ledger says: quantity moved over the places, batches and days of a
\* claim, after n commits; and what the reservations say.
Booked(c, dir, n) ==
  MapThenSumSet(LAMBDA i : ledger[i].qty,
    {i \in DOMAIN ledger :
       /\ ledger[i].place \in c.places /\ ledger[i].lot \in c.lots
       /\ ledger[i].day \in c.days
       /\ ledger[i].dir = dir /\ ledger[i].at <= n})
Kept(c, n) ==
  MapThenSumSet(LAMBDA h : hold[h].qty,
    {h \in Holds : /\ hold[h] # None /\ hold[h].place \in c.places
                   /\ hold[h].made <= n
                   /\ hold[h].ended = None \/ hold[h].ended > n})

\* The balance has one row for the product in the warehouse.
Alone(pl) == scenario.places \cap Around(pl) \subseteq {pl}

\* A reserved quantity covers the reservations, and is what they hold where
\* the balance has one row for the warehouse; where it has several it may
\* count those of the other rows as well.
Truly(c, n) ==
  CASE c.of = "stock"    -> c.qty = Booked(c, "IN", n) - Booked(c, "OUT", n)
    [] c.of = "kept"     -> c.qty = Kept(c, n)
    [] c.of = "reserved" -> /\ c.qty >= Kept(c, n)
                            /\ (\A pl \in c.places : Alone(pl)) => c.qty = Kept(c, n)
    [] OTHER             -> c.qty = Booked(c, c.of, n)

\* Figures that a recalculation may have set to something else: the reserved
\* quantity, and the stock of a row without a location beside other rows.
Astray(c) ==
  \E pl \in scenario.recalculate \cap c.places :
    \/ c.of = "reserved"
    \/ c.of = "stock" /\ None \in c.lots /\ pl[3] = None /\ ~ Alone(pl)

\* Every figure of a report, be it read from the balances, from the batches or
\* from the ledger itself, is what the ledger and the reservations said at
\* some moment while the report was being read, unless a recalculation has
\* set it astray.
FiguresFollowTheLedger ==
  \A c \in report.claims : Astray(c) \/ \E n \in report.began..report.ended : Truly(c, n)

\* Places a complete report has to speak of: those it asks about with stock
\* at every moment of its run.
Expected(f) ==
  {pl \in Within(Cells, f) :
     /\ f.active => pl \in Live(Cells)
     /\ \A n \in report.began..report.ended : ~Truly(Claim("stock", {pl}, 0), n)}

\* No stock is left out: a report that lists balances has a row for every
\* place with stock, with and without a location; the reorder report lists a
\* product that was below its level all the time.
NothingLeftOut ==
  Answered =>
    /\ report.ask.name \in {"stock", "available", "aging"} =>
         \A pl \in Expected(report.ask.filter) : \E c \in report.claims :
           c.of = "stock" /\ pl \in c.places /\ Cardinality(c.places) <= Cardinality(Shelves)
    /\ report.ask.name = "low" /\ report.ask.filter.warehouse = All =>
         \A p \in Products :
           (\A n \in report.began..report.ended, q \in Reorder[p]..Len(ledger) * 2 :
              ~Truly(Claim("stock", OfProduct(Cells, p), q), n))
           => \E c \in report.claims : c.places = OfProduct(Cells, p)
=============================================================================
