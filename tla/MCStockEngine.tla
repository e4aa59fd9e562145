--------------------------- MODULE MCStockEngine ---------------------------
(* Small instances of StockEngine for TLC. *)
EXTENDS StockEngine, TLC

CONSTANTS t1, t2, t3, p1, p2, p3, a, b, c, w, x, lot, sn, i1

Plain(k, d, q) ==
  [key |-> k, dir |-> d, qty |-> q, idem |-> None, batch |-> None, serials |-> {}]
Move(l) == [kind |-> "movement", lines |-> <<l>>]
Doc(ls) == [kind |-> "document", lines |-> ls]
Transfer(k, l, q) ==
  [kind |-> "transfer", lines |-> <<Plain(k, "OUT", q), Plain(l, "IN", q)>>]

\* Keys a and b are two warehouses of one product.
TwoSites == (a :> w) @@ (b :> x)
TwoRanks == (a :> 1) @@ (b :> 2)
ThreeSites == TwoSites @@ (c :> x)
ThreeRanks == TwoRanks @@ (c :> 3)
TwoUnits == (a :> 2) @@ (b :> 1)
OnlyA    == (a :> 2) @@ (b :> 0) @@ (c :> 0)
Tracking == (lot :> 1) @@ (sn :> w)
NoTracking == <<>>

OneProcess   == (t1 :> p1) @@ (t2 :> p1) @@ (t3 :> p1)
OneEach      == (t1 :> p1) @@ (t2 :> p2) @@ (t3 :> p3)

\* Every process serves one request: issues that compete for the stock of a,
\* transfers both ways, a document of two lines and a retried movement.
MixedRequests == {
  Move([Plain(a, "OUT", 1) EXCEPT !.idem = i1]),
  Move(Plain(a, "IN", 1)),
  Doc(<<Plain(b, "OUT", 1), Plain(a, "OUT", 2)>>),
  Transfer(a, b, 1), Transfer(b, a, 2) }

\* Movements of a batch and of a serial number, some of them by first use of
\* key c, which has no location; movements and documents that create the row
\* of the located key b, with a key reused for a movement of a.
OfBatch(k, d, q) == Move([Plain(k, d, q) EXCEPT !.batch = lot])
OfSerial(k, d) == Move([Plain(k, d, 1) EXCEPT !.serials = {sn}])
TrackedRequests == {
  OfBatch(a, "OUT", 1), OfBatch(c, "IN", 2), OfBatch(c, "OUT", 2),
  OfSerial(a, "OUT"), OfSerial(c, "IN"), OfSerial(c, "OUT"),
  Move([Plain(b, "IN", 1) EXCEPT !.idem = i1]),
  Move([Plain(a, "IN", 1) EXCEPT !.idem = i1]),
  Doc(<<Plain(b, "IN", 1)>>) }

\* One transfer between a and b, and a movement of a.
TransferAndMove == { Transfer(a, b, 1), Move(Plain(a, "OUT", 1)) }
=============================================================================
