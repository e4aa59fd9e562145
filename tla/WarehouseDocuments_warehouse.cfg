SPECIFICATION BothSpec
CONSTANTS
  t1 = t1 t2 = t2 d1 = d1 d2 = d2 r1 = r1 r2 = r2 r3 = r3 p1 = p1 p2 = p2 x1 = x1
  a1 = a1 a2 = a2 w1 = w1 w2 = w2 s1 = s1 b1 = b1 h1 = h1 h2 = h2
  nothing = nothing all = all
  Tasks = {t1, t2} Docs = {d1, d2} Reservations = {r1, r2, r3} Places = {p1, p2} Batches = {x1}
  Stocked = {2} MaxLine = 2 MaxStock = 3
  Scenarios <- DemandsOrNone
SYMMETRY Symmetry
INVARIANTS MovedAsStatus FiguresFollowTheLedger NothingLeftOut
PROPERTIES ReservationsHold CountSettles
CHECK_DEADLOCK FALSE
