SPECIFICATION OneSpec
CONSTANTS
  t1 = t1 t2 = t2 q1 = q1 q2 = q2 o1 = o1 o2 = o2 d1 = d1 d2 = d2 d3 = d3
  l1 = l1 l2 = l2 c1 = c1 c2 = c2 p1 = p1 p2 = p2 k1 = k1
  Tasks = {t1, t2} Quotes = {q1, q2} Orders = {o1, o2} Docs = {d1, d2, d3}
  Stocked = {3} MaxLine = 2
  Scenarios <- DemandsOrNone
  Leads = {l1, l2} Customers = {c1, c2} Opportunities = {p1, p2} Contacts = {k1}
  Wishes <- WishesOrNone
SYMMETRY Symmetry
INVARIANTS DeliveredIsCounted GoodsMovedOnce NothingConvertedTwice
CHECK_DEADLOCK FALSE
