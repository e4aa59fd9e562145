SPECIFICATION OneSpec
CONSTANTS
  t1 = t1 t2 = t2 i1 = i1 i2 = i2 v1 = v1 v2 = v2
  s1 = s1 s2 = s2 c1 = c1 c2 = c2 c3 = c3 r1 = r1 r2 = r2 q1 = q1 q2 = q2 o1 = o1 o2 = o2
  Tasks = {t1, t2} Items = {i1, i2} Returns = {v1, v2}
  Quantities = {2} MaxLine = 2 MaxBooked = 3
  Scenarios <- DemandsOrNone
  Suppliers = {s1, s2} Contacts = {c1, c2, c3} Rfqs = {r1, r2} Quotes = {q1, q2}
  Orders = {o1, o2} Wishes <- WishesOrNone
SYMMETRY Symmetry
INVARIANTS CountersMatchStock NothingDropped SourcedOnce OnePrimaryContact
CHECK_DEADLOCK FALSE
