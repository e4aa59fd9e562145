SPECIFICATION OneSpec
CONSTANTS
  t1 = t1 t2 = t2 j1 = j1 j2 = j2 j3 = j3 cash = cash sales = sales may = may
  d1 = d1 d2 = d2 d3 = d3 i1 = i1 i2 = i2 x1 = x1 x2 = x2 l1 = l1 l2 = l2
  Tasks = {t1, t2} Journals = {j1, j2, j3} Accounts = {cash, sales} Periods = {may}
  FirstKind <- CashAndSales Bodies <- AnyBody Threshold = 2 MaxBatches = 2
  Scenarios <- DemandsOrNothing
  Docs = {d1, d2, d3} Items = {i1, i2} Txns = {x1, x2} Lines = {l1, l2} MaxAmount = 2
  Wishes <- WishesOrNone
SYMMETRY Symmetry
INVARIANTS BooksAgree ReversedOnce DocumentsPostOnce BankAgrees
PROPERTIES PostedIsFinal
CHECK_DEADLOCK FALSE
