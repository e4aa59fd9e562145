SPECIFICATION FairSpec
CONSTANTS
  t1 = t1 t2 = t2 t3 = t3 p1 = p1 p2 = p2 p3 = p3
  a = a b = b c = c w = w x = x lot = lot sn = sn i1 = i1
  None = None Absent = Absent Issued = Issued
  Tasks = {t1, t2, t3} Procs = {p1, p2, p3}
  Keys = {a, b} Located = {a} Seeded = {a, b} AllowNeg = {}
  Batches = {} Serials = {} Sites = {w, x} IdemKeys = {i1}
  ProcOf <- OneEach SiteOf <- TwoSites Rank <- TwoRanks
  InitQty <- TwoUnits InitTrack <- NoTracking
  Requests <- MixedRequests MaxCrashes = 1
INVARIANTS LedgerMatchesBalance StockNeverOversold
PROPERTIES ImplementsStockAccount EveryRequestAnswered
