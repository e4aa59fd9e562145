SPECIFICATION Spec
CONSTANTS
  t1 = t1 t2 = t2 t3 = t3 p1 = p1 p2 = p2 p3 = p3
  a = a b = b c = c w = w x = x lot = lot sn = sn i1 = i1
  None = None Absent = Absent Issued = Issued
  Tasks = {t1, t2, t3} Procs = {p1, p2, p3}
  Keys = {a, b, c} Located = {b} Seeded = {a} AllowNeg = {}
  Batches = {lot} Serials = {sn} Sites = {w, x} IdemKeys = {i1}
  ProcOf <- OneProcess SiteOf <- ThreeSites Rank <- ThreeRanks
  InitQty <- OnlyA InitTrack <- Tracking
  Requests <- TrackedRequests MaxCrashes = 1
INVARIANTS OneRowPerKey TrackingMatchesLedger
