SPECIFICATION Spec
CONSTANTS
  t1 = t1 t2 = t2 r1 = r1 r2 = r2
  week = week day = day half = half annual = annual sick = sick
  Tasks = {t1, t2} Requests = {r1, r2} Kinds = {annual, sick} Spans = {week, day, half}
  Days <- HalfDays Clash <- SharedDates
  Columns = {"allocated"} AllowNegative = {} Granted = {3} Taken = {0, 1} Opened = {annual}
  AdjustColumns = {"allocated", "encashed"} Deltas <- LessAndMore Levels = {0} MaxDays = 3
  Scenarios <- Demands
SYMMETRY Symmetry
INVARIANTS RemainingCovers DeductedOnce NoDoubleBooking
