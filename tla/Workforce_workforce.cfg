SPECIFICATION OneSpec
CONSTANTS
  h1 = h1
  h2 = h2
  day = day
  night = night
  a1 = a1
  a2 = a2
  p1 = p1
  p2 = p2
  p3 = p3
  d1 = d1
  d2 = d2
  d3 = d3
  s1 = s1
  s2 = s2
  e1 = e1
  e2 = e2
  e3 = e3
  c1 = c1
  c2 = c2
  c3 = c3
  l1 = l1
  l2 = l2
  y1 = y1
  y2 = y2
  Tasks <- Handlers
  Shifts <- TwoShifts
  Assignments <- TwoAssignments
  Pays <- ThreePays
  LastDay = 2
  Today = 2
  DayLength = 6
  Clock <- SixOfADay
  DaysOff <- CalendarOff
  Rule <- Rules
  Scenarios <- Demands
  Departments = {d1, d2, d3}
  Positions = {s1, s2}
  Employees = {e1, e2, e3}
  Categories = {c1, c2, c3}
  Locations = {l1, l2}
  Limits = {1, 2}
  Wishes <- WishesOrNone
  Staff = {e1, e2}
  RunTypes = {y1, y2}
  MaxPay = 2
  Orders <- OrdersOrNone
INVARIANTS ShiftsDisjoint OneActivePay NoCircle HeadcountMatches ApprovedAsSeen
PROPERTIES LockedStaysLocked LockedIsFrozen
SYMMETRY Symmetry
CHECK_DEADLOCK FALSE
