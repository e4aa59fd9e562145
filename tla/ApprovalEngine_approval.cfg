SPECIFICATION OneSpec
CONSTANTS
  t1 = t1 t2 = t2 r1 = r1 r2 = r2 order = order
  admin = admin buyer = buyer purchasing = purchasing finance = finance nothing = nothing
  Tasks = {t1, t2} Requests = {r1, r2} Entities = {order}
  Users = {buyer, admin} Superusers = {admin} Roles = {purchasing, finance}
  Holds <- OfficeRoles Chains <- Workflows Scenarios <- DemandsOrNobody MaxSigned = 7
  Ids <- RowIds KindOf <- Tables LinksOf <- ForeignKeys None = nothing Wishes <- WishesOrNone
SYMMETRY Symmetry
INVARIANTS EveryStepSigned ReportsAgree DashboardsAreRecent
