----------------------------- MODULE TradeSetup -----------------------------
(***************************************************************************)
(* What trade and access are set up with: categories, addresses and        *)
(* documents of suppliers and customers, batches, serial numbers and lots  *)
(* of products, and roles with their permissions and users.                *)
(*                                                                         *)
(* "gone" is is_deleted of suppliers and customers, Archived of products;  *)
(* "on" is status Active, and of all other rows the columns that nothing   *)
(* looks at.  The dates and the quantity of a batch are set by             *)
(* create_batch and update_batch to anything, and left out.                *)
(***************************************************************************)
EXTENDS SetupRows

TradeKinds ==
  {"supplier category", "supplier", "address", "supplier document", "file",
   "customer category", "customer", "customer contact", "customer address", "customer document",
   "batch", "serial", "lot", "role", "permission", "grant", "membership"}

Naming(kinds, optional) ==
  {r \in Plain(kinds \cup optional) : \A k \in kinds : One(r.uses, k) # {}}

New(t, i, kind)     == Asked(t, "create") /\ KindOf[i] = kind /\ Unused(i)
Edit(t, i, kind)    == Asked(t, "update") /\ KindOf[i] = kind /\ Live(i)
Removal(t, i, kind) == Asked(t, "delete") /\ KindOf[i] = kind /\ Live(i)

Change(t, i, fields, kinds) == \E p \in Puts(fields, kinds) : Put(t, i, p)

-----------------------------------------------------------------------------
(* The tables *)

CategoryRows == Naming({}, {})
AddressRows  == {r \in Naming({"supplier"}, {}) : r.on}
SupplierDocumentRows == {r \in Naming({"supplier", "file"}, {}) : r.on}
ContactRows  == {r \in Naming({"customer"}, {}) : r.on}
CustomerDocumentRows == {r \in Naming({"customer", "file"}, {}) : r.on}
BatchRows    == Naming({"product"}, {})
SerialRows   == Naming({"product"}, {"warehouse", "location", "batch"})
LotRows      == {r \in Naming({"product"}, {}) : r.on}
RoleRows     == {r \in Naming({}, {}) : r.on}                      \* code: its name
PermissionRows == {r \in Naming({}, {}) : r.on}
GrantRows    == {r \in Naming({"role", "permission"}, {}) : r.on}
MembershipRows == {r \in Naming({"user", "role"}, {}) : r.on}

Coding == {"supplier category", "customer category", "batch", "serial", "lot", "role", "permission"}

SameKey(r, s, kind) ==
  \/ kind \in Coding /\ r.code = s.code
  \/ kind \in {"grant", "membership"} /\ r.uses = s.uses

\* Deleting a category leaves its suppliers without one.
Cascades == {<<"grant", "role">>, <<"membership", "role">>}

Write(t) ==
  /\ At(t, "write") /\ Touched(t) \subseteq TradeKinds
  /\ LET rows  == After(Changes(t))
         swept == Sweep(rows, Cascades, {})
     IN Commit(t, swept,
               /\ StillThere(Changes(t)) /\ Named(swept)
               /\ \A <<i, j>> \in Pairs(swept) : ~SameKey(swept[i], swept[j], KindOf[i])
               /\ \A i \in DOMAIN Changes(t) :
                    rows[i] # Missing => \A j \in rows[i].uses : rows[j] # Missing)

\* A new row, if its code is not taken.
Add(t, i, kind, rows) ==
  New(t, i, kind) /\ \E r \in rows : Coded(kind, r.code) = {} /\ Put(t, i, r)

\* A new row of owners that are there, and live.
Attach(t, i, kind, rows) ==
  New(t, i, kind) /\ \E r \in rows : (\A j \in r.uses : Live(j)) /\ Put(t, i, r)

-----------------------------------------------------------------------------
(* Suppliers *)

CreateSupplierCategory(t, i) == Add(t, i, "supplier category", CategoryRows)
UpdateSupplierCategory(t, i) == Edit(t, i, "supplier category") /\ Change(t, i, {"on"}, {})

\* A mistaken Suppliers: only those that may be ordered from.
SuppliersInUse(i) == {j \in Users(i, {"supplier"}) : ~row[j].gone /\ row[j].on}

\* count_active_suppliers: those not deleted.
Suppliers(i) == {j \in Users(i, {"supplier"}) : ~row[j].gone}

DeleteSupplierCategory(t, i) ==
  Removal(t, i, "supplier category") /\ Suppliers(i) = {} /\ Drop(t, i)

UpdateSupplier(t, i) ==
  Edit(t, i, "supplier") /\ Change(t, i, {"on", "uses"}, {"supplier category"})

\* Documents of purchasing may name it, and then it stays.
DeleteSupplier(t, i) == Removal(t, i, "supplier") /\ Retire(t, i)

AddAddress(t, i) == Attach(t, i, "address", AddressRows)
AddDocument(t, i) == Attach(t, i, "supplier document", SupplierDocumentRows)

\* get_address, get_document: not of a deleted supplier.
OwnerLive(i) == \A j \in One(row[i].uses, "supplier") : Live(j)

UpdateAddress(t, i) == Edit(t, i, "address") /\ OwnerLive(i) /\ Change(t, i, {"on"}, {})
DeleteAddress(t, i) == Removal(t, i, "address") /\ OwnerLive(i) /\ Drop(t, i)

UpdateDocument(t, i) == Edit(t, i, "supplier document") /\ OwnerLive(i) /\ Change(t, i, {"on"}, {})
DeleteDocument(t, i) == Removal(t, i, "supplier document") /\ OwnerLive(i) /\ Drop(t, i)

-----------------------------------------------------------------------------
(* Customers *)

CreateCustomerCategory(t, i) == Add(t, i, "customer category", CategoryRows)

UpdateCustomer(t, i) ==
  Edit(t, i, "customer") /\ Change(t, i, {"on", "uses"}, {"customer category"})

Activate(t, i)   == Edit(t, i, "customer") /\ Put(t, i, [on |-> TRUE])
Deactivate(t, i) == Edit(t, i, "customer") /\ Put(t, i, [on |-> FALSE])
DeleteCustomer(t, i) == Removal(t, i, "customer") /\ Retire(t, i)

AddContact(t, i)         == Attach(t, i, "customer contact", ContactRows)
AddCustomerAddress(t, i) == Attach(t, i, "customer address", ContactRows)
AttachDocument(t, i)     == Attach(t, i, "customer document", CustomerDocumentRows)

-----------------------------------------------------------------------------
(* Batches, serial numbers, lots *)

\* Numbers are looked up within the product; the constraint is on all of them.
CreateBatch(t, i) ==
  /\ New(t, i, "batch")
  /\ \E r \in BatchRows :
       /\ \A j \in Coded("batch", r.code) : row[j].uses # r.uses
       /\ \A j \in r.uses : Live(j)
       /\ Put(t, i, r)

UpdateBatch(t, i) == Edit(t, i, "batch") /\ Change(t, i, {"on"}, {})

CreateSerial(t, i) ==
  /\ New(t, i, "serial")
  /\ \E r \in SerialRows :
       /\ Coded("serial", r.code) = {}
       /\ \A j \in One(r.uses, "product") : Live(j)
       /\ Put(t, i, r)

\* Any status; a place that is named takes the place of the one there was.
UpdateSerialStatus(t, i) ==
  /\ Edit(t, i, "serial")
  /\ \E on \in BOOLEAN, place \in Links({"warehouse", "location"}) :
       LET Replaced == {j \in row[i].uses : \E k \in place : KindOf[k] = KindOf[j]}
       IN Put(t, i, [on |-> on, uses |-> (row[i].uses \ Replaced) \cup place])

\* Of archived products, too.
CreateLot(t, i) == Add(t, i, "lot", LotRows)

-----------------------------------------------------------------------------
(* Roles and permissions *)

\* The name of the role "Super Admin".
SuperAdmin == CHOOSE c \in Codes : TRUE

Granted(role, permission) ==
  [code |-> SuperAdmin, low |-> Missing, high |-> Missing, on |-> TRUE, gone |-> FALSE,
   uses |-> {role, permission}]

\* The role is committed, then each of its permissions.
CreateRole(t, i) ==
  /\ New(t, i, "role")
  /\ \E r \in RoleRows :
       /\ Coded("role", r.code) = {}
       /\ \/ Put(t, i, r)
          \/ \E g \in {j \in Of("grant") : Unused(j)}, p \in All("permission") :
               Decide(t, <<Just(i, r), Just(g, Granted(i, p))>>)

UpdateRole(t, i) ==
  /\ Edit(t, i, "role")
  /\ \E p \in Puts({"code"}, {}) :
       /\ p.code # row[i].code => Coded("role", p.code) = {}
       /\ Put(t, i, p)

\* A level of approval may name it, and then it stays.
DeleteRole(t, i) == Removal(t, i, "role") /\ row[i].code # SuperAdmin /\ Drop(t, i)

CreatePermission(t, i) == Add(t, i, "permission", PermissionRows)

Joined(kind, u) == {j \in All(kind) : row[j].uses = u}

AssignPermission(t, i) ==
  New(t, i, "grant") /\ \E r \in GrantRows : Joined("grant", r.uses) = {} /\ Put(t, i, r)
RemovePermission(t, i) == Removal(t, i, "grant") /\ Drop(t, i)

AssignRole(t, i) ==
  New(t, i, "membership") /\ \E r \in MembershipRows : Joined("membership", r.uses) = {} /\ Put(t, i, r)
RemoveRole(t, i) == Removal(t, i, "membership") /\ Drop(t, i)

-----------------------------------------------------------------------------
Request(t, i) ==
  \/ CreateSupplierCategory(t, i) \/ UpdateSupplierCategory(t, i) \/ DeleteSupplierCategory(t, i)
  \/ UpdateSupplier(t, i) \/ DeleteSupplier(t, i)
  \/ AddAddress(t, i) \/ UpdateAddress(t, i) \/ DeleteAddress(t, i)
  \/ AddDocument(t, i) \/ UpdateDocument(t, i) \/ DeleteDocument(t, i)
  \/ CreateCustomerCategory(t, i) \/ UpdateCustomer(t, i) \/ Activate(t, i) \/ Deactivate(t, i)
  \/ DeleteCustomer(t, i) \/ AddContact(t, i) \/ AddCustomerAddress(t, i) \/ AttachDocument(t, i)
  \/ CreateBatch(t, i) \/ UpdateBatch(t, i) \/ CreateSerial(t, i) \/ UpdateSerialStatus(t, i)
  \/ CreateLot(t, i)
  \/ CreateRole(t, i) \/ UpdateRole(t, i) \/ DeleteRole(t, i) \/ CreatePermission(t, i)
  \/ AssignPermission(t, i) \/ RemovePermission(t, i) \/ AssignRole(t, i) \/ RemoveRole(t, i)

Next ==
  \E t \in Tasks :
    \/ \E i \in scenario.ids : Request(t, i)
    \/ Write(t)
    \/ Lose(t)

Spec == RowsInit /\ [][Next]_vars

=============================================================================
