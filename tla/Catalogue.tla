------------------------------ MODULE Catalogue ------------------------------
(***************************************************************************)
(* The catalogue of the inventory: categories, units, brands, warehouses,  *)
(* storage locations, products and their warehouse configurations,         *)
(* attributes and documents, and inventory policies.                       *)
(*                                                                         *)
(* "on" is is_active, "gone" of a product its status Archived; the bounds  *)
(* of a product and of a configuration are its minimum and maximum stock.  *)
(* The parents of categories and locations are the subject of MasterData.  *)
(***************************************************************************)
EXTENDS SetupRows

CatalogueKinds ==
  {"category", "unit", "brand", "warehouse", "location", "product", "config", "policy",
   "attribute", "value", "document"}

Active(i) == There(i) /\ row[i].on

-----------------------------------------------------------------------------
(* The tables: what a new row says, what is unique, and what becomes of rows *)
(* whose row is gone.                                                        *)

CategoryRows  == {r \in Plain({}) : r.on}
UnitRows      == Plain({})       \* the code stands for name and symbol as well
BrandRows     == {r \in Plain({}) : r.on}
AttributeRows == {r \in Plain({}) : r.on}
WarehouseRows == Plain({})
LocationRows  == {r \in Plain({"warehouse"}) : r.on /\ r.uses # {}}
PolicyRows    == Plain({"warehouse"})
ProductRows   ==
  {r \in Bounded({"category", "unit", "brand", "warehouse"}) :
     r.on /\ One(r.uses, "category") # {} /\ One(r.uses, "unit") # {}}
ConfigRows    ==
  {r \in Bounded({"product", "warehouse", "location"}) :
     r.on /\ One(r.uses, "product") # {} /\ One(r.uses, "warehouse") # {}}
ValueRows     == {r \in Plain({"product", "attribute"}) : r.on /\ Cardinality(r.uses) = 2}
DocumentRows  == {r \in Plain({"product"}) : r.on /\ r.uses # {}}

\* Rows the unique constraints keep apart.  The policy of all warehouses has
\* no warehouse, and NULLs are distinct.
SameKey(r, s, kind) ==
  CASE kind = "document" -> FALSE
    [] kind = "policy"   -> r.uses = s.uses /\ r.uses # {}
    [] kind = "value"    -> r.uses = s.uses
    [] kind = "config"   -> \A k \in {"product", "warehouse"} : One(r.uses, k) = One(s.uses, k)
    [] kind = "location" -> r.code = s.code /\ One(r.uses, "warehouse") = One(s.uses, "warehouse")
    [] OTHER             -> r.code = s.code

Cascades == {<<"location", "warehouse">>, <<"config", "product">>, <<"config", "warehouse">>,
             <<"policy", "warehouse">>, <<"value", "product">>, <<"value", "attribute">>,
             <<"document", "product">>}
Restricts == {<<"product", "category">>, <<"product", "unit">>}

\* The commit: what it names must be there before rows are swept.
Write(t) ==
  /\ At(t, "write") /\ Touched(t) \subseteq CatalogueKinds
  /\ LET rows  == After(Changes(t))
         swept == Sweep(rows, Cascades, Restricts)
     IN Commit(t, swept,
               /\ StillThere(Changes(t)) /\ Named(swept)
               /\ \A <<i, j>> \in Pairs(swept) : ~SameKey(swept[i], swept[j], KindOf[i])
               /\ \A i \in DOMAIN Changes(t) :
                    rows[i] # Missing => \A j \in rows[i].uses : rows[j] # Missing)

-----------------------------------------------------------------------------
(* Categories *)

CreateCategory(t, i) ==
  /\ Asked(t, "create") /\ KindOf[i] = "category" /\ Unused(i)
  /\ \E r \in CategoryRows : Coded("category", r.code) = {} /\ Put(t, i, r)

UpdateCategory(t, i) ==
  /\ Asked(t, "update") /\ KindOf[i] = "category" /\ There(i)
  /\ \E p \in Puts({"code", "on"}, {}) :
       /\ Coded("category", Merge(row[i], p).code) \subseteq {i}
       /\ Put(t, i, p)

\* One that products name is only made inactive.
DeleteCategory(t, i) ==
  /\ Asked(t, "delete") /\ KindOf[i] = "category" /\ There(i)
  /\ IF Users(i, {"product"}) # {} THEN Put(t, i, [on |-> FALSE]) ELSE Drop(t, i)

\* The tree as cached, or made of the rows and cached.
CategoryTree(t) == ReadView(t, "category")

-----------------------------------------------------------------------------
(* Units, brands, attributes, warehouses: a code, and a flag *)

\* delete_unit fails for every unit: it uses a name that is not imported.
CreateUnit(t, i) ==
  /\ Asked(t, "create") /\ KindOf[i] = "unit" /\ Unused(i)
  /\ \E r \in UnitRows : Coded("unit", r.code) = {} /\ Put(t, i, r)

UpdateUnit(t, i) ==
  /\ Asked(t, "update") /\ KindOf[i] = "unit" /\ There(i)
  /\ \E p \in Puts({"code", "on"}, {}) :
       Coded("unit", Merge(row[i], p).code) \subseteq {i} /\ Put(t, i, p)

CreateBrand(t, i) ==
  /\ Asked(t, "create") /\ KindOf[i] = "brand" /\ Unused(i)
  /\ \E r \in BrandRows : Coded("brand", r.code) = {} /\ Put(t, i, r)

UpdateBrand(t, i) ==
  /\ Asked(t, "update") /\ KindOf[i] = "brand" /\ There(i)
  /\ \E p \in Puts({"code", "on"}, {}) :
       Coded("brand", Merge(row[i], p).code) \subseteq {i} /\ Put(t, i, p)

DeleteBrand(t, i) ==
  Asked(t, "delete") /\ KindOf[i] = "brand" /\ There(i) /\ Drop(t, i)

CreateAttribute(t, i) ==
  /\ Asked(t, "create") /\ KindOf[i] = "attribute" /\ Unused(i)
  /\ \E r \in AttributeRows : Coded("attribute", r.code) = {} /\ Put(t, i, r)

UpdateAttribute(t, i) ==
  /\ Asked(t, "update") /\ KindOf[i] = "attribute" /\ There(i)
  /\ \E p \in Puts({"code"}, {}) :
       Coded("attribute", Merge(row[i], p).code) \subseteq {i} /\ Put(t, i, p)

DeleteAttribute(t, i) ==
  Asked(t, "delete") /\ KindOf[i] = "attribute" /\ There(i) /\ Drop(t, i)

CreateWarehouse(t, i) ==
  /\ Asked(t, "create") /\ KindOf[i] = "warehouse" /\ Unused(i)
  /\ \E r \in WarehouseRows : Coded("warehouse", r.code) = {} /\ Put(t, i, r)

UpdateWarehouse(t, i) ==
  /\ Asked(t, "update") /\ KindOf[i] = "warehouse" /\ There(i)
  /\ \E p \in Puts({"code", "on"}, {}) :
       Coded("warehouse", Merge(row[i], p).code) \subseteq {i} /\ Put(t, i, p)

\* One with locations or configurations is only made inactive.
DeleteWarehouse(t, i) ==
  /\ Asked(t, "delete") /\ KindOf[i] = "warehouse" /\ There(i)
  /\ IF Users(i, {"location", "config"}) # {} THEN Put(t, i, [on |-> FALSE]) ELSE Drop(t, i)

-----------------------------------------------------------------------------
(* Storage locations, configurations, policies *)

Clashing(r, kind) == {j \in All(kind) : SameKey(row[j], r, kind)}

CreateLocation(t, i) ==
  /\ Asked(t, "create") /\ KindOf[i] = "location" /\ Unused(i)
  /\ \E r \in LocationRows :
       /\ \A w \in r.uses : Active(w)
       /\ Clashing(r, "location") = {}
       /\ Put(t, i, r)

\* A location may move to another warehouse that is active.
UpdateLocation(t, i) ==
  /\ Asked(t, "move") /\ KindOf[i] = "location" /\ There(i)
  /\ \E p \in Puts({"code", "on", "uses"}, {"warehouse"}) :
       LET r == Merge(row[i], p)
       IN /\ Cardinality(r.uses) = 1 /\ One(r.uses, "warehouse") = r.uses
          /\ r.uses # row[i].uses => \A w \in r.uses : Active(w)
          /\ r.code # row[i].code => Clashing(r, "location") \subseteq {i}
          /\ Put(t, i, p)

DeleteLocation(t, i) ==
  Asked(t, "delete") /\ KindOf[i] = "location" /\ There(i) /\ Drop(t, i)

\* The preferred location is one of the warehouse.
Preferred(r) ==
  \A l \in One(r.uses, "location") :
    There(l) /\ One(row[l].uses, "warehouse") = One(r.uses, "warehouse")

\* A mistaken Within: only what the request names is compared.
WithinRequest(r, p) == Ordered(Merge([r EXCEPT !.low = Missing, !.high = Missing], p))

\* The bounds a partial change leaves; a bound set to null counts as kept.
Within(r, p) ==
  LET Kept(f) == IF f \in DOMAIN p /\ p[f] # Missing THEN p[f] ELSE r[f]
  IN Ordered([low |-> Kept("low"), high |-> Kept("high")])

CreateProductWarehouse(t, i) ==
  /\ Asked(t, "create") /\ KindOf[i] = "config" /\ Unused(i)
  /\ \E r \in ConfigRows :
       /\ \A w \in One(r.uses, "warehouse") : Active(w)
       /\ Clashing(r, "config") = {} /\ Preferred(r) /\ Ordered(r)
       /\ Put(t, i, r)

UpdateProductWarehouse(t, i) ==
  /\ Asked(t, "update") /\ KindOf[i] = "config" /\ There(i)
  /\ \E p \in Puts({"low", "high", "on", "uses"}, {"product", "warehouse", "location"}) :
       /\ \A k \in {"product", "warehouse"} :
            One(Merge(row[i], p).uses, k) = One(row[i].uses, k)
       /\ "uses" \in DOMAIN p => Preferred(Merge(row[i], p))
       /\ Within(row[i], p)
       /\ Put(t, i, p)

DeleteProductWarehouse(t, i) ==
  Asked(t, "delete") /\ KindOf[i] = "config" /\ There(i) /\ Drop(t, i)

\* The policy of a warehouse, or the one of all of them, is changed if there
\* is one and created if not.
SetPolicy(t, i) ==
  /\ Asked(t, "policy") /\ KindOf[i] = "policy"
  /\ \E r \in PolicyRows :
       LET same == {j \in All("policy") : row[j].uses = r.uses}
       IN IF same = {} THEN Unused(i) /\ Put(t, i, r)
          ELSE i \in same /\ Put(t, i, [code |-> r.code, on |-> r.on])

-----------------------------------------------------------------------------
(* Products, with what belongs to them *)

CreateProduct(t, i) ==
  /\ Asked(t, "create") /\ KindOf[i] = "product" /\ Unused(i)
  /\ \E r \in ProductRows :
       /\ Coded("product", r.code) = {}
       /\ \A j \in r.uses : KindOf[j] # "brand" => Active(j)
       /\ Ordered(r)
       /\ Put(t, i, r)

\* An archived product is read-only, unless the request makes it active.
Changeable(r, p) == r.gone => "gone" \in DOMAIN p /\ ~p.gone

UpdateProduct(t, i) ==
  /\ Asked(t, "update") /\ KindOf[i] = "product" /\ There(i)
  /\ \E p \in Puts({"code", "low", "high", "on", "gone", "uses"},
                   {"category", "unit", "brand", "warehouse"}) :
       LET r == Merge(row[i], p)
       IN /\ Changeable(row[i], p)
          /\ Coded("product", r.code) \subseteq {i}
          /\ \A k \in {"category", "unit"} : Cardinality(One(r.uses, k)) = 1
          /\ \A j \in r.uses \ row[i].uses : KindOf[j] \in {"category", "unit"} => Active(j)
          /\ Within(row[i], p)
          /\ Put(t, i, p)

\* One with configurations is archived; orders have the same effect, so either
\* may happen to one without.
DeleteProduct(t, i) ==
  /\ Asked(t, "delete") /\ KindOf[i] = "product" /\ There(i)
  /\ \/ Put(t, i, [on |-> FALSE, gone |-> TRUE])
     \/ Users(i, {"config"}) = {} /\ Drop(t, i)

Open(p) == There(p) /\ ~row[p].gone

\* create_or_update: the value of a product for an attribute.
SetValue(t, i) ==
  /\ Asked(t, "value") /\ KindOf[i] = "value"
  /\ \E r \in ValueRows :
       /\ \A p \in One(r.uses, "product") : Open(p)
       /\ IF Clashing(r, "value") = {} THEN Unused(i) /\ Put(t, i, r)
          ELSE i \in Clashing(r, "value") /\ Put(t, i, [code |-> r.code])

DeleteValue(t, i) ==
  /\ Asked(t, "value") /\ KindOf[i] = "value" /\ There(i)
  /\ \A p \in One(row[i].uses, "product") : Open(p)
  /\ Drop(t, i)

AddDocument(t, i) ==
  /\ Asked(t, "document") /\ KindOf[i] = "document" /\ Unused(i)
  /\ \E r \in DocumentRows :
       (\A p \in r.uses : Open(p)) /\ Put(t, i, r)

DeleteDocument(t, i) ==
  /\ Asked(t, "document") /\ KindOf[i] = "document" /\ There(i)
  /\ \A p \in row[i].uses : Open(p)
  /\ Drop(t, i)

-----------------------------------------------------------------------------
Init == RowsInit

Request(t, i) ==
  \/ CreateCategory(t, i) \/ UpdateCategory(t, i) \/ DeleteCategory(t, i)
  \/ CreateUnit(t, i) \/ UpdateUnit(t, i)
  \/ CreateBrand(t, i) \/ UpdateBrand(t, i) \/ DeleteBrand(t, i)
  \/ CreateAttribute(t, i) \/ UpdateAttribute(t, i) \/ DeleteAttribute(t, i)
  \/ CreateWarehouse(t, i) \/ UpdateWarehouse(t, i) \/ DeleteWarehouse(t, i)
  \/ CreateLocation(t, i) \/ UpdateLocation(t, i) \/ DeleteLocation(t, i)
  \/ CreateProductWarehouse(t, i) \/ UpdateProductWarehouse(t, i)
  \/ DeleteProductWarehouse(t, i)
  \/ SetPolicy(t, i)
  \/ CreateProduct(t, i) \/ UpdateProduct(t, i) \/ DeleteProduct(t, i)
  \/ SetValue(t, i) \/ DeleteValue(t, i)
  \/ AddDocument(t, i) \/ DeleteDocument(t, i)

Next ==
  \/ \E t \in Tasks :
       \/ \E i \in scenario.ids : Request(t, i)
       \/ CategoryTree(t)
       \/ Write(t)
       \/ Handling(t)
  \/ Expire("category")

Spec == Init /\ [][Next]_vars

-----------------------------------------------------------------------------
(* Properties *)

TypeOK == RowsTypeOK

=============================================================================
