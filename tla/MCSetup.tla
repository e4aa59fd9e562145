------------------------------ MODULE MCSetup ------------------------------
(* The rows of the catalogue, of human resources and of finance share one    *)
(* table space: a scenario names the rows it is about.                      *)
EXTENDS Catalogue, TLC

People == INSTANCE PeopleSetup
Finance == INSTANCE FinanceSetup
Trade == INSTANCE TradeSetup

CONSTANTS c1, c2, u1, u2, b1, w1, w2, l1, p1, f1, g1, a1, v1, v2, d1,
          lt1, lt2, ho1, ho2, sh1, sh2, em1, hr1, hr2, pa1, pa2, us1,
          sc1, sc2, st1, pt1, co1, ru1, sl1, sl2, pr1, pr2,
          cy1, cy2, gr1, ac1, ac2, ac3, fy1, pe1, pe2, pe3, cu1, cu2, ra1, ra2, cc1, di1,
          tx1, tr1, jt1, po1, ba1, as1, bu1,
          vc1, su1, ad1, sd1, fi1, kc1, cs1, ck1, cd1, ka1, bt1, bt2, sn1, lo1,
          ro1, ro2, pm1, gt1, mb1

Kind(S, kind) == [i \in S |-> kind]

Kinds ==
  Kind({c1, c2}, "category") @@ Kind({u1, u2}, "unit") @@ Kind({b1}, "brand")
  @@ Kind({w1, w2}, "warehouse") @@ Kind({l1}, "location") @@ Kind({p1}, "product")
  @@ Kind({f1}, "config") @@ Kind({g1}, "policy") @@ Kind({a1}, "attribute")
  @@ Kind({v1, v2}, "value") @@ Kind({d1}, "document")
  @@ Kind({lt1, lt2}, "leave type") @@ Kind({ho1, ho2}, "holiday") @@ Kind({sh1, sh2}, "shift")
  @@ Kind({em1}, "employee") @@ Kind({hr1, hr2}, "hr") @@ Kind({pa1, pa2}, "paper")
  @@ Kind({us1}, "user") @@ Kind({sc1, sc2}, "component") @@ Kind({st1}, "structure")
  @@ Kind({pt1}, "part") @@ Kind({co1}, "country") @@ Kind({ru1}, "rule")
  @@ Kind({sl1, sl2}, "slab") @@ Kind({pr1, pr2}, "profile")
  @@ Kind({cy1, cy2}, "company") @@ Kind({gr1}, "group") @@ Kind({ac1, ac2, ac3}, "account")
  @@ Kind({fy1}, "year") @@ Kind({pe1, pe2, pe3}, "period") @@ Kind({cu1, cu2}, "currency")
  @@ Kind({ra1, ra2}, "rate") @@ Kind({cc1}, "center") @@ Kind({di1}, "dimension")
  @@ Kind({tx1}, "tax") @@ Kind({tr1}, "tax rate") @@ Kind({jt1}, "journal type")
  @@ Kind({po1}, "posting rule") @@ Kind({ba1}, "bank") @@ Kind({as1}, "asset category")
  @@ Kind({bu1}, "budget")
  @@ Kind({vc1}, "supplier category") @@ Kind({su1}, "supplier") @@ Kind({ad1}, "address")
  @@ Kind({sd1}, "supplier document") @@ Kind({fi1}, "file") @@ Kind({kc1}, "customer category")
  @@ Kind({cs1}, "customer") @@ Kind({ck1}, "customer contact") @@ Kind({ka1}, "customer address")
  @@ Kind({cd1}, "customer document") @@ Kind({bt1, bt2}, "batch") @@ Kind({sn1}, "serial")
  @@ Kind({lo1}, "lot") @@ Kind({ro1, ro2}, "role") @@ Kind({pm1}, "permission")
  @@ Kind({gt1}, "grant") @@ Kind({mb1}, "membership")

KindOfIds == Kinds

\* Rows made earlier: active, without bounds.
Made(uses) == [code |-> "x", low |-> Missing, high |-> Missing, on |-> TRUE, gone |-> FALSE, uses |-> uses]
Product == (c1 :> Made({})) @@ (u1 :> Made({})) @@ (p1 :> Made({c1, u1}))
Stores  == (w1 :> Made({})) @@ (w2 :> [Made({}) EXCEPT !.code = "y"])

Wanted(width, ops, ids, fields, codes, rows) ==
  [width |-> width, ops |-> ops, ids |-> ids, fields |-> fields, codes |-> codes,
   rows |-> rows, losses |-> IF width = 1 THEN 1 ELSE 0]

All4 == {"create", "update", "delete", "restore"}

OfCatalogue == {
  Wanted(1, {"create", "update", "delete", "read"}, {c1, c2}, {"code", "on"}, {"x", "y"}, <<>>),
  Wanted(1, {"create", "update", "delete"}, {u1, u2, b1, c1, p1}, {"gone", "uses"}, {"x"}, <<>>),
  Wanted(1, {"create", "update", "delete"}, {c1, u1, p1}, {"low", "high", "gone"}, {"x"}, Product),
  Wanted(1, {"create", "update", "delete", "value", "document"}, {c1, u1, a1, p1, v1, d1}, {"gone"}, {"x"}, Product),
  Wanted(1, {"create", "update", "delete", "policy", "move"}, {w1, w2, l1, g1}, {"on", "uses"}, {"x"}, Stores),
  Wanted(1, {"create", "update"}, {w1, c1, u1, p1, f1}, {"low", "high"}, {"x"}, Product @@ (w1 :> Made({}))),
  Wanted(1, {"create", "delete"}, {w1, w2, l1, c1, u1, p1, f1}, {}, {"x"}, Product @@ Stores),
  Wanted(2, {"create", "value", "policy"}, {c1, u1, a1, p1, v1, v2, w1, g1}, {}, {"x"},
         Product @@ (w1 :> Made({}))) }

OfPeople == {
  Wanted(1, All4, {lt1, lt2}, {"low", "high", "on"}, {"x"}, <<>>),
  Wanted(1, All4, {ho1, ho2}, {"code", "low"}, {"x", "y"}, <<>>),
  Wanted(1, All4, {sh1, sh2, em1}, {"low", "high"}, {"x", "y"}, em1 :> Made({})),
  Wanted(1, All4 \cup {"activate"}, {hr1, hr2}, {"low", "high", "on"}, {"x"}, <<>>),
  Wanted(1, All4 \cup {"review", "read"}, {pa1, us1}, {"low", "high", "on"}, {"x"}, us1 :> Made({})),
  Wanted(1, All4, {pa1, pa2}, {"on"}, {"x", "y"}, <<>>),
  Wanted(1, All4, {sc1, sc2}, {"low", "on"}, {"x"}, <<>>),
  Wanted(1, All4, {st1}, {"low", "high"}, {"x", "y"}, <<>>),
  Wanted(1, All4, {sc1, st1, pt1}, {"low", "on"}, {"x"}, <<>>),
  Wanted(1, {"create", "update"}, {co1, ru1, sl1}, {"low", "high"}, {"x"}, co1 :> Made({})),
  Wanted(1, {"create", "delete"}, {co1, ru1, sl1, sl2}, {"low"}, {"x"}, co1 :> Made({})),
  Wanted(1, {"create", "update", "delete"}, {co1, pr1, pr2}, {"low", "high", "on"}, {"x"}, co1 :> Made({})) }

Account(code, uses) == [Made(uses) EXCEPT !.code = code, !.on = FALSE]

OfFinance == {
  Wanted(1, {"create", "update", "delete"}, {cy1, cy2, ac1}, {"on"}, {"x", "y"}, ac1 :> Made({})),
  Wanted(1, {"create", "update", "delete"}, {gr1, ac1, ac2}, {"uses"}, {"x", "y"}, <<>>),
  Wanted(1, {"update", "delete"}, {ac1, ac2, ac3}, {"uses"}, {"x"},
         (ac1 :> Account("x", {})) @@ (ac2 :> Account("y", {ac1})) @@ (ac3 :> Account("z", {}))),
  Wanted(1, {"create", "lock", "close"}, {fy1, pe1, pe2, pe3}, {"low", "high"}, {"x", "y"}, <<>>),
  Wanted(1, {"create"}, {cu1, cu2, ra1, ra2}, {"low"}, {"x", "y"}, <<>>),
  Wanted(1, {"create"}, {ac1, tx1, tr1, jt1, po1}, {"low", "high"}, {"x"}, ac1 :> Made({})),
  Wanted(1, {"create"}, {ac1, fy1, cc1, di1, ba1, as1, bu1}, {}, {"x"},
         (ac1 :> Made({})) @@ (fy1 :> Made({}))) }

Parties == (su1 :> Made({})) @@ (cs1 :> Made({}))

OfTrade == {
  Wanted(1, {"create", "update", "delete"}, {vc1, su1, ad1, kc1, cs1}, {"on", "uses"}, {"x"}, Parties),
  Wanted(1, {"create", "update", "delete"}, {su1, fi1, cs1, sd1, ck1, cd1, ka1}, {"on"}, {"x"},
         Parties @@ (fi1 :> Made({}))),
  Wanted(1, {"create", "update"}, {c1, u1, p1, w1, l1, bt1, bt2, sn1, lo1}, {"gone"}, {"x"},
         Product @@ (w1 :> Made({})) @@ (l1 :> Made({w1}))),
  Wanted(1, {"create", "update", "delete"}, {us1, ro1, ro2, pm1, gt1, mb1}, {"code"}, {"x", "y"},
         us1 :> Made({})) }

Demands == OfCatalogue \cup OfPeople \cup OfFinance \cup OfTrade

\* Two profiles of one employee.
Profiles == { Wanted(1, {"create"}, {co1, pr1, pr2}, {"low", "high"}, {"x"}, co1 :> Made({})) }

Symmetry == Permutations(Tasks)

ASSUME RowsAssumption == SetupAssumption

SetupNext == Next \/ People!Next \/ Finance!Next \/ Trade!Next

SetupSpec == Init /\ [][SetupNext]_vars

OneActiveProfile == People!OneActiveProfile
AccountsInTree == Finance!AccountsInTree

\* The bounds of every row are in order, periods follow one another, and of the
\* configurations of an organisation and of the currencies one at most is in
\* force.
RowsAgree ==
  /\ RowsOrdered /\ Finance!PeriodsDisjoint
  /\ People!OneActiveConfig /\ Finance!OneBase
=============================================================================
