---------------------------- MODULE FinanceSetup ----------------------------
(***************************************************************************)
(* The reference data of finance: companies, account groups and the chart  *)
(* of accounts, fiscal years and their periods, currencies and rates, cost *)
(* centers, dimensions, taxes, journal types, posting rules, bank          *)
(* accounts, asset categories and budgets.                                 *)
(*                                                                         *)
(* "gone" is is_deleted of companies and accounts, and is_closed of        *)
(* periods; "on" is is_system of an account, is_base of a currency, Open   *)
(* of a year, and of a period that it is not locked.  Nothing here is      *)
(* deleted for good.  Left out: the rate Redis keeps of each pair, and     *)
(* approve_budget and generate_schedule, which commit nothing.             *)
(***************************************************************************)
EXTENDS SetupRows

FinanceKinds ==
  {"company", "group", "account", "year", "period", "currency", "rate", "center", "dimension",
   "tax", "tax rate", "journal type", "posting rule", "bank", "asset category", "budget"}

Dated(r) == r.low # Missing /\ r.high # Missing
Naming(kinds, optional) ==
  {r \in Plain(kinds \cup optional) : \A k \in kinds : One(r.uses, k) # {}}

-----------------------------------------------------------------------------
(* The tables.  One account stands for all those a row names. *)

CompanyRows  == Naming({}, {"account"})
GroupRows    == Naming({}, {"group"})
AccountRows  == Naming({}, {"group", "account"})
YearRows     == {r \in Bounded({}) : Dated(r) /\ r.on}
PeriodRows   == {r \in Bounded({"year"}) : Dated(r) /\ r.uses # {}}     \* code: its number
CurrencyRows == Naming({}, {})
RateRows     == {r \in Bounded({}) : r.low # Missing /\ r.high = Missing /\ r.on}  \* code: the pair
CenterRows   == {r \in Naming({}, {"center"}) : r.on}
DimensionRows == {r \in Naming({}, {}) : r.on}
TaxRows      == {r \in Naming({}, {}) : r.on}
TaxRateRows  == {r \in Bounded({"tax", "account"}) : r.low # Missing /\ r.on /\ One(r.uses, "tax") # {}}
JournalTypeRows == {r \in Naming({}, {}) : r.on}
PostingRuleRows == {r \in Naming({"journal type", "account"}, {"tax"}) : r.on}
BankRows     == {r \in Naming({"account"}, {}) : r.on}
AssetCategoryRows == {r \in Naming({"account"}, {}) : r.on}
BudgetRows   == {r \in Naming({"year"}, {"center", "account"}) : r.on}

\* Codes are unique, those of deleted rows included.
SameKey(r, s, kind) ==
  CASE kind = "period" -> r.code = s.code /\ r.uses = s.uses
    [] kind = "rate"   -> r.code = s.code /\ r.low = s.low
    [] OTHER           -> r.code = s.code

Write(t) ==
  /\ At(t, "write") /\ Touched(t) \subseteq FinanceKinds
  /\ LET rows == After(Changes(t))
     IN Commit(t, rows,
               /\ StillThere(Changes(t)) /\ Named(rows)
               /\ \A <<i, j>> \in Pairs(rows) : ~SameKey(rows[i], rows[j], KindOf[i]))

New(t, i, kind)     == Asked(t, "create") /\ KindOf[i] = kind /\ Unused(i)
Edit(t, i, kind)    == Asked(t, "update") /\ KindOf[i] = kind /\ Live(i)
Removal(t, i, kind) == Asked(t, "delete") /\ KindOf[i] = kind /\ Live(i)
LiveCoded(kind, code) == {i \in Coded(kind, code) : ~row[i].gone}

\* A new row, if its code is not taken.
Add(t, i, kind, rows) ==
  New(t, i, kind) /\ \E r \in rows : Coded(kind, r.code) = {} /\ Put(t, i, r)

-----------------------------------------------------------------------------
(* Companies *)

\* Only live companies are looked at.
CreateCompany(t, i) ==
  /\ New(t, i, "company")
  /\ \E r \in CompanyRows : LiveCoded("company", r.code) = {} /\ Put(t, i, r)

UpdateCompany(t, i) ==
  Edit(t, i, "company") /\ \E p \in Puts({"on", "uses"}, {"account"}) : Put(t, i, p)

DeleteCompany(t, i) == Removal(t, i, "company") /\ Retire(t, i)

-----------------------------------------------------------------------------
(* The chart of accounts *)

CreateGroup(t, i) == Add(t, i, "group", GroupRows)

Children(S) == {j \in All("account") : Live(j) /\ row[j].uses \cap S # {}}

\* get_descendant_ids: the live accounts below it, through live ones.
Descendants(i) ==
  LET Below[n \in Nat] ==
        IF n = 0 THEN {} ELSE LET S == Below[n - 1] IN S \cup Children(S \cup {i})
  IN Below[Cardinality(Of("account"))]

\* A mistaken Barred: the account, and those right below it.
BarredChildren(i) == {i} \cup Children({i})

\* The accounts that may not become its parent.
Barred(i) == {i} \cup Descendants(i)

\* The parent may be a deleted account.
CreateAccount(t, i) ==
  /\ New(t, i, "account")
  /\ \E r \in AccountRows : LiveCoded("account", r.code) = {} /\ Put(t, i, r)

\* A system account stays in its group, or loses it.
UpdateAccount(t, i) ==
  /\ Edit(t, i, "account")
  /\ \E p \in Puts({"uses"}, {"group", "account"}) :
       /\ row[i].on => One(p.uses, "group") \subseteq row[i].uses
       /\ One(p.uses, "account") \cap Barred(i) = {}
       /\ Put(t, i, p)

\* Not a system account, nor one with posted lines, of which it may have any;
\* the accounts below it stay where they are.
DeleteAccount(t, i) == Removal(t, i, "account") /\ ~row[i].on /\ Retire(t, i)

-----------------------------------------------------------------------------
(* Fiscal years and periods *)

PeriodsOf(y) == {j \in All("period") : y \in row[j].uses}

\* The months of the calendar year, which is all of Levels, by their numbers.
Numbered == CHOOSE c \in [Levels -> Codes] : \A m, n \in Levels : c[m] = c[n] => m = n
Month(y, m) ==
  [code |-> Numbered[m], low |-> m, high |-> m, on |-> TRUE, gone |-> FALSE, uses |-> {y}]

\* The year is committed, then the months of the calendar year it starts in,
\* whatever its own dates are.
CreateYear(t, i) ==
  /\ New(t, i, "year")
  /\ \E r \in YearRows, p \in [Levels -> {j \in Of("period") : Unused(j)}] :
       /\ \A m, n \in Levels : p[m] = p[n] => m = n
       /\ Ordered(r) /\ Coded("year", r.code) = {}
       /\ LET months == {p[m] : m \in Levels}
          IN Decide(t, <<Just(i, r), [j \in months |-> Month(i, CHOOSE m \in Levels : p[m] = j)]>>)

\* check_overlap: both ends count.
Meets(r, s) == r.low <= s.high /\ s.low <= r.high

\* The year may be closed, and the days outside of it.
CreatePeriod(t, i) ==
  /\ New(t, i, "period")
  /\ \E r \in PeriodRows :
       /\ Ordered(r)
       /\ \A y \in r.uses : \A j \in PeriodsOf(y) : ~Meets(r, row[j])
       /\ Put(t, i, r)

\* A closed period is not unlocked.
LockPeriod(t, i) ==
  /\ Asked(t, "lock") /\ KindOf[i] = "period" /\ There(i)
  /\ \E on \in BOOLEAN : (row[i].gone => ~on) /\ Put(t, i, [on |-> on])

Closed == [on |-> FALSE, gone |-> TRUE]
ClosePeriod(t, i) ==
  Asked(t, "close") /\ KindOf[i] = "period" /\ There(i) /\ Put(t, i, Closed)

CloseYear(t, i) ==
  /\ Asked(t, "close") /\ KindOf[i] = "year" /\ There(i)
  /\ Decide(t, <<[j \in PeriodsOf(i) \cup {i} |-> IF j = i THEN [on |-> FALSE] ELSE Closed]>>)

-----------------------------------------------------------------------------
(* Currencies and rates *)

Bases == {j \in All("currency") : row[j].on}

\* A new base currency takes the place of the one there is.
CreateCurrency(t, i) ==
  /\ New(t, i, "currency")
  /\ \E r \in CurrencyRows :
       /\ Coded("currency", r.code) = {}
       /\ IF r.on /\ Bases # {}
          THEN \E b \in Bases :
                 Decide(t, <<[j \in {i, b} |-> IF j = i THEN r ELSE [on |-> FALSE]]>>)
          ELSE Put(t, i, r)

SetRate(t, i) == New(t, i, "rate") /\ \E r \in RateRows : Put(t, i, r)

-----------------------------------------------------------------------------
(* Rows that are only created *)

CreateCenter(t, i)      == Add(t, i, "center", CenterRows)
CreateDimension(t, i)   == Add(t, i, "dimension", DimensionRows)
CreateTax(t, i)         == Add(t, i, "tax", TaxRows)
CreateTaxRate(t, i)     == Add(t, i, "tax rate", TaxRateRows)   \* its days are not compared
CreateJournalType(t, i) == Add(t, i, "journal type", JournalTypeRows)
CreatePostingRule(t, i) == Add(t, i, "posting rule", PostingRuleRows)

\* The codes of these are left to the constraint.
CreateBank(t, i) == New(t, i, "bank") /\ \E r \in BankRows : Put(t, i, r)
CreateAssetCategory(t, i) ==
  New(t, i, "asset category") /\ \E r \in AssetCategoryRows : Put(t, i, r)
CreateBudget(t, i) == New(t, i, "budget") /\ \E r \in BudgetRows : Put(t, i, r)

-----------------------------------------------------------------------------
Request(t, i) ==
  \/ CreateCompany(t, i) \/ UpdateCompany(t, i) \/ DeleteCompany(t, i)
  \/ CreateGroup(t, i) \/ CreateAccount(t, i) \/ UpdateAccount(t, i) \/ DeleteAccount(t, i)
  \/ CreateYear(t, i) \/ CreatePeriod(t, i) \/ LockPeriod(t, i) \/ ClosePeriod(t, i)
  \/ CloseYear(t, i)
  \/ CreateCurrency(t, i) \/ SetRate(t, i)
  \/ CreateCenter(t, i) \/ CreateDimension(t, i) \/ CreateTax(t, i) \/ CreateTaxRate(t, i)
  \/ CreateJournalType(t, i) \/ CreatePostingRule(t, i) \/ CreateBank(t, i)
  \/ CreateAssetCategory(t, i) \/ CreateBudget(t, i)

Next ==
  \E t \in Tasks :
    \/ \E i \in scenario.ids : Request(t, i)
    \/ Write(t)
    \/ Lose(t)

Spec == RowsInit /\ [][Next]_vars

-----------------------------------------------------------------------------
(* Properties *)

\* No live account is above itself through live accounts, whatever accounts
\* are moved and deleted one after the other (update_account compares the new
\* parent with the live descendants only).
AccountsInTree ==
  OneAtATime => \A i \in All("account") : Live(i) => i \notin Descendants(i)

\* No two periods of one year have a day in common, also when the handler that
\* made the year was lost before its periods came (check_overlap).
PeriodsDisjoint ==
  OneAtATime => \A i, j \in All("period") :
    i # j /\ row[i].uses = row[j].uses => ~(row[i].low <= row[j].high /\ row[j].low <= row[i].high)

\* One currency at most is the base (create_currency).
OneBase == OneAtATime => Cardinality(Bases) <= 1
=============================================================================
