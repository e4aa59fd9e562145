---------------------------- MODULE PeopleSetup ----------------------------
(***************************************************************************)
(* The reference data of human resources and payroll: leave types,         *)
(* holidays, shifts, HR configurations, the documents of an employee,      *)
(* salary components and structures, and the statutory rules of countries  *)
(* with their slabs and the profiles of an employee.                       *)
(*                                                                         *)
(* "gone" is is_deleted: only countries, slabs and the parts of structures *)
(* are deleted for good.                                                   *)
(***************************************************************************)
EXTENDS SetupRows

PeopleKinds ==
  {"leave type", "holiday", "shift", "hr", "paper", "component", "structure", "part",
   "country", "rule", "slab", "profile"}

\* An UPDATE that would leave a column empty that may not be is refused.
Given(p) == \A f \in DOMAIN p : p[f] # Missing

Bound(r) == Missing \notin {r.low, r.high}
LiveCoded(kind, code) == {i \in Coded(kind, code) : ~row[i].gone}

\* A change that counts a bound set to null as kept.
Kept(r, p) == Merge(r, [f \in {g \in DOMAIN p : p[g] # Missing} |-> p[f]])

-----------------------------------------------------------------------------
(* The tables *)

LeaveTypeRows == {r \in Bounded({}) : Bound(r)}                 \* on: carry forward allowed
HolidayRows   == {r \in Bounded({}) : r.low # Missing /\ r.high = Missing /\ r.on}   \* low: the day
ShiftRows     == {r \in Bounded({}) : Bound(r) /\ r.on}
HRRows        == {r \in Bounded({}) : Bound(r)}                 \* code: the organisation
PaperRows     == Bounded({})                                    \* code: its type; on: mandatory
ComponentRows == {r \in Bounded({}) : r.high = Missing}         \* on: a percentage, which is low
StructureRows == {r \in Bounded({}) : r.low # Missing /\ r.on}
PartRows      == {r \in Plain({"structure", "component"}) : Cardinality(r.uses) = 2}
CountryRows   == Plain({})
RuleRows      == {r \in Bounded({"country"}) : r.low # Missing /\ r.on /\ r.uses # {}}
SlabRows      == {r \in Bounded({"rule"}) : r.low # Missing /\ r.on /\ r.uses # {}}
ProfileRows   == {r \in Bounded({"country"}) : r.low # Missing /\ r.uses # {}}

\* Codes are unique, those of deleted rows included; parts by what they join.
SameKey(r, s, kind) ==
  CASE kind \in {"hr", "paper", "slab", "profile"} -> FALSE
    [] kind = "part" -> r.uses = s.uses
    [] OTHER -> r.code = s.code

Cascades  == {<<"slab", "rule">>, <<"part", "structure">>, <<"part", "component">>}
Restricts == {<<"rule", "country">>, <<"profile", "country">>}

Write(t) ==
  /\ At(t, "write") /\ Touched(t) \subseteq PeopleKinds
  /\ LET swept == Sweep(After(Changes(t)), Cascades, Restricts)
     IN Commit(t, swept,
               /\ StillThere(Changes(t)) /\ Named(swept)
               /\ \A <<i, j>> \in Pairs(swept) : ~SameKey(swept[i], swept[j], KindOf[i]))

\* Requests for a row of a kind that is live, or deleted.
New(t, i, kind)     == Asked(t, "create") /\ KindOf[i] = kind /\ Unused(i)
Edit(t, i, kind)    == Asked(t, "update") /\ KindOf[i] = kind /\ Live(i)
Removal(t, i, kind) == Asked(t, "delete") /\ KindOf[i] = kind /\ Live(i)
Return(t, i, kind)  == Asked(t, "restore") /\ KindOf[i] = kind /\ There(i) /\ row[i].gone

-----------------------------------------------------------------------------
(* Leave types *)

\* Days carried forward: none unless that is allowed, and not more than a year's.
CarriesForward(r) == IF r.on THEN r.low <= r.high ELSE r.low = 0

CreateLeaveType(t, i) ==
  /\ New(t, i, "leave type")
  /\ \E r \in LeaveTypeRows :
       Coded("leave type", r.code) = {} /\ CarriesForward(r) /\ Put(t, i, r)

UpdateLeaveType(t, i) ==
  /\ Edit(t, i, "leave type")
  /\ \E p \in Puts({"code", "low", "high", "on"}, {}) :
       /\ Given(p)
       /\ Coded("leave type", Merge(row[i], p).code) \subseteq {i}
       /\ CarriesForward(Merge(row[i], p))
       /\ Put(t, i, p)

DeleteLeaveType(t, i)  == Removal(t, i, "leave type") /\ Retire(t, i)
RestoreLeaveType(t, i) == Return(t, i, "leave type") /\ Restore(t, i)

-----------------------------------------------------------------------------
(* Holidays *)

\* Live holidays of that day; country and region are part of the day.
HolidaysOn(day) == {i \in All("holiday") : Live(i) /\ row[i].low = day}

CreateHoliday(t, i) ==
  /\ New(t, i, "holiday")
  /\ \E r \in HolidayRows :
       LiveCoded("holiday", r.code) = {} /\ HolidaysOn(r.low) = {} /\ Put(t, i, r)

UpdateHoliday(t, i) ==
  /\ Edit(t, i, "holiday")
  /\ \E p \in Puts({"code", "low"}, {}) :
       LET r == Merge(row[i], p)
       IN /\ Given(p)
          /\ r.code # row[i].code => LiveCoded("holiday", r.code) = {}
          /\ r.low # row[i].low => HolidaysOn(r.low) \subseteq {i}
          /\ Put(t, i, p)

DeleteHoliday(t, i)  == Removal(t, i, "holiday") /\ Retire(t, i)
RestoreHoliday(t, i) == Return(t, i, "holiday") /\ Restore(t, i)

-----------------------------------------------------------------------------
(* Shifts: the least and the most hours of work *)

CreateShift(t, i) ==
  /\ New(t, i, "shift")
  /\ \E r \in ShiftRows : LiveCoded("shift", r.code) = {} /\ Ordered(r) /\ Put(t, i, r)

UpdateShift(t, i) ==
  /\ Edit(t, i, "shift")
  /\ \E p \in Puts({"code", "low", "high"}, {}) :
       LET r == Merge(row[i], p)
       IN /\ Given(p)
          /\ r.code # row[i].code => LiveCoded("shift", r.code) = {}
          /\ Ordered(r)
          /\ Put(t, i, p)

\* Not while employees have it as their shift.
DeleteShift(t, i) ==
  Removal(t, i, "shift") /\ Users(i, {"employee"}) = {} /\ Retire(t, i)

RestoreShift(t, i) == Return(t, i, "shift") /\ Restore(t, i)

-----------------------------------------------------------------------------
(* HR configurations: the least and the standard hours of a day.  Making one *)
(* active takes two commits: all others of the organisation are made         *)
(* inactive in the first.                                                    *)

\* deactivate_all_active_configurations
Others(code) == [j \in {k \in All("hr") : Live(k) /\ row[k].on /\ row[k].code = code} |-> [on |-> FALSE]]

CreateConfiguration(t, i) ==
  /\ New(t, i, "hr")
  /\ \E r \in HRRows :
       /\ Ordered(r)
       /\ Decide(t, IF r.on THEN <<Others(r.code), Just(i, r)>> ELSE <<Just(i, r)>>)

UpdateConfiguration(t, i) ==
  /\ Edit(t, i, "hr")
  /\ \E p \in Puts({"code", "low", "high", "on"}, {}) :
       LET r == Merge(row[i], p)
       IN /\ Given(p) /\ Ordered(r)
          /\ Decide(t, IF r.on /\ ~row[i].on THEN <<Others(r.code), Just(i, p)>> ELSE <<Just(i, p)>>)

ActivateConfiguration(t, i) ==
  /\ Asked(t, "activate") /\ KindOf[i] = "hr" /\ Live(i) /\ ~row[i].on
  /\ Decide(t, <<Others(row[i].code), Just(i, [on |-> TRUE])>>)

\* The active one may not be deleted.
DeleteConfiguration(t, i)  == Removal(t, i, "hr") /\ ~row[i].on /\ Retire(t, i)
RestoreConfiguration(t, i) == Return(t, i, "hr") /\ Restore(t, i)

-----------------------------------------------------------------------------
(* The documents of an employee: issued and expiring, checked by a user *)

CreatePaper(t, i) ==
  /\ New(t, i, "paper")
  /\ \E r \in PaperRows :
       /\ r.on => {j \in LiveCoded("paper", r.code) : row[j].on} = {}
       /\ Ordered(r)
       /\ Put(t, i, r)

UpdatePaper(t, i) ==
  /\ Edit(t, i, "paper")
  /\ \E p \in Puts({"low", "high", "on"}, {}) :
       Ordered(Merge(row[i], p)) /\ Put(t, i, p)

\* verify_document and reject_document: whatever it was before.
ReviewPaper(t, i) ==
  /\ Asked(t, "review") /\ KindOf[i] = "paper" /\ Live(i)
  /\ \E u \in All("user") : Put(t, i, [uses |-> {u}])

DeletePaper(t, i)  == Removal(t, i, "paper") /\ Retire(t, i)
RestorePaper(t, i) == Return(t, i, "paper") /\ Restore(t, i)

PapersOfEmployee(t) == ReadView(t, "paper")

-----------------------------------------------------------------------------
(* Salary components, structures, and the components of a structure *)

\* A percentage needs a value above 0.
Calculable(r) == r.on => r.low \notin {Missing, 0}

CreateComponent(t, i) ==
  /\ New(t, i, "component")
  /\ \E r \in ComponentRows : Coded("component", r.code) = {} /\ Calculable(r) /\ Put(t, i, r)

\* A value set to null counts as kept, and is stored.
UpdateComponent(t, i) ==
  /\ Edit(t, i, "component")
  /\ \E p \in Puts({"code", "low", "on"}, {}) :
       /\ Coded("component", Merge(row[i], p).code) \subseteq {i}
       /\ Calculable(Kept(row[i], p))
       /\ Put(t, i, p)

DeleteComponent(t, i)  == Removal(t, i, "component") /\ Retire(t, i)
RestoreComponent(t, i) == Return(t, i, "component") /\ Restore(t, i)

CreateStructure(t, i) ==
  /\ New(t, i, "structure")
  /\ \E r \in StructureRows : Coded("structure", r.code) = {} /\ Ordered(r) /\ Put(t, i, r)

\* An end set to null counts as kept, and is stored.
UpdateStructure(t, i) ==
  /\ Edit(t, i, "structure")
  /\ \E p \in Puts({"code", "low", "high", "on"}, {}) :
       LET r == Merge(row[i], p)
       IN /\ r.low # Missing
          /\ Coded("structure", r.code) \subseteq {i}
          /\ Ordered(Kept(row[i], p))
          /\ Put(t, i, p)

DeleteStructure(t, i)  == Removal(t, i, "structure") /\ Retire(t, i)
RestoreStructure(t, i) == Return(t, i, "structure") /\ Restore(t, i)

AddComponent(t, i) ==
  /\ New(t, i, "part")
  /\ \E r \in PartRows :
       /\ \A j \in r.uses : Live(j)
       /\ {j \in All("part") : row[j].uses = r.uses} = {}
       /\ Put(t, i, r)

UpdatePart(t, i) ==
  /\ Edit(t, i, "part")
  /\ \E p \in Puts({"on"}, {}) : Put(t, i, p)

RemoveComponent(t, i) == Removal(t, i, "part") /\ Drop(t, i)

-----------------------------------------------------------------------------
(* Countries, statutory rules, slabs *)

CreateCountry(t, i) ==
  /\ New(t, i, "country")
  /\ \E r \in CountryRows : Coded("country", r.code) = {} /\ Put(t, i, r)

UpdateCountry(t, i) ==
  /\ Edit(t, i, "country")
  /\ \E p \in Puts({"on"}, {}) : Put(t, i, p)

\* The session empties the country of its rules and profiles, which is refused.
DeleteCountry(t, i) ==
  Removal(t, i, "country") /\ Users(i, {"rule", "profile"}) = {} /\ Drop(t, i)

\* Slabs that come with a rule are compared with nothing.
CreateRule(t, i) ==
  /\ New(t, i, "rule")
  /\ \E r \in RuleRows :
       /\ LiveCoded("rule", r.code) = {} /\ Ordered(r)
       /\ \/ Put(t, i, r)
          \/ \E s \in {j \in Of("slab") : Unused(j)} :
             \E q \in {x \in Bounded({}) : x.low # Missing /\ x.on /\ Ordered(x)} :
               Decide(t, <<[j \in {i, s} |-> IF j = i THEN r ELSE [q EXCEPT !.uses = {i}]]>>)

UpdateRule(t, i) ==
  /\ Edit(t, i, "rule")
  /\ \E p \in Puts({"low", "high", "on"}, {}) :
       Given(p) /\ Ordered(Merge(row[i], p)) /\ Put(t, i, p)

DeleteRule(t, i) == Removal(t, i, "rule") /\ Retire(t, i)

\* A slab takes in both of its ends; without an upper one it has no limit.
Covers(s, amount) == s.low <= amount /\ (s.high # Missing => amount <= s.high)
Overlap(r, s) == \E amount \in Levels : Covers(r, amount) /\ Covers(s, amount)

AddSlab(t, i) ==
  /\ New(t, i, "slab")
  /\ \E r \in SlabRows :
       /\ \A rule \in r.uses : Live(rule)
       /\ Ordered(r)
       /\ \A j \in All("slab") : row[j].uses = r.uses => ~Overlap(row[j], r)
       /\ Put(t, i, r)

\* Changed slabs are compared with nothing either.
UpdateSlab(t, i) ==
  /\ Edit(t, i, "slab")
  /\ \E p \in Puts({"low", "high"}, {}) :
       Given(p) /\ Ordered(Merge(row[i], p)) /\ Put(t, i, p)

DeleteSlab(t, i) == Removal(t, i, "slab") /\ Drop(t, i)

-----------------------------------------------------------------------------
(* The statutory profiles of an employee *)

ActiveOn(day) ==
  {i \in All("profile") : row[i].on /\ row[i].low <= day /\ (row[i].high # Missing => day <= row[i].high)}

\* get_active_profile_by_employee: of several the one that started last.
ProfilesOn(day) == {i \in ActiveOn(day) : \A j \in ActiveOn(day) : row[j].low <= row[i].low}

\* The profile active on the day the new one starts ends that day.
AssignProfile(t, i) ==
  /\ New(t, i, "profile")
  /\ \E r \in ProfileRows :
       /\ Ordered(r)
       /\ IF r.on /\ ProfilesOn(r.low) # {}
          THEN \E j \in ProfilesOn(r.low) :
                 Decide(t, <<[k \in {i, j} |-> IF k = i THEN r ELSE [on |-> FALSE, high |-> r.low]]>>)
          ELSE Put(t, i, r)

UpdateProfile(t, i) ==
  /\ Edit(t, i, "profile")
  /\ \E p \in Puts({"low", "high", "on"}, {}) :
       Given(p) /\ Ordered(Merge(row[i], p)) /\ Put(t, i, p)

-----------------------------------------------------------------------------
Request(t, i) ==
  \/ CreateLeaveType(t, i) \/ UpdateLeaveType(t, i) \/ DeleteLeaveType(t, i)
  \/ RestoreLeaveType(t, i)
  \/ CreateHoliday(t, i) \/ UpdateHoliday(t, i) \/ DeleteHoliday(t, i) \/ RestoreHoliday(t, i)
  \/ CreateShift(t, i) \/ UpdateShift(t, i) \/ DeleteShift(t, i) \/ RestoreShift(t, i)
  \/ CreateConfiguration(t, i) \/ UpdateConfiguration(t, i) \/ ActivateConfiguration(t, i)
  \/ DeleteConfiguration(t, i) \/ RestoreConfiguration(t, i)
  \/ CreatePaper(t, i) \/ UpdatePaper(t, i) \/ ReviewPaper(t, i) \/ DeletePaper(t, i)
  \/ RestorePaper(t, i)
  \/ CreateComponent(t, i) \/ UpdateComponent(t, i) \/ DeleteComponent(t, i)
  \/ RestoreComponent(t, i)
  \/ CreateStructure(t, i) \/ UpdateStructure(t, i) \/ DeleteStructure(t, i)
  \/ RestoreStructure(t, i)
  \/ AddComponent(t, i) \/ UpdatePart(t, i) \/ RemoveComponent(t, i)
  \/ CreateCountry(t, i) \/ UpdateCountry(t, i) \/ DeleteCountry(t, i)
  \/ CreateRule(t, i) \/ UpdateRule(t, i) \/ DeleteRule(t, i)
  \/ AddSlab(t, i) \/ UpdateSlab(t, i) \/ DeleteSlab(t, i)
  \/ AssignProfile(t, i) \/ UpdateProfile(t, i)

Next ==
  \/ \E t \in Tasks :
       \/ \E i \in scenario.ids : Request(t, i)
       \/ PapersOfEmployee(t)
       \/ Write(t)
       \/ Handling(t)
  \/ Expire("paper")

Spec == RowsInit /\ [][Next]_vars

-----------------------------------------------------------------------------
(* Properties *)

\* At most one configuration of an organisation is active, however they are
\* created, activated, changed, deleted and restored and wherever a handler is
\* lost, as long as none is handed to another organisation.
OneActiveConfig ==
  OneAtATime /\ "code" \notin scenario.fields =>
    \A i, j \in All("hr") :
      Live(i) /\ Live(j) /\ row[i].on /\ row[j].on /\ row[i].code = row[j].code => i = j

\* ADR-0021: an employee has one active statutory profile at any given time.
OneActiveProfile ==
  \A day \in Levels : Cardinality(ActiveOn(day)) <= 1
=============================================================================
