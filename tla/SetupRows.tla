------------------------------ MODULE SetupRows ------------------------------
(***************************************************************************)
(* The rows of the reference data of ApnaERP and the requests that change  *)
(* them, as the services for it have them in common: a request reads the   *)
(* committed rows and checks them, then commits what it found right; the   *)
(* constraints of the tables are checked again at the commit.  Catalogue,  *)
(* PeopleSetup, FinanceSetup and TradeSetup say what is checked.           *)
(*                                                                         *)
(* A row keeps what the checks look at: its code, a lower and an upper     *)
(* bound (stock levels, hours, dates, amounts), a flag (active, mandatory, *)
(* allowed), whether it was deleted softly or archived, and the rows its   *)
(* foreign keys name.                                                      *)
(***************************************************************************)
EXTENDS Naturals, FiniteSets, Sequences

CONSTANTS
  Tasks,      \* handlers
  Ids,        \* primary keys; KindOf says of which table
  KindOf,
  Codes,
  Levels,     \* values of the bounds
  Missing,
  Scenarios   \* what a run asks for: see Scenario

Fields == {"code", "low", "high", "on", "gone", "uses"}

Row == [code: Codes, low: Levels \cup {Missing}, high: Levels \cup {Missing},
        on: BOOLEAN, gone: BOOLEAN, uses: SUBSET Ids]

\* Handlers at once; operations asked for; ids that may be used; fields that
\* requests for a change may name; codes they may give; rows made earlier;
\* handlers that may be lost.
Scenario == [width: {1, 2}, ops: SUBSET STRING, ids: SUBSET Ids, fields: SUBSET Fields,
             codes: SUBSET Codes, rows: UNION {[I -> Row] : I \in SUBSET Ids}, losses: Nat]

SetupAssumption ==
  /\ Missing \notin Ids /\ Missing \notin Codes /\ Missing \notin Levels
  /\ Levels \subseteq Nat /\ 0 \in Levels
  /\ KindOf \in [Ids -> STRING]
  /\ \A s \in Scenarios :
       /\ s.width \in {1, 2} /\ s.ids \subseteq Ids /\ s.fields \subseteq Fields
       /\ s.codes \subseteq Codes /\ DOMAIN s.rows = s.ids \cap DOMAIN s.rows

VARIABLES
  row,      \* the committed row of each id, or Missing
  desk,     \* what each handler is about to commit, or Missing
  cache,    \* what Redis holds of the rows of a kind, or Missing
  losses,
  scenario

vars == <<row, desk, cache, losses, scenario>>

\* The category tree, and the documents of an employee.
Cached == {"category", "paper"}

-----------------------------------------------------------------------------
(* Reading *)

There(i) == row[i] # Missing
Live(i)  == There(i) /\ ~row[i].gone
Of(kind) == {i \in scenario.ids : KindOf[i] = kind}
All(kind) == {i \in Of(kind) : There(i)}
One(S, kind) == {i \in S : KindOf[i] = kind}

\* The rows of these kinds that name it.
Users(i, kinds) == {j \in scenario.ids : There(j) /\ KindOf[j] \in kinds /\ i \in row[j].uses}

Coded(kind, code) == {i \in All(kind) : row[i].code = code}

Ordered(r) == Missing \notin {r.low, r.high} => r.low <= r.high

\* What a row becomes when a request sets some of its fields.
Merge(r, put) == [f \in Fields |-> IF f \in DOMAIN put THEN put[f] ELSE r[f]]

Bounds(f) == IF f \in scenario.fields THEN Levels \cup {Missing} ELSE {Missing}

\* The rows of these kinds a request may name: one of each at most.
Links(kinds) ==
  {u \in SUBSET {j \in scenario.ids : KindOf[j] \in kinds /\ There(j)} :
     \A k \in kinds : Cardinality(One(u, k)) <= 1}

\* A request for a change sets one field, or both bounds.
Puts(fields, kinds) ==
  {p \in {[code |-> c] : c \in scenario.codes}
         \cup {[low |-> l] : l \in Bounds("low")} \cup {[high |-> h] : h \in Bounds("high")}
         \cup [low: Bounds("low"), high: Bounds("high")]
         \cup {[on |-> b] : b \in BOOLEAN} \cup {[gone |-> b] : b \in BOOLEAN}
         \cup {[uses |-> u] : u \in Links(kinds)} :
     DOMAIN p \subseteq fields \cap scenario.fields}

\* A request for a new row, without and with bounds.
Plain(kinds) ==
  [code: scenario.codes, low: {Missing}, high: {Missing}, on: BOOLEAN, gone: {FALSE},
   uses: Links(kinds)]

Bounded(kinds) ==
  [code: scenario.codes, low: Bounds("low"), high: Bounds("high"), on: BOOLEAN, gone: {FALSE},
   uses: Links(kinds)]

-----------------------------------------------------------------------------
(* Handlers *)

Busy == {t \in Tasks : desk[t] # Missing}
OneAtATime == scenario.width = 1
Quiet == Busy = {} /\ losses = 0

Asked(t, op) ==
  /\ op \in scenario.ops
  /\ desk[t] = Missing /\ Cardinality(Busy) < scenario.width

At(t, pc) == desk[t] # Missing /\ desk[t].pc = pc

Unused(i) ==
  /\ row[i] = Missing
  /\ \A t \in Tasks : At(t, "write") => \A n \in DOMAIN desk[t].todo : i \notin DOMAIN desk[t].todo[n]

\* The checks have passed: what is still to be committed, commit by commit.
Decide(t, todo) ==
  /\ desk' = [desk EXCEPT ![t] = [pc |-> "write", todo |-> todo]]
  /\ UNCHANGED <<row, cache, losses, scenario>>

Just(i, put) == [j \in {i} |-> put]
Put(t, i, put)  == Decide(t, <<Just(i, put)>>)
Drop(t, i)      == Decide(t, <<Just(i, Missing)>>)
Retire(t, i)    == Put(t, i, [gone |-> TRUE])
Restore(t, i)   == Put(t, i, [gone |-> FALSE])

\* The rows after the changes of a handler.
After(changes) ==
  [i \in Ids |->
     IF i \notin DOMAIN changes THEN row[i]
     ELSE IF changes[i] = Missing THEN Missing
     ELSE IF DOMAIN changes[i] = Fields THEN changes[i]
     ELSE Merge(row[i], changes[i])]

\* An UPDATE of a row deleted meanwhile fails.
StillThere(changes) ==
  \A i \in DOMAIN changes :
    changes[i] # Missing /\ DOMAIN changes[i] # Fields => There(i)

\* Every row a row names is there.
Named(rows) ==
  \A i \in scenario.ids : rows[i] # Missing => \A j \in rows[i].uses : rows[j] # Missing

\* Keys with ON DELETE CASCADE and with RESTRICT are pairs of kinds; all other
\* keys are set to NULL.  The rows without those that named, with a cascading
\* key, a row no longer there:
Sweep(rows, cascades, restricts) ==
  LET Key(i, j) == <<KindOf[i], KindOf[j]>>
      Orphans(lost) ==
        {i \in scenario.ids \ lost : \E j \in rows[i].uses \cap lost : Key(i, j) \in cascades}
      gone  == {i \in scenario.ids : rows[i] = Missing}
      fewer == gone \cup Orphans(gone)
      lost  == fewer \cup Orphans(fewer)
  IN [i \in Ids |->
        IF i \in lost \/ rows[i] = Missing THEN Missing
        ELSE [rows[i] EXCEPT !.uses = {j \in @ : j \notin lost \/ Key(i, j) \in restricts}]]

Pairs(rows) ==
  {<<i, j>> \in scenario.ids \X scenario.ids :
     i # j /\ KindOf[i] = KindOf[j] /\ rows[i] # Missing /\ rows[j] # Missing}

Changes(t) == Head(desk[t].todo)
Touched(t) == {KindOf[i] : i \in DOMAIN Changes(t)}

\* A commit, or a rollback and an error for the client.
Commit(t, rows, passes) ==
  /\ row' = IF passes THEN rows ELSE row
  /\ desk' = [desk EXCEPT ![t] =
       IF ~passes THEN Missing
       ELSE IF Len(desk[t].todo) > 1 THEN [pc |-> "write", todo |-> Tail(desk[t].todo)]
       ELSE IF Touched(t) \cap Cached # {} THEN [pc |-> "forget", kinds |-> Touched(t) \cap Cached]
       ELSE Missing]
  /\ UNCHANGED <<cache, losses, scenario>>

-----------------------------------------------------------------------------
(* What is kept in Redis *)

View(kind) == {<<i, row[i]>> : i \in {j \in All(kind) : ~row[j].gone}}

\* Of what is not cached the rows are read now and cached later.
ReadView(t, kind) ==
  /\ Asked(t, "read") /\ Of(kind) # {} /\ cache[kind] = Missing
  /\ desk' = [desk EXCEPT ![t] = [pc |-> "keep", kind |-> kind, view |-> View(kind)]]
  /\ UNCHANGED <<row, cache, losses, scenario>>

KeepView(t) ==
  /\ At(t, "keep")
  /\ cache' = [cache EXCEPT ![desk[t].kind] = desk[t].view]
  /\ desk' = [desk EXCEPT ![t] = Missing]
  /\ UNCHANGED <<row, losses, scenario>>

\* Minutes or an hour later.
Expire(kind) ==
  /\ cache[kind] # Missing
  /\ cache' = [cache EXCEPT ![kind] = Missing]
  /\ UNCHANGED <<row, desk, losses, scenario>>

\* A mistaken Forget: another key is deleted.
ForgetOthers(t) ==
  /\ At(t, "forget")
  /\ desk' = [desk EXCEPT ![t] = Missing]
  /\ UNCHANGED <<row, cache, losses, scenario>>

\* A change of what is cached ends with deleting it from Redis.
Forget(t) ==
  /\ At(t, "forget")
  /\ cache' = [k \in Cached |-> IF k \in desk[t].kinds THEN Missing ELSE cache[k]]
  /\ desk' = [desk EXCEPT ![t] = Missing]
  /\ UNCHANGED <<row, losses, scenario>>

-----------------------------------------------------------------------------
Lose(t) ==
  /\ desk[t] # Missing /\ losses < scenario.losses
  /\ desk' = [desk EXCEPT ![t] = Missing]
  /\ losses' = losses + 1
  /\ UNCHANGED <<row, cache, scenario>>

RowsInit ==
  /\ scenario \in Scenarios
  /\ row = [i \in Ids |-> IF i \in DOMAIN scenario.rows THEN scenario.rows[i] ELSE Missing]
  /\ desk = [t \in Tasks |-> Missing]
  /\ cache = [k \in Cached |-> Missing]
  /\ losses = 0

Handling(t) == KeepView(t) \/ Forget(t) \/ Lose(t)

-----------------------------------------------------------------------------
(* Properties of all of the reference data *)

RowsTypeOK ==
  /\ row \in [Ids -> Row \cup {Missing}]
  /\ DOMAIN desk = Tasks /\ DOMAIN cache = Cached
  /\ losses \in 0..scenario.losses /\ scenario \in Scenarios

\* A lower bound never exceeds the upper bound of its row - stock levels,
\* working hours, dates, amounts - however the two are changed one after the
\* other, alone or together.  The days of a tax rate are compared nowhere.
RowsOrdered ==
  OneAtATime => \A i \in Ids : There(i) /\ KindOf[i] # "tax rate" => Ordered(row[i])

\* What Redis holds is what the rows say, whenever no handler is at work and
\* none was lost: every change forgets the tree or the list it changes.
CacheIsCurrent ==
  OneAtATime /\ Quiet => \A k \in Cached : cache[k] \in {Missing, View(k)}

\* The links a deletion clears unasked.
Loose == {"brand", "warehouse", "location"}

\* A live row names what it named until a request of its own changes that: no
\* deletion takes another link from it, though keys are ON DELETE SET NULL and
\* each delete handler has to look for the live rows that use its row
\* (delete_category counts the suppliers).
LinksKept ==
  [][OneAtATime =>
       \A i \in {k \in scenario.ids : There(k) /\ Live(k) /\ row'[k] # Missing} :
         \/ \A j \in row[i].uses \ row'[i].uses : KindOf[j] \in Loose
         \/ \E t \in Tasks : At(t, "write") /\ i \in DOMAIN Changes(t)]_row
=============================================================================
