--------------------------- MODULE LeadConversion ---------------------------
(***************************************************************************)
(* Leads and what becomes of them: LeadService, LeadConversionService and  *)
(* the customers and opportunities they share with the rest.               *)
(*                                                                         *)
(* A conversion locks the row of the lead, finds or creates a customer,    *)
(* may create an opportunity, and only then marks the lead.  Creating a    *)
(* customer and creating an opportunity both commit, and with the commit   *)
(* the lock is gone; the handler goes on with the lead it has loaded.      *)
(* Every other handler reads without a lock and writes, at its commit, the *)
(* columns it changed.                                                     *)
(***************************************************************************)
EXTENDS Integers, FiniteSets, FiniteSetsExt

CONSTANTS
  Tasks,          \* handlers in flight
  Leads, Customers, Opportunities,   \* ids of rows
  Contacts,       \* e-mail addresses and telephone numbers, which tell people apart
  Scenarios       \* what is asked

Missing == "none"
Stages == {"NEW", "CONTACTED", "QUALIFIED", "CONVERTED", "LOST"}
Ops == {"create", "update", "delete", "convert", "addCustomer", "dropCustomer"}
Rows == Leads \cup Customers \cup Opportunities
Scenario == [width: Nat \ {0}, ops: SUBSET Ops, rows: SUBSET Rows,
             early: BOOLEAN,   \* conversions may create customers and opportunities
             losses: Nat]      \* bound on handlers that are lost

\* What theorems may assume, and the module that gives the constants checks.
LeadAssumption ==
  /\ Missing \notin Rows \cup Contacts \cup Tasks
  /\ Scenarios \subseteq Scenario

VARIABLES
  lead,       \* the leads
  customer,   \* the customers, with the lead each was made for
  opp,        \* the lead each opportunity was made for
  holds,      \* who holds the lock on the row of each lead
  desk,       \* what each handler is doing
  finished,   \* ghost: how often the conversion of each lead was completed
  losses,     \* handlers lost
  scenario

vars == <<lead, customer, opp, holds, desk, finished, losses, scenario>>

----------------------------------------------------------------------------
(* Rows *)

\* LEAD_LIFECYCLE_TRANSITIONS
After(status) == CASE status = "NEW"       -> {"CONTACTED", "LOST"}
                   [] status = "CONTACTED" -> {"QUALIFIED", "LOST"}
                   [] status = "QUALIFIED" -> {"CONVERTED", "LOST"}
                   [] OTHER                -> {}

NoLead == [status |-> Missing, converted |-> FALSE, contact |-> Missing, deleted |-> FALSE,
           customer |-> Missing, opp |-> Missing]
NoCustomer == [state |-> "absent", contact |-> Missing, for |-> Missing]
Idle == [pc |-> "idle", lead |-> Missing, status |-> Missing, contact |-> Missing,
         target |-> Missing, customer |-> Missing, opp |-> Missing, deal |-> FALSE]

Exists(l) == lead[l].status # Missing
Live(l) == Exists(l) /\ ~ lead[l].deleted
Known == {c \in Customers : customer[c].state = "live"}
Raised(l) == {o \in Opportunities : opp[o] = l}

TypeOK ==
  /\ lead \in [Leads -> [status: Stages \cup {Missing}, converted: BOOLEAN,
                         contact: Contacts \cup {Missing}, deleted: BOOLEAN,
                         customer: Customers \cup {Missing}, opp: Opportunities \cup {Missing}]]
  /\ customer \in [Customers -> [state: {"absent", "live", "deleted"},
                                 contact: Contacts \cup {Missing}, for: Leads \cup {Missing}]]
  /\ opp \in [Opportunities -> Leads \cup {Missing}]
  /\ holds \in [Leads -> Tasks \cup {Missing}]
  /\ desk \in [Tasks -> [pc: {"idle", "save", "resolve", "deal", "mark"},
                         lead: Leads \cup {Missing}, status: Stages \cup {Missing},
                         contact: Contacts \cup {Missing}, target: Stages \cup {Missing},
                         customer: Customers \cup {Missing}, opp: Opportunities \cup {Missing},
                         deal: BOOLEAN]]
  /\ finished \in [Leads -> Nat]
  /\ losses \in 0 .. scenario.losses /\ scenario \in Scenarios

Init ==
  /\ lead = [l \in Leads |-> NoLead]
  /\ customer = [c \in Customers |-> NoCustomer]
  /\ opp = [o \in Opportunities |-> Missing]
  /\ holds = [l \in Leads |-> Missing]
  /\ desk = [t \in Tasks |-> Idle]
  /\ finished = [l \in Leads |-> 0]
  /\ losses = 0 /\ scenario \in Scenarios

OneAtATime == scenario.width = 1

Asked(op, t) ==
  /\ op \in scenario.ops /\ desk[t] = Idle
  /\ Cardinality({u \in Tasks : desk[u] # Idle}) < scenario.width

\* A statement that writes a row waits for whoever has locked it.
Free(l, t) == holds[l] \in {t, Missing}

----------------------------------------------------------------------------
(* Leads *)

\* create_lead takes the status it is given; a duplicate is only logged.
CreateLead(t, l) ==
  /\ Asked("create", t) /\ l \in scenario.rows /\ ~ Exists(l)
  /\ \E status \in Stages, k \in Contacts \cup {Missing} :
       lead' = [lead EXCEPT ![l] = [NoLead EXCEPT !.status = status, !.contact = k]]
  /\ UNCHANGED <<customer, opp, holds, desk, finished, losses, scenario>>

\* update_lead loads the row and checks the transition; the status may stay.
OpenLead(t, l) ==
  /\ Asked("update", t) /\ Live(l) /\ lead[l].status \notin {"CONVERTED", "LOST"}
  /\ \E target \in After(lead[l].status) \cup {lead[l].status}, k \in Contacts \cup {Missing} :
       desk' = [desk EXCEPT ![t] = [Idle EXCEPT !.pc = "save", !.lead = l, !.target = target,
                                     !.status = lead[l].status, !.contact = k]]
  /\ UNCHANGED <<lead, customer, opp, holds, finished, losses, scenario>>

\* The columns that differ from what the session loaded are written.
SaveLead(t) ==
  LET l == desk[t].lead IN
  /\ desk[t].pc = "save" /\ Free(l, t)
  /\ lead' = [lead EXCEPT ![l].status = IF desk[t].target = desk[t].status THEN @ ELSE desk[t].target,
                          ![l].contact = desk[t].contact]
  /\ desk' = [desk EXCEPT ![t] = Idle]
  /\ UNCHANGED <<customer, opp, holds, finished, losses, scenario>>

\* delete_lead and merge_leads mark a lead deleted, whatever its status; a
\* merge needs another live lead that takes its notes.
DeleteLead(t, l) ==
  /\ Asked("delete", t) /\ Live(l) /\ Free(l, t)
  /\ lead' = [lead EXCEPT ![l].deleted = TRUE]
  /\ UNCHANGED <<customer, opp, holds, desk, finished, losses, scenario>>

----------------------------------------------------------------------------
(* Customers *)

\* create_customer, apart from conversions.  What update_customer may change, a
\* customer keeps here.
AddCustomer(t, c) ==
  /\ Asked("addCustomer", t) /\ c \in scenario.rows /\ customer[c].state = "absent"
  /\ \E k \in Contacts \cup {Missing} :
       customer' = [customer EXCEPT ![c] = [state |-> "live", contact |-> k, for |-> Missing]]
  /\ UNCHANGED <<lead, opp, holds, desk, finished, losses, scenario>>

\* delete_customer looks at nothing that refers to the customer.
DropCustomer(t, c) ==
  /\ Asked("dropCustomer", t) /\ c \in Known
  /\ customer' = [customer EXCEPT ![c].state = "deleted"]
  /\ UNCHANGED <<lead, opp, holds, desk, finished, losses, scenario>>

----------------------------------------------------------------------------
(* Conversion *)

\* What convert_lead demands of the row it has locked.
Convertible(l) == Live(l) /\ ~ lead[l].converted /\ lead[l].status = "QUALIFIED"

\* get_for_update; a request may ask for an opportunity, and name the customer.
BeginConversion(t, l) ==
  /\ Asked("convert", t) /\ holds[l] = Missing /\ Convertible(l)
  /\ \E deal \in BOOLEAN, c \in Known \cup {Missing} :
       /\ deal => scenario.early
       /\ desk' = [desk EXCEPT ![t] = [Idle EXCEPT
            !.pc = IF c = Missing THEN "resolve" ELSE "deal",
            !.lead = l, !.status = lead[l].status, !.contact = lead[l].contact,
            !.deal = deal, !.customer = c]]
  /\ holds' = [holds EXCEPT ![l] = t]
  /\ UNCHANGED <<lead, customer, opp, finished, losses, scenario>>

Matches(k) == {c \in Known : k # Missing /\ customer[c].contact = k}

\* search_customers by e-mail, then by telephone
FindCustomer(t) ==
  /\ desk[t].pc = "resolve"
  /\ \E c \in Matches(desk[t].contact) :
       desk' = [desk EXCEPT ![t].customer = c, ![t].pc = "deal"]
  /\ UNCHANGED <<lead, customer, opp, holds, finished, losses, scenario>>

\* create_customer commits: the lock on the lead is released.
MakeCustomer(t) ==
  LET l == desk[t].lead IN
  /\ desk[t].pc = "resolve" /\ scenario.early /\ Matches(desk[t].contact) = {}
  /\ \E c \in Customers \cap scenario.rows :
       /\ customer[c].state = "absent"
       /\ customer' = [customer EXCEPT ![c] = [state |-> "live", contact |-> desk[t].contact, for |-> l]]
       /\ desk' = [desk EXCEPT ![t].customer = c, ![t].pc = "deal"]
  /\ holds' = [holds EXCEPT ![l] = IF @ = t THEN Missing ELSE @]
  /\ UNCHANGED <<lead, opp, finished, losses, scenario>>

\* create_opportunity commits as well; it refuses a customer deleted meanwhile.
MakeOpportunity(t) ==
  LET l == desk[t].lead IN
  /\ desk[t].pc = "deal" /\ desk[t].deal
  /\ IF desk[t].customer \in Known
     THEN \E o \in Opportunities \cap scenario.rows :
            /\ opp[o] = Missing
            /\ opp' = [opp EXCEPT ![o] = l]
            /\ desk' = [desk EXCEPT ![t].opp = o, ![t].pc = "mark"]
     ELSE opp' = opp /\ desk' = [desk EXCEPT ![t] = Idle]
  /\ holds' = [holds EXCEPT ![l] = IF @ = t THEN Missing ELSE @]
  /\ UNCHANGED <<lead, customer, finished, losses, scenario>>

\* The lead is marked; the commit ends the transaction.
Mark(t) ==
  LET l == desk[t].lead IN
  /\ desk[t].pc = "mark" \/ (desk[t].pc = "deal" /\ ~ desk[t].deal)
  /\ Free(l, t)
  /\ lead' = [lead EXCEPT ![l].converted = TRUE, ![l].status = "CONVERTED",
                          ![l].customer = desk[t].customer, ![l].opp = desk[t].opp]
  /\ finished' = [finished EXCEPT ![l] = @ + 1]
  /\ holds' = [holds EXCEPT ![l] = IF @ = t THEN Missing ELSE @]
  /\ desk' = [desk EXCEPT ![t] = Idle]
  /\ UNCHANGED <<customer, opp, losses, scenario>>

\* A handler is lost, or a statement of it fails (a code given twice): what it
\* has committed stays.
Lose(t) ==
  /\ desk[t] # Idle /\ losses < scenario.losses
  /\ losses' = losses + 1
  /\ desk' = [desk EXCEPT ![t] = Idle]
  /\ holds' = [l \in Leads |-> IF holds[l] = t THEN Missing ELSE holds[l]]
  /\ UNCHANGED <<lead, customer, opp, finished, scenario>>

Next == \E t \in Tasks :
  \/ \E l \in Leads : CreateLead(t, l) \/ OpenLead(t, l) \/ DeleteLead(t, l) \/ BeginConversion(t, l)
  \/ \E c \in Customers : AddCustomer(t, c) \/ DropCustomer(t, c)
  \/ SaveLead(t) \/ FindCustomer(t) \/ MakeCustomer(t) \/ MakeOpportunity(t) \/ Mark(t) \/ Lose(t)

Spec == Init /\ [][Next]_vars

----------------------------------------------------------------------------
(* Properties *)

\* A lead is converted once.  With any two handlers at once this holds of
\* conversions that find their customer and make no opportunity, for they keep
\* the lock to the end.  Of the others it holds one handler at a time: a lead
\* marked as converted was converted exactly once and stays so, the only
\* opportunities besides are one for each handler lost, and no conversion makes
\* a second customer for one contact (convert_lead, update_lead,
\* create_customer, create_opportunity).
LeadConvertedOnce ==
  /\ \A l \in Leads :
       /\ OneAtATime \/ ~ scenario.early => finished[l] <= 1
       /\ OneAtATime =>
            /\ finished[l] = 1 <=> lead[l].converted
            /\ lead[l].converted => lead[l].status = "CONVERTED" /\ lead[l].customer # Missing
            /\ Cardinality(Raised(l)) <= finished[l] + losses
                                          + Cardinality({t \in Tasks : desk[t].lead = l /\ desk[t].opp # Missing})
  /\ OneAtATime => \A c, d \in Known :
       customer[c].for # Missing /\ customer[d].for # Missing /\ customer[c].contact # Missing
         /\ customer[c].contact = customer[d].contact => c = d
=============================================================================
