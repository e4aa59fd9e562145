------------------------------ MODULE Sourcing -------------------------------
(***************************************************************************)
(* How a supplier comes to an order: SupplierService with the contacts of  *)
(* a supplier, RFQService, SupplierQuotationService and the orders that    *)
(* PurchaseOrderService makes from quotations or is given by hand.         *)
(*                                                                         *)
(* The handlers of documents lock nothing, and run here one at a time.     *)
(* Those that add or update a contact overlap: an asyncio.Lock of the      *)
(* process admits one of them from its first read to its commit, and the   *)
(* removal of a contact does not ask for it.                               *)
(***************************************************************************)
EXTENDS Integers, FiniteSets

CONSTANTS
  Tasks,        \* handlers of contacts in flight, all of one process
  Suppliers, Contacts, Rfqs, Quotes, Orders,   \* ids of rows
  Scenarios     \* what is asked, and of which rows

Missing == "none"
Open == {"Draft", "Submitted"}    \* quotations still to be decided; nothing sets Under Review
DocumentOps == {"status", "delete", "rfq", "issue", "cancelRfq", "invite", "uninvite", "quote",
                "submit", "withdraw", "approve", "reject", "award", "order", "enter",
                "supplierOf", "receive", "cancelOrder"}
Ops == {"supplier", "addContact", "updateContact", "deleteContact"} \cup DocumentOps
Rows == Suppliers \cup Contacts \cup Rfqs \cup Quotes \cup Orders
Scenario == [rows: SUBSET Rows, ops: SUBSET Ops]

\* What theorems may assume, and the module that gives the constants checks.
SourcingAssumption ==
  /\ Missing \notin Tasks \cup Rows /\ Scenarios \subseteq Scenario

VARIABLES
  supplier,    \* the status of each supplier
  contact,     \* the contacts: whose they are, and whether primary
  rfq,         \* the status of each request for quotation
  invited,     \* how many rows invite a supplier to a request
  quote,       \* the quotations of suppliers
  purchase,    \* the orders, and the quotation each gives as its origin
  mutex,       \* who holds _contact_lock
  desk,        \* what each handler of contacts has read
  scenario

vars == <<supplier, contact, rfq, invited, quote, purchase, mutex, desk, scenario>>
papers == <<rfq, invited, quote, purchase>>
people == <<contact, mutex, desk>>

----------------------------------------------------------------------------
(* Rows *)

NoContact == [of |-> Missing, primary |-> FALSE]
NoQuote == [status |-> Missing, of |-> Missing, rfq |-> Missing]
NoOrder == [status |-> Missing, of |-> Missing, quote |-> Missing, converted |-> FALSE]
Idle == [of |-> Missing, contact |-> Missing, new |-> FALSE, primary |-> FALSE, clears |-> {}]

TypeOK ==
  /\ supplier \in [Suppliers -> {Missing, "Active", "Inactive", "Blacklisted", "Deleted"}]
  /\ contact \in [Contacts -> [of: Suppliers \cup {Missing}, primary: BOOLEAN]]
  /\ rfq \in [Rfqs -> {Missing, "Draft", "Issued", "Closed", "Cancelled"}]
  /\ invited \in [Rfqs -> [Suppliers -> 0 .. 2]]
  /\ quote \in [Quotes -> [status: Open \cup {Missing, "Approved", "Rejected", "Withdrawn"},
                           of: Suppliers \cup {Missing}, rfq: Rfqs \cup {Missing}]]
  /\ purchase \in [Orders -> [status: {Missing, "Live", "Received", "Cancelled"},
                              of: Suppliers \cup {Missing}, quote: Quotes \cup {Missing},
                              converted: BOOLEAN]]
  /\ mutex \in Tasks \cup {Missing}
  /\ desk \in [Tasks -> [of: Suppliers \cup {Missing}, contact: Contacts \cup {Missing},
                         new: BOOLEAN, primary: BOOLEAN, clears: SUBSET Contacts]]
  /\ scenario \in Scenarios

Init ==
  /\ supplier = [s \in Suppliers |-> Missing]
  /\ contact = [c \in Contacts |-> NoContact]
  /\ rfq = [r \in Rfqs |-> Missing]
  /\ invited = [r \in Rfqs |-> [s \in Suppliers |-> 0]]
  /\ quote = [q \in Quotes |-> NoQuote]
  /\ purchase = [o \in Orders |-> NoOrder]
  /\ mutex = Missing
  /\ desk = [t \in Tasks |-> Idle]
  /\ scenario \in Scenarios

Asked(op, row) == op \in scenario.ops /\ row \in scenario.rows
Known(s) == supplier[s] \notin {Missing, "Deleted"}
Barred(s) == supplier[s] \in {"Inactive", "Blacklisted"}
ContactsOf(s) == {c \in Contacts : contact[c].of = s}
Primary(s) == {c \in ContactsOf(s) : contact[c].primary}
QuotesOf(r) == {q \in Quotes : quote[q].rfq = r}

\* get_by_origin: a cancelled order does not count, and one that was entered
\* with the quotation as its origin does.
OrdersFrom(q) == {o \in Orders : purchase[o].quote = q /\ purchase[o].status # "Cancelled"}

----------------------------------------------------------------------------
(* Suppliers *)

\* create_supplier keeps the first of the contacts that are said to be primary.
CreateSupplier(s) ==
  /\ Asked("supplier", s) /\ supplier[s] = Missing
  /\ \E status \in {"Active", "Inactive", "Blacklisted"} : supplier' = [supplier EXCEPT ![s] = status]
  /\ \E C \in SUBSET (ContactsOf(Missing) \cap scenario.rows) : \E first \in C \cup {Missing} :
       contact' = [c \in Contacts |-> IF c \in C THEN [of |-> s, primary |-> c = first] ELSE contact[c]]
  /\ UNCHANGED <<papers, mutex, desk, scenario>>

\* activate_supplier, deactivate_supplier, blacklist_supplier
SetStatus(s) ==
  /\ Asked("status", s) /\ Known(s)
  /\ \E status \in {"Active", "Inactive", "Blacklisted"} \ {supplier[s]} :
       supplier' = [supplier EXCEPT ![s] = status]
  /\ UNCHANGED <<papers, people, scenario>>

\* has_active_dependencies: orders, cancelled ones too, invitations, quotations
HasDependencies(s) ==
  \/ \E o \in Orders : purchase[o].of = s
  \/ \E r \in Rfqs : invited[r][s] > 0
  \/ \E q \in Quotes : quote[q].of = s

DeleteSupplier(s) ==
  /\ Asked("delete", s) /\ Known(s) /\ ~ HasDependencies(s)
  /\ supplier' = [supplier EXCEPT ![s] = "Deleted"]
  /\ UNCHANGED <<papers, people, scenario>>

----------------------------------------------------------------------------
(* Contacts *)

\* A mistaken MayEnter: the lock is not taken.
MayEnterAlways(t) == desk[t] = Idle

MayEnter(t) == desk[t] = Idle /\ mutex = Missing

\* add_contact and update_contact take the lock, read the rows, and mark the
\* contacts that are primary so far, all in the memory of their session.
OpenContact(t, s, c) ==
  /\ MayEnter(t) /\ Known(s)
  /\ \/ Asked("addContact", c) /\ contact[c] = NoContact
     \/ Asked("updateContact", c) /\ contact[c].of = s
  /\ \E primary \in BOOLEAN :
       desk' = [desk EXCEPT ![t] = [of |-> s, contact |-> c, new |-> contact[c] = NoContact,
                                    primary |-> primary,
                                    clears |-> IF primary THEN Primary(s) \ {c} ELSE {}]]
  /\ mutex' = t
  /\ UNCHANGED <<supplier, contact, papers, scenario>>

\* The commit fails when one of the rows it updates has been removed.
Gone(t) ==
  \/ ~ desk[t].new /\ contact[desk[t].contact].of # desk[t].of
  \/ \E c \in desk[t].clears : contact[c].of # desk[t].of

SaveContact(t) ==
  /\ desk[t] # Idle
  /\ contact' = IF Gone(t) THEN contact ELSE
       [c \in Contacts |-> IF c = desk[t].contact
                           THEN [of |-> desk[t].of, primary |-> desk[t].primary]
                           ELSE [contact[c] EXCEPT !.primary = @ /\ c \notin desk[t].clears]]
  /\ desk' = [desk EXCEPT ![t] = Idle]
  /\ mutex' = Missing
  /\ UNCHANGED <<supplier, papers, scenario>>

\* delete_contact goes past the lock.
DeleteContact(c) ==
  /\ Asked("deleteContact", c) /\ contact[c] # NoContact /\ Known(contact[c].of)
  /\ contact' = [contact EXCEPT ![c] = NoContact]
  /\ UNCHANGED <<supplier, papers, mutex, desk, scenario>>

----------------------------------------------------------------------------
(* Requests for quotation *)

\* create_rfq passes over suppliers that are not active.  A supplier listed
\* twice is invited twice: the session does not flush before it looks.
CreateRfq(r) ==
  /\ Asked("rfq", r) /\ rfq[r] = Missing
  /\ rfq' = [rfq EXCEPT ![r] = "Draft"]
  /\ \E listed \in [Suppliers -> 0 .. 2] :
       invited' = [invited EXCEPT ![r] = [s \in Suppliers |->
                     IF supplier[s] = "Active" THEN listed[s] ELSE 0]]
  /\ UNCHANGED <<supplier, people, quote, purchase, scenario>>

\* issue_rfq; cancel_rfq
ChangeRfq(r) ==
  /\ \/ Asked("issue", r) /\ rfq[r] = "Draft" /\ rfq' = [rfq EXCEPT ![r] = "Issued"]
     \/ Asked("cancelRfq", r) /\ rfq[r] \in {"Draft", "Issued"} /\ rfq' = [rfq EXCEPT ![r] = "Cancelled"]
  /\ UNCHANGED <<supplier, people, invited, quote, purchase, scenario>>

\* invite_supplier and remove_supplier; both fail on a supplier invited twice.
Invite(r, s) ==
  /\ \/ /\ Asked("invite", s) /\ rfq[r] \in {"Draft", "Issued"} /\ supplier[s] = "Active"
        /\ invited[r][s] = 0 /\ invited' = [invited EXCEPT ![r][s] = 1]
     \/ /\ Asked("uninvite", s) /\ rfq[r] = "Draft"
        /\ invited[r][s] = 1 /\ invited' = [invited EXCEPT ![r][s] = 0]
  /\ UNCHANGED <<supplier, people, rfq, quote, purchase, scenario>>

\* A mistaken Award: the other quotations are left as they are.
AwardOnly(r, q) ==
  quote' = [quote EXCEPT ![q].status = "Approved"]

\* award_quotation approves one quotation and rejects those still open.
Award(r, q) ==
  quote' = [p \in Quotes |->
              IF p = q THEN [quote[p] EXCEPT !.status = "Approved"]
              ELSE IF p \in QuotesOf(r) /\ quote[p].status \in Open
                   THEN [quote[p] EXCEPT !.status = "Rejected"] ELSE quote[p]]

AwardQuotation(r, q) ==
  /\ Asked("award", q) /\ rfq[r] \in {"Draft", "Issued"}
  /\ quote[q].rfq = r /\ quote[q].status \in Open
  /\ Award(r, q)
  /\ rfq' = [rfq EXCEPT ![r] = "Closed"]
  /\ UNCHANGED <<supplier, people, invited, purchase, scenario>>

----------------------------------------------------------------------------
(* Quotations of suppliers *)

\* create_quotation, with or without a request
CreateQuotation(q, s, r) ==
  /\ Asked("quote", q) /\ quote[q] = NoQuote /\ supplier[s] = "Active"
  /\ r # Missing => rfq[r] \in {"Draft", "Issued"} /\ invited[r][s] = 1
  /\ quote' = [quote EXCEPT ![q] = [status |-> "Draft", of |-> s, rfq |-> r]]
  /\ UNCHANGED <<supplier, people, rfq, invited, purchase, scenario>>

\* The request a quotation belongs to is not looked at.
Decide(op, q, from, to) ==
  /\ Asked(op, q) /\ quote[q].status \in from
  /\ quote' = [quote EXCEPT ![q].status = to]
  /\ UNCHANGED <<supplier, people, rfq, invited, purchase, scenario>>

SubmitQuotation(q) == Decide("submit", q, {"Draft"}, "Submitted")
WithdrawQuotation(q) == Decide("withdraw", q, Open, "Withdrawn")
ApproveQuotation(q) == Decide("approve", q, Open, "Approved")
RejectQuotation(q) == Decide("reject", q, Open, "Rejected")

----------------------------------------------------------------------------
(* Orders *)

\* create_from_quotation
OrderQuotation(o, q) ==
  LET s == quote[q].of IN
  /\ Asked("order", o) /\ purchase[o] = NoOrder
  /\ quote[q].status = "Approved" /\ OrdersFrom(q) = {}
  /\ Known(s) /\ ~ Barred(s)
  /\ purchase' = [purchase EXCEPT ![o] =
       [status |-> "Live", of |-> s, quote |-> q, converted |-> TRUE]]
  /\ UNCHANGED <<supplier, people, rfq, invited, quote, scenario>>

\* create_order stores the origin it is given: no quotation, or any, whoever
\* made it, whatever its status, and however many orders name it already.
EnterOrder(o, s, q) ==
  /\ Asked("enter", o) /\ purchase[o] = NoOrder
  /\ Known(s) /\ ~ Barred(s)
  /\ q # Missing => quote[q] # NoQuote
  /\ purchase' = [purchase EXCEPT ![o] =
       [status |-> "Live", of |-> s, quote |-> q, converted |-> FALSE]]
  /\ UNCHANGED <<supplier, people, rfq, invited, quote, scenario>>

\* update_order may give a draft another supplier, whoever made the quotation.
ReplaceSupplier(o, s) ==
  /\ Asked("supplierOf", o) /\ purchase[o].status = "Live"
  /\ Known(s) /\ ~ Barred(s)
  /\ purchase' = [purchase EXCEPT ![o].of = s]
  /\ UNCHANGED <<supplier, people, rfq, invited, quote, scenario>>

\* Goods are received for the order, or cancel_order comes first.  What else
\* PurchaseOrders tells of an order is all one here: it is live.
EndOrder(o) ==
  /\ purchase[o].status = "Live"
  /\ \/ Asked("receive", o) /\ purchase' = [purchase EXCEPT ![o].status = "Received"]
     \/ Asked("cancelOrder", o) /\ purchase' = [purchase EXCEPT ![o].status = "Cancelled"]
  /\ UNCHANGED <<supplier, people, rfq, invited, quote, scenario>>

Next ==
  \/ \E s \in Suppliers : CreateSupplier(s) \/ SetStatus(s) \/ DeleteSupplier(s)
  \/ \E t \in Tasks : SaveContact(t) \/ \E s \in Suppliers, c \in Contacts : OpenContact(t, s, c)
  \/ \E c \in Contacts : DeleteContact(c)
  \/ \E r \in Rfqs : CreateRfq(r) \/ ChangeRfq(r)
  \/ \E r \in Rfqs, s \in Suppliers : Invite(r, s)
  \/ \E r \in Rfqs, q \in Quotes : AwardQuotation(r, q)
  \/ \E q \in Quotes, s \in Suppliers, r \in Rfqs \cup {Missing} : CreateQuotation(q, s, r)
  \/ \E q \in Quotes : SubmitQuotation(q) \/ WithdrawQuotation(q) \/ ApproveQuotation(q) \/ RejectQuotation(q)
  \/ \E o \in Orders, q \in Quotes : OrderQuotation(o, q)
  \/ \E o \in Orders, s \in Suppliers, q \in Quotes \cup {Missing} : EnterOrder(o, s, q)
  \/ \E o \in Orders : EndOrder(o) \/ \E s \in Suppliers : ReplaceSupplier(o, s)

Spec == Init /\ [][Next]_vars

----------------------------------------------------------------------------
(* Properties *)

\* The orders a quotation was turned into that are not cancelled.
Converted(q) == {o \in OrdersFrom(q) : purchase[o].converted}

\* One handler at a time, what was sourced stays accounted for: a quotation is
\* turned into at most one order that is not cancelled and was approved to be,
\* whatever orders are entered with it as their origin; a closed request has an
\* approved quotation and none left to decide; and what invites, quotes or
\* supplies is never a deleted supplier (create_from_quotation, create_order,
\* award_quotation, create_quotation, delete_supplier).
SourcedOnce ==
  /\ \A q \in Quotes :
       /\ Cardinality(Converted(q)) <= 1
       /\ Converted(q) # {} => quote[q].status = "Approved"
  /\ \A r \in Rfqs : rfq[r] = "Closed" =>
       /\ \E q \in QuotesOf(r) : quote[q].status = "Approved"
       /\ \A q \in QuotesOf(r) : quote[q].status \notin Open
  /\ \A s \in Suppliers : supplier[s] = "Deleted" =>
       /\ \A o \in Orders : purchase[o].of # s
       /\ \A q \in Quotes : quote[q].of # s
       /\ \A r \in Rfqs : invited[r][s] = 0

\* However the handlers of one process overlap, with contacts removed under
\* them, a supplier has at most one primary contact (add_contact,
\* update_contact, delete_contact, create_supplier).
OnePrimaryContact == \A s \in Suppliers : Cardinality(Primary(s)) <= 1
=============================================================================
