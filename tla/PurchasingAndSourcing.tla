------------------------ MODULE PurchasingAndSourcing -----------------------
(* One order and its returns and, beside them, how a supplier comes to an     *)
(* order, with rows and handlers of its own: neither side reads what the      *)
(* other writes.                                                              *)
EXTENDS PurchaseOrders

CONSTANTS Suppliers, Contacts, Rfqs, Quotes, Orders, Wishes
VARIABLES supplier, contact, rfq, invited, quote, purchase, mutex, desk, wanted

Source == INSTANCE Sourcing WITH Scenarios <- Wishes, scenario <- wanted

records == <<supplier, contact, rfq, invited, quote, purchase, mutex, desk, wanted>>

BothInit == Init /\ Source!Init
BothNext == \/ Next /\ UNCHANGED records
            \/ Source!Next /\ UNCHANGED vars
BothSpec == BothInit /\ [][BothNext]_<<vars, records>>

----------------------------------------------------------------------------
(* Properties *)

\* What was sourced stays accounted for (create_from_quotation, award_quotation,
\* delete_supplier).
SourcedOnce == Source!SourcedOnce

\* A supplier has at most one primary contact (add_contact, update_contact).
OnePrimaryContact == Source!OnePrimaryContact
=============================================================================
