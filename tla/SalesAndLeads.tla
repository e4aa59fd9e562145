---------------------------- MODULE SalesAndLeads ---------------------------
(* Quotations, orders and deliveries and, beside them, leads and what becomes *)
(* of them, with rows and handlers of their own: neither side reads what the  *)
(* other writes.                                                              *)
EXTENDS SalesDelivery

CONSTANTS Leads, Customers, Opportunities, Contacts, Wishes
VARIABLES lead, customer, opp, holds, desk, finished, losses, wanted

Crm == INSTANCE LeadConversion WITH Scenarios <- Wishes, scenario <- wanted

records == <<lead, customer, opp, holds, desk, finished, losses, wanted>>

BothInit == Init /\ Crm!Init
BothNext == \/ Next /\ UNCHANGED records
            \/ Crm!Next /\ UNCHANGED vars
BothSpec == BothInit /\ [][BothNext]_<<vars, records>>

----------------------------------------------------------------------------
(* Properties *)

\* A quotation becomes one order and a lead one customer's opportunity: see
\* ConvertedOnce and LeadConvertedOnce, each of its side (create_from_quotation,
\* convert_lead).
NothingConvertedTwice == ConvertedOnce /\ Crm!LeadConvertedOnce
=============================================================================
