------------------------- MODULE LedgerAndDocuments -------------------------
(* The general ledger and, beside it, the documents that post to it, with    *)
(* rows and handlers of their own: neither side reads what the other writes.  *)
(* FinanceDocuments counts the journals of a document; what becomes of a      *)
(* journal is JournalLedger's.                                                *)
EXTENDS JournalLedger

CONSTANTS Docs, Items, Txns, Lines, MaxAmount, Wishes
VARIABLES doc, journals, entries, clock, bank, booked, item, drafts, txn, line,
          desk, crashes, wanted

Finance == INSTANCE FinanceDocuments WITH
  Scenarios <- Wishes, task <- desk, scenario <- wanted

records == <<doc, journals, entries, clock, bank, booked, item, drafts, txn, line,
             desk, crashes, wanted>>

BothInit == Init /\ Finance!Init
BothNext == \/ Next /\ UNCHANGED records
            \/ Finance!Next /\ UNCHANGED vars
BothSpec == BothInit /\ [][BothNext]_<<vars, records>>

----------------------------------------------------------------------------
(* Properties *)

\* The bank balance is what was booked, and transactions and statement lines are
\* paired (record_transaction, post_receipt_voucher, perform_auto_matching).
BankAgrees == Finance!BankAgrees

\* Neither a document nor an item of the queue is posted twice: see
\* InvoicePostedOnce and QueuePostsOnce (post_invoice, post_bill, create_asset,
\* process_financial_posting_queue_task).
DocumentsPostOnce == Finance!InvoicePostedOnce /\ Finance!QueuePostsOnce
=============================================================================
