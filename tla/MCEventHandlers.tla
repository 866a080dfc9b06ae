--------------------------- MODULE MCEventHandlers ---------------------------
(***************************************************************************)
(* Instances of EventHandlers for TLC: a purchase, two sales, a credit     *)
(* note, an additional cost and a sale of a good of another currency.      *)
(***************************************************************************)
EXTENDS EventHandlers, TLC

CONSTANTS purchase, sale, lateSale, noteTx, cost, foreign

Properties ==
    [t \in Txs |->
        CASE t = purchase -> {"quantity", "purchase_invoice"}
          [] t \in {sale, lateSale, foreign} -> {"good", "quantity", "sale_invoice"}
          [] t = noteTx -> {"quantity", "credit_note"}
          [] t = cost -> {"purchase_invoice"}]

\* The sale was recorded without the optional invoice.
NoInvoice == [Properties EXCEPT ![sale] = {"good", "quantity"}]

\* The late sale is dated before the other transactions.
TxDates == [t \in Txs |-> IF t = lateSale THEN 1 ELSE 2]
==============================================================================
