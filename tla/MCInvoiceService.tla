-------------------------- MODULE MCInvoiceService --------------------------
(* A small instance of InvoiceService: two connections, one permit, a cap  *)
(* of one call an hour, and issues, which must be confirmed.  Uploads      *)
(* come to this door too, in their pieces, but their arguments are bad.    *)
EXTENDS InvoiceService, TLC

CONSTANT hermes

MCKey == {hermes} \X {"draft", "issue", "client_write", "expense_write", "expense_upload"}
One == [k \in MCKey |-> 1]
MCDayOf == [t \in 0 .. MaxClock |-> t]
Runs == {1}

Issue == {"issue_invoice"}

Symmetry == Permutations(Worker)
=============================================================================
