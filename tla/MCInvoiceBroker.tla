-------------------------- MODULE MCInvoiceBroker --------------------------
(* Small instances of InvoiceBroker: one caller, a cap of one call an hour *)
(* or none that binds, a day and an hour of one tick.                      *)
EXTENDS InvoiceBroker, TLC

CONSTANT hermes

MCKey == {hermes} \X {"draft", "issue", "client_write", "expense_write", "expense_upload"}
One == [k \in MCKey |-> 1]
Many == [k \in MCKey |-> MaxCalls]
MCDayOf == [t \in 0 .. MaxClock |-> t]
Runs == {1}

Upload == {"upload_expense_file"}
Update == {"update_client"}
=============================================================================
