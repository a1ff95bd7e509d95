--------------------------- MODULE InvoiceRequest ---------------------------
(***************************************************************************)
(* What the invoice broker makes of a request's arguments (invoice-relay   *)
(* validate.py, handler.py _plan_op) and what the agent's tools offer it   *)
(* to give (plugins/greeninvoice schemas.py).  Arguments are functions     *)
(* from the fields that were given: a value is "bad" when its field's      *)
(* check refuses it, "true" when it is the literal, and otherwise good.    *)
(***************************************************************************)
EXTENDS Naturals, FiniteSets

\* Every field given passes its check, _req_str, _num, _date and the others.
Good(given) == \A f \in DOMAIN given : given[f] # "bad"

Only(given, fields) == [f \in DOMAIN given \cap fields |-> given[f]]
Has(given, f) == f \in DOMAIN given
Literally(given, f) == Has(given, f) /\ given[f] = "true"

-----------------------------------------------------------------------------
(* Documents.                                                              *)

ISSUABLE_DOCUMENT_TYPES == {305, 320, 400}
DRAFTABLE_DOCUMENT_TYPES == {10, 300} \cup ISSUABLE_DOCUMENT_TYPES
PAYMENT_REQUIRED_TYPES == {320, 400}
INCOME_OPTIONAL_TYPES == {400}

DocumentTexts == {"currency", "lang", "vatType", "date", "dueDate", "description",
                  "remarks", "footer", "emailContent", "linkedDocumentId"}
DocumentFields == DocumentTexts \cup {"type", "client", "income", "payment"}

InlineClient == {"name", "taxId", "address", "city", "zip", "phone", "mobile", "country"}
ClientFields == InlineClient \cup {"id", "add", "emails"}

\* Income and payment rows are "none", "rows" or "bad".
IncomeRow == {"description", "quantity", "price", "currency", "vatType", "catalogNum"}
PaymentRow == {"date", "type", "price", "currency", "bankName", "bankBranch", "bankAccount",
               "chequeNum", "transactionId", "cardNum", "accountId", "cardType", "dealType",
               "numPayments", "firstPayment", "appType"}

ClientTaken(client) == IF Has(client, "id") THEN {"id", "name"} ELSE InlineClient

ClientAccepted(client, emailing) ==
  /\ Has(client, "id") \/ Has(client, "name")
  /\ Good(Only(client, ClientTaken(client)))
  /\ emailing => Has(client, "emails") /\ client["emails"] # "bad"

\* Mutant: an inline client is kept whenever it is asked for, on a draft too.
ClientBlockKept(client, emailing, issuing) ==
  [taken  |-> Only(client, ClientTaken(client)),
   add    |-> ~Has(client, "id") /\ Literally(client, "add"),
   emails |-> IF emailing THEN client["emails"] ELSE "none"]

\* Adding the client and mailing it are side effects: only the literal true
\* asks for them, and only on an issue.
ClientBlock(client, emailing, issuing) ==
  [taken  |-> Only(client, ClientTaken(client)),
   add    |-> issuing /\ ~Has(client, "id") /\ Literally(client, "add"),
   emails |-> IF emailing THEN client["emails"] ELSE "none"]

Emailing(doc, issuing) == issuing /\ doc.email_to_client = "true"

DocumentAccepted(doc, issuing) ==
  /\ doc.type \in IF issuing THEN ISSUABLE_DOCUMENT_TYPES ELSE DRAFTABLE_DOCUMENT_TYPES
  /\ ClientAccepted(doc.client, Emailing(doc, issuing))
  /\ Good(doc.texts)
  /\ doc.income = "rows" \/ (doc.income = "none" /\ doc.type \in INCOME_OPTIONAL_TYPES)
  /\ doc.payment = (IF doc.type \in PAYMENT_REQUIRED_TYPES THEN "rows" ELSE "none")

\* The body of POST /documents/preview or, issuing, of POST /documents.
DocumentBody(doc, issuing) ==
  [type    |-> doc.type,
   client  |-> ClientBlock(doc.client, Emailing(doc, issuing), issuing),
   texts   |-> Only(doc.texts, DocumentTexts),
   income  |-> doc.income,
   payment |-> doc.payment]

-----------------------------------------------------------------------------
(* Clients, suppliers and expenses.                                        *)

ClientWrite == InlineClient \cup {"fax", "emails"}
SupplierWrite == ClientWrite \cup {"contactPerson", "accountingKey", "department"}
SupplierRemarks == SupplierWrite \cup {"remarks"}

SupplierTaken(supplier) == IF Has(supplier, "id") THEN {"id", "name"} ELSE SupplierWrite

SupplierAccepted(supplier) ==
  /\ Has(supplier, "id") \/ Has(supplier, "name")
  /\ Good(Only(supplier, SupplierTaken(supplier)))

ClassificationFields == {"id", "key", "code", "title", "irsCode", "type"}

ExpenseTexts == {"documentType", "amount", "currency", "vat", "vatType", "currencyRate",
                 "paymentType", "date", "dueDate", "reportingDate", "number", "description",
                 "remarks"}
ExpenseFields == ExpenseTexts \cup {"supplier", "accountingClassification"}

ExpenseAccepted(expense) ==
  /\ Has(expense.texts, "amount")
  /\ Good(Only(expense.texts, ExpenseTexts))
  /\ SupplierAccepted(expense.supplier)

\* The body of POST /expenses. No argument reaches its status: it is open.
ExpenseBody(expense) ==
  [texts    |-> Only(expense.texts, ExpenseTexts),
   supplier |-> Only(expense.supplier, SupplierTaken(expense.supplier))]

UploadFields == {"filename", "content_type", "byte_len"}

Paging == {"page", "pageSize"}
DocumentSearch == {"type", "status", "fromDate", "toDate", "clientId", "text"} \cup Paging
ClientSearch == {"name", "taxId", "email", "text", "active"} \cup Paging
ExpenseSearch == {"supplierId", "supplierName", "number", "fromDate", "toDate", "minAmount",
                  "maxAmount", "description", "accountingClassificationId", "paid",
                  "reported"} \cup Paging
DraftSearch == {"supplierId", "supplierName", "fromDate", "toDate", "description"} \cup Paging
SupplierSearch == {"name", "email", "contactPerson", "active"} \cup Paging

\* By operation, the fields it looks at and those it refuses to do without.
ById == [takes |-> {"id"}, needs |-> {"id"}]
Searching(fields) == [takes |-> fields, needs |-> {}]

DocumentPlans ==
  [draft_invoice |-> [takes |-> DocumentFields, needs |-> {"type", "client"}],
   issue_invoice |-> [takes |-> DocumentFields \cup {"email_to_client", "confirm"},
                     needs |-> {"type", "client", "confirm"}],
   get_document |-> ById,
   search_documents |-> Searching(DocumentSearch),
   document_download_links |-> ById]

ClientPlans ==
  [create_client |-> [takes |-> ClientWrite, needs |-> {"name"}],
   update_client |-> [takes |-> ClientWrite \cup {"id"}, needs |-> {"id", "name"}],
   get_client |-> ById,
   search_clients |-> Searching(ClientSearch)]

ExpensePlans ==
  [create_expense |-> [takes |-> ExpenseFields, needs |-> {"amount", "supplier"}],
   get_expense |-> ById,
   search_expenses |-> Searching(ExpenseSearch),
   delete_expense |-> ById,
   close_expense |-> [takes |-> {"id", "confirm"}, needs |-> {"id", "confirm"}],
   upload_expense_file |-> [takes |-> UploadFields, needs |-> UploadFields],
   search_expense_drafts |-> Searching(DraftSearch),
   create_supplier |-> [takes |-> SupplierRemarks, needs |-> {"name"}],
   search_suppliers |-> Searching(SupplierSearch),
   get_classifications |-> Searching({}),
   quota |-> Searching({})]

\* Two tables as one.
Joined(f, g) == [x \in DOMAIN f \cup DOMAIN g |-> IF x \in DOMAIN f THEN f[x] ELSE g[x]]

Plan == Joined(Joined(DocumentPlans, ClientPlans), ExpensePlans)

-----------------------------------------------------------------------------
(* The tools: what each schema offers and what it requires.                *)

OfferedClient == {"id", "name", "emails", "taxId", "address", "city", "zip", "country",
                  "phone", "mobile", "add"}
OfferedIncomeRow == {"description", "quantity", "price", "currency", "vatType", "catalogNum"}
OfferedPaymentRow == {"date", "type", "price", "currency", "bankName", "bankBranch",
                      "bankAccount", "chequeNum", "transactionId", "cardType", "cardNum",
                      "numPayments", "appType"}
OfferedDocument == {"type", "client", "income", "payment", "currency", "vatType", "lang",
                    "date", "dueDate", "description", "remarks", "footer", "linkedDocumentId"}
OfferedClientWrite == {"name", "emails", "taxId", "address", "city", "zip", "country",
                       "phone", "mobile", "fax"}
OfferedSupplier == {"id", "name", "taxId", "emails", "address", "city", "zip", "country",
                    "phone", "mobile", "contactPerson"}
OfferedClassification == {"id", "key", "code", "title"}
OfferedSupplierWrite == OfferedClientWrite \cup {"contactPerson", "accountingKey",
                                                 "department", "remarks"}
OfferedExpense == {"documentType", "amount", "vat", "vatType", "currency", "currencyRate",
                   "paymentType", "date", "dueDate", "reportingDate", "number", "description",
                   "remarks", "supplier", "accountingClassification"}
OfferedExpenseSearch == {"supplierId", "supplierName", "number", "fromDate", "toDate",
                         "minAmount", "maxAmount", "description",
                         "accountingClassificationId", "paid", "reported"} \cup Paging

\* By tool, the arguments it offers and those it requires.
IdTool == [offers |-> {"id"}, requires |-> {"id"}]
SearchTool(fields) == [offers |-> fields, requires |-> {}]

DocumentTools ==
  [draft_invoice |-> [offers |-> OfferedDocument, requires |-> {"type", "client", "income"}],
   issue_invoice |-> [offers |-> OfferedDocument \cup {"email_to_client", "confirm"},
                     requires |-> {"type", "client", "income", "confirm"}],
   get_document |-> IdTool,
   search_documents |->
     SearchTool({"type", "status", "fromDate", "toDate", "clientId", "text"} \cup Paging),
   document_download_links |-> IdTool]

ClientTools ==
  [create_client |-> [offers |-> OfferedClientWrite, requires |-> {"name"}],
   update_client |-> [offers |-> OfferedClientWrite \cup {"id"}, requires |-> {"id", "name"}],
   get_client |-> IdTool,
   search_clients |-> SearchTool({"name", "taxId", "email", "text"} \cup Paging),
   quota |-> SearchTool({})]

\* Mutant: the report to tax no longer asks for the confirmation.
ExpenseToolsUnconfirmed ==
  [upload_expense_file |-> [offers |-> {"path"}, requires |-> {"path"}],
   create_expense |-> [offers |-> OfferedExpense, requires |-> {"amount", "supplier"}],
   search_expenses |-> SearchTool(OfferedExpenseSearch),
   get_expense |-> IdTool,
   delete_expense |-> IdTool,
   close_expense |-> IdTool,
   search_expense_drafts |->
     SearchTool({"supplierId", "supplierName", "fromDate", "toDate", "description"} \cup Paging)]

ExpenseTools ==
  [upload_expense_file |-> [offers |-> {"path"}, requires |-> {"path"}],
   create_expense |-> [offers |-> OfferedExpense, requires |-> {"amount", "supplier"}],
   search_expenses |-> SearchTool(OfferedExpenseSearch),
   get_expense |-> IdTool,
   delete_expense |-> IdTool,
   close_expense |-> [offers |-> {"id", "confirm"}, requires |-> {"id", "confirm"}],
   search_expense_drafts |->
     SearchTool({"supplierId", "supplierName", "fromDate", "toDate", "description"} \cup Paging)]

SupplierTools ==
  [create_supplier |-> [offers |-> OfferedSupplierWrite, requires |-> {"name"}],
   search_suppliers |->
     SearchTool({"name", "email", "contactPerson", "active"} \cup Paging),
   get_classifications |-> SearchTool({})]

Tools == Joined(Joined(DocumentTools, ClientTools), Joined(ExpenseTools, SupplierTools))

\* gi_upload_expense_file gives the fields of the operation itself, from the
\* file the path leads to; the other handlers pass their arguments on.
Forwarded(op, fields) == IF op = "upload_expense_file" THEN UploadFields ELSE fields

-----------------------------------------------------------------------------
\* There is a tool for each operation; what it offers its operation takes and
\* never drops, and what its operation cannot do without the tool requires, so
\* that a call of the form the agent was shown is refused for its values alone
\* (schemas.py, handler.py of the plugin and of the broker).
ToolFits(op) ==
  /\ op \in DOMAIN Tools /\ op \in DOMAIN Plan
  /\ Forwarded(op, Tools[op].offers) \subseteq Plan[op].takes
  /\ Plan[op].needs \subseteq Forwarded(op, Tools[op].requires)
  /\ OfferedClient \subseteq ClientFields
  /\ OfferedIncomeRow \subseteq IncomeRow
  /\ OfferedPaymentRow \subseteq PaymentRow
  /\ OfferedSupplier \subseteq SupplierWrite \cup {"id"}
  /\ OfferedClassification \subseteq ClassificationFields

\* What David saw in the preview is what an issue with the same arguments
\* makes: the same document but for the two side effects, which a draft
\* never has and an issue only on a literal true. Only a wish to mail a
\* client without addresses can refuse what was drafted (build_document).
DraftIsWhatIssues(doc) ==
  LET draft == DocumentBody(doc, FALSE)
      issue == DocumentBody(doc, TRUE)
      drafted == DocumentAccepted(doc, FALSE) /\ doc.type \in ISSUABLE_DOCUMENT_TYPES
      mailable == Has(doc.client, "emails") /\ doc.client["emails"] # "bad"
  IN /\ DocumentAccepted(doc, TRUE) <=>
          drafted /\ (doc.email_to_client = "true" => mailable)
     /\ DocumentAccepted(doc, TRUE) =>
          /\ issue = [draft EXCEPT !.client = issue.client]
          /\ issue.client.taken = draft.client.taken
          /\ issue.client.emails # "none" => doc.email_to_client = "true"
          /\ issue.client.add => Literally(doc.client, "add")
     /\ DocumentAccepted(doc, FALSE) =>
          ~draft.client.add /\ draft.client.emails = "none"
=============================================================================
