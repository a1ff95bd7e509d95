---------------------------- MODULE FrontProofs ----------------------------
(***************************************************************************)
(* What holds at both daemons' doors, at the expense gate for any number   *)
(* of calls and any payloads, of any document that is drafted and then     *)
(* issued, of every tool and its operation, in the spool of previews for   *)
(* any number of drafts, names and workers, and at the calendar relay for  *)
(* any address book, calls, backlog and daily limit.                       *)
(***************************************************************************)
EXTENDS MCFront, SocketDaemonProofs, FiniteSetTheorems, WellFoundedInduction, TLAPS

\* A set of naturals that is not empty has a least element.
LEMMA LeastOf ==
  ASSUME NEW S, S \subseteq Nat, S # {}
  PROVE  \E x \in S : \A y \in S : x <= y
<1> DEFINE T == {0 .. x : x \in S}
<1>1. T \subseteq FiniteSubsetsOf(Nat) /\ T # {}
  <2>1. ASSUME NEW x \in S PROVE 0 .. x \in FiniteSubsetsOf(Nat)
    BY FS_Interval DEF FiniteSubsetsOf
  <2>. QED BY <2>1
<1> HIDE DEF T
<1>2. PICK t \in T : \A u \in T : <<u, t>> \notin StrictSubsetOrdering(Nat)
  BY <1>1, WFMin, FS_StrictSubsetOrderingWellFounded
<1>3. PICK x \in S : t = 0 .. x
  BY DEF T
<1>4. ASSUME NEW y \in S, y < x PROVE FALSE
  <2>1. 0 .. y \in T
    BY DEF T
  <2>2. x \in 0 .. x /\ x \notin 0 .. y
    BY <1>4
  <2>3. 0 .. y \subseteq 0 .. x /\ 0 .. x \subseteq Nat
    BY <1>4
  <2>. QED BY <1>2, <1>3, <2>1, <2>2, <2>3 DEF StrictSubsetOrdering
<1>. QED BY <1>4


-----------------------------------------------------------------------------
(* The expense gate.                                                       *)

\* David said yes to this call's payload, in this call or for good, before a
\* summary of that payload.
Approved(c) ==
  \E y \in yeses :
    /\ y.payload = payload[c]
    /\ y.call = c \/ y.grain = "always"
    /\ y.saw = Summary(payload[c])

ConfirmShape ==
  /\ stage \in [ToolCall -> {"start", "asked", "run", "blocked", "denied", "sent",
                             "unreachable", "told"}]
  /\ DOMAIN payload = ToolCall
  /\ payload = [c \in ToolCall |-> payload[c]]
  /\ broker \in [ToolCall -> {"idle", "asked", "answered"}]
  /\ written \subseteq ToolCall

\* A key that is allowed is a payload that was shown and answered for good.
KeysAnswered ==
  \A k \in allowed :
    \E y \in yeses : y.payload = k /\ y.grain = "always" /\ y.saw = Summary(k)

\* Whoever runs was approved, and is not given another payload on the way.
CallsApproved ==
  \A c \in ToolCall :
    /\ stage[c] \in {"start", "asked"} => broker[c] = "idle"
    /\ broker[c] = "idle" => c \notin written
    /\ stage[c] = "run" \/ broker[c] # "idle" => Approved(c)
    /\ c \in written => ExpenseAccepted(payload[c])

GateInv == ConfirmShape /\ (enabled => KeysAnswered /\ CallsApproved)

\* What the summary shows of an accepted expense is what the body says.
LEMMA SummaryTellsBody ==
  ASSUME NEW p, ExpenseAccepted(p)
  PROVE  LET body == ExpenseBody(p)
             saw == Summary(p)
         IN /\ saw.shown["amount"] = body.texts["amount"]
            /\ IF Has(body.supplier, "id")
               THEN Has(saw.supplier, "id") /\ saw.supplier["id"] = body.supplier["id"]
               ELSE saw.supplier["name"] = body.supplier["name"]
<1>1. "amount" \in DOMAIN p.texts
  BY DEF ExpenseAccepted, Has
<1>2. Summary(p).shown["amount"] = p.texts["amount"]
  BY <1>1 DEF Summary, Only
<1>3. ExpenseBody(p).texts["amount"] = p.texts["amount"]
  BY <1>1 DEF ExpenseBody, ExpenseTexts, Only
<1>4. CASE "id" \in DOMAIN p.supplier
  <2>1. /\ "id" \in DOMAIN ExpenseBody(p).supplier
        /\ ExpenseBody(p).supplier["id"] = p.supplier["id"]
    BY <1>4 DEF ExpenseBody, SupplierTaken, Only, Has
  <2>2. /\ "id" \in DOMAIN Summary(p).supplier
        /\ Summary(p).supplier["id"] = p.supplier["id"]
    BY <1>4 DEF Summary, SupplierLine, Only, Has
  <2>. QED BY <1>2, <1>3, <2>1, <2>2 DEF Has
<1>5. CASE "id" \notin DOMAIN p.supplier
  <2>1. "name" \in DOMAIN p.supplier
    BY <1>5 DEF ExpenseAccepted, SupplierAccepted, Has
  <2>2. /\ "id" \notin DOMAIN ExpenseBody(p).supplier
        /\ ExpenseBody(p).supplier["name"] = p.supplier["name"]
    BY <1>5, <2>1 DEF ExpenseBody, SupplierTaken, SupplierWrite, ClientWrite, InlineClient,
                      Only, Has
  <2>3. Summary(p).supplier["name"] = p.supplier["name"]
    BY <1>5, <2>1 DEF Summary, SupplierLine, Only, Has
  <2>. QED BY <1>2, <1>3, <2>2, <2>3 DEF Has
<1>. QED BY <1>4, <1>5

LEMMA GateGivesConfirmed == GateInv => ConfirmedAsWritten
<1> SUFFICES ASSUME GateInv, enabled, NEW c \in written
             PROVE  \E y \in yeses :
                      LET body == ExpenseBody(payload[c])
                      IN /\ y.payload = payload[c]
                         /\ y.call = c \/ y.grain = "always"
                         /\ y.saw.shown["amount"] = body.texts["amount"]
                         /\ IF Has(body.supplier, "id")
                            THEN Has(y.saw.supplier, "id")
                                   /\ y.saw.supplier["id"] = body.supplier["id"]
                            ELSE y.saw.supplier["name"] = body.supplier["name"]
  BY DEF ConfirmedAsWritten
<1>1. c \in ToolCall
  BY DEF GateInv, ConfirmShape
<1>2. Approved(c) /\ ExpenseAccepted(payload[c])
  BY <1>1 DEF GateInv, CallsApproved
<1>3. PICK y \in yeses : /\ y.payload = payload[c]
                         /\ y.call = c \/ y.grain = "always"
                         /\ y.saw = Summary(payload[c])
  BY <1>2 DEF Approved
<1>. QED BY <1>2, <1>3, SummaryTellsBody

LEMMA GateInit == ConfirmInit => GateInv
BY DEF ConfirmInit, GateInv, ConfirmShape, KeysAnswered, CallsApproved

LEMMA GateStep == GateInv /\ [ConfirmNext]_confirmVars => GateInv'
<1> SUFFICES ASSUME GateInv, [ConfirmNext]_confirmVars PROVE GateInv'
  OBVIOUS
<1> USE DEF GateInv, ConfirmShape
<1>1. CASE UNCHANGED confirmVars
  BY <1>1 DEF confirmVars, KeysAnswered, CallsApproved, Approved
<1>2. CASE Register
  BY <1>2 DEF Register, KeysAnswered, CallsApproved, Approved
<1>3. ASSUME NEW c \in ToolCall, PreToolCall(c) PROVE GateInv'
  <2>0. /\ stage[c] = "start" /\ stage' = [stage EXCEPT ![c] = stage'[c]]
        /\ UNCHANGED <<enabled, plugin, allowed, yeses, broker, written>>
    BY <1>3 DEF PreToolCall, Block
  <2>1. PICK p \in Payload :
          /\ payload' = [payload EXCEPT ![c] = p]
          /\ \/ stage' = [stage EXCEPT ![c] =
                     IF ~enabled \/ PayloadKey(p) \in allowed THEN "run" ELSE "asked"]
             \/ stage' = [stage EXCEPT ![c] = "blocked"]
    BY <1>3 DEF PreToolCall, Block
  <2>2. ConfirmShape'
    BY <2>0, <2>1
  <2>3. ASSUME enabled' PROVE (KeysAnswered /\ CallsApproved)'
    <3>1. enabled /\ KeysAnswered /\ CallsApproved
      BY <2>0, <2>3
    <3>2. KeysAnswered'
      BY <2>0, <3>1 DEF KeysAnswered
    <3>3. ASSUME NEW d \in ToolCall, d # c
          PROVE  /\ stage'[d] \in {"start", "asked"} => broker'[d] = "idle"
                 /\ broker'[d] = "idle" => d \notin written'
                 /\ stage'[d] = "run" \/ broker'[d] # "idle" => Approved(d)'
                 /\ d \in written' => ExpenseAccepted(payload'[d])
      BY <2>0, <2>1, <3>1, <3>3 DEF CallsApproved, Approved
    <3>4. broker'[c] = "idle" /\ c \notin written'
      BY <2>0, <3>1 DEF CallsApproved
    <3>5. stage'[c] = "run" => Approved(c)'
      <4>1. SUFFICES ASSUME stage'[c] = "run" PROVE Approved(c)'
        OBVIOUS
      <4>2. payload'[c] = p /\ p \in allowed
        BY <2>1, <3>1, <4>1 DEF PayloadKey
      <4>3. PICK y \in yeses : y.payload = p /\ y.grain = "always" /\ y.saw = Summary(p)
        BY <3>1, <4>2 DEF KeysAnswered
      <4>. QED BY <2>0, <4>2, <4>3 DEF Approved
    <3>6. CallsApproved'
      BY <3>3, <3>4, <3>5 DEF CallsApproved
    <3>. QED BY <3>2, <3>6
  <2>. QED BY <2>2, <2>3
<1>4. ASSUME NEW c \in ToolCall, David(c) PROVE GateInv'
  <2>1. /\ stage[c] = "asked" /\ UNCHANGED <<enabled, plugin, payload, broker, written>>
        /\ yeses \subseteq yeses'
        /\ stage' = [stage EXCEPT ![c] = "run"] \/ stage' = [stage EXCEPT ![c] = "denied"]
    BY <1>4 DEF David, Yes
  <2>2. ConfirmShape'
    BY <2>1
  <2> DEFINE said(grain) == [call |-> c, payload |-> payload[c],
                             saw |-> Summary(payload[c]), grain |-> grain]
  <2>a. \/ said("once") \in yeses' /\ allowed' = allowed
        \/ said("always") \in yeses' /\ allowed' = allowed \cup {payload[c]}
        \/ stage'[c] = "denied" /\ allowed' = allowed
    BY <1>4 DEF David, Yes, PayloadKey
  <2>b. \A grain : /\ said(grain).call = c /\ said(grain).payload = payload[c]
                   /\ said(grain).saw = Summary(payload[c]) /\ said(grain).grain = grain
    OBVIOUS
  <2> HIDE DEF said
  <2>3. stage'[c] = "run" =>
          \E y \in yeses' : y.payload = payload[c] /\ y.call = c /\ y.saw = Summary(payload[c])
    BY <2>a, <2>b
  <2>4. \A k \in allowed' : k \in allowed
           \/ \E y \in yeses' : y.payload = k /\ y.grain = "always" /\ y.saw = Summary(k)
    BY <2>a, <2>b
  <2>5. ASSUME enabled' PROVE (KeysAnswered /\ CallsApproved)'
    <3>1. enabled /\ KeysAnswered /\ CallsApproved
      BY <2>1, <2>5
    <3>2. KeysAnswered'
      BY <2>1, <2>4, <3>1 DEF KeysAnswered
    <3>3. \A d \in ToolCall : Approved(d) => Approved(d)'
      BY <2>1 DEF Approved
    <3>4. stage'[c] = "run" => Approved(c)'
      BY <2>1, <2>3 DEF Approved
    <3>5. CallsApproved'
      BY <2>1, <3>1, <3>3, <3>4 DEF CallsApproved
    <3>. QED BY <3>2, <3>5
  <2>. QED BY <2>2, <2>5
<1>5. ASSUME NEW c \in ToolCall, Dispatch(c) PROVE GateInv'
  <2>1. /\ stage[c] = "run" /\ UNCHANGED <<enabled, plugin, payload, allowed, yeses, written>>
        /\ \/ stage' = [stage EXCEPT ![c] = "sent"] /\ broker' = [broker EXCEPT ![c] = "asked"]
           \/ stage' = [stage EXCEPT ![c] = "unreachable"] /\ broker' = broker
    BY <1>5 DEF Dispatch
  <2>2. ConfirmShape'
    BY <2>1
  <2>3. enabled' => KeysAnswered'
    BY <2>1 DEF KeysAnswered
  <2>4. \A d \in ToolCall : Approved(d)' <=> Approved(d)
    BY <2>1 DEF Approved
  <2>5. enabled' => CallsApproved'
    BY <2>1, <2>4 DEF CallsApproved
  <2>. QED BY <2>2, <2>3, <2>5
<1>6. ASSUME NEW c \in ToolCall, CreateExpense(c) PROVE GateInv'
  <2>1. /\ broker[c] = "asked" /\ broker' = [broker EXCEPT ![c] = "answered"]
        /\ UNCHANGED <<enabled, plugin, stage, payload, allowed, yeses>>
        /\ written' = written \/ (ExpenseAccepted(payload[c]) /\ written' = written \cup {c})
    BY <1>6 DEF CreateExpense
  <2>2. ConfirmShape'
    BY <2>1
  <2>3. enabled' => KeysAnswered'
    BY <2>1 DEF KeysAnswered
  <2>4. \A d \in ToolCall : Approved(d)' <=> Approved(d)
    BY <2>1 DEF Approved
  <2>5. enabled' => CallsApproved'
    BY <2>1, <2>4 DEF CallsApproved
  <2>. QED BY <2>2, <2>3, <2>5
<1>7. ASSUME NEW c \in ToolCall, Return(c) PROVE GateInv'
  <2>1. /\ stage[c] = "sent" /\ UNCHANGED <<enabled, plugin, payload, allowed, yeses, broker, written>>
        /\ stage' = [stage EXCEPT ![c] = "told"] \/ stage' = [stage EXCEPT ![c] = "unreachable"]
    BY <1>7 DEF Return
  <2>2. ConfirmShape'
    BY <2>1
  <2>3. enabled' => KeysAnswered'
    BY <2>1 DEF KeysAnswered
  <2>4. \A d \in ToolCall : Approved(d)' <=> Approved(d)
    BY <2>1 DEF Approved
  <2>5. enabled' => CallsApproved'
    BY <2>1, <2>4 DEF CallsApproved
  <2>. QED BY <2>2, <2>3, <2>5
<1>. QED BY <1>1, <1>2, <1>3, <1>4, <1>5, <1>6, <1>7 DEF ConfirmNext

\* Whatever is called side by side, with whatever payloads: with the gate on,
\* an expense is only written after a yes to that very payload, whose summary
\* named its supplier and its amount.
THEOREM OnlyConfirmedWritten == ConfirmSpec => []ConfirmedAsWritten
<1>. QED BY GateInit, GateStep, GateGivesConfirmed, PTL DEF ConfirmSpec

-----------------------------------------------------------------------------
(* Documents.                                                              *)

LEMMA DraftThenIssue ==
  ASSUME NEW doc
  PROVE  DraftIsWhatIssues(doc)
<1> DEFINE draft == DocumentBody(doc, FALSE)
           issue == DocumentBody(doc, TRUE)
           drafted == DocumentAccepted(doc, FALSE) /\ doc.type \in ISSUABLE_DOCUMENT_TYPES
           mailable == Has(doc.client, "emails") /\ doc.client["emails"] # "bad"
<1>1. DocumentAccepted(doc, TRUE) <=> drafted /\ (doc.email_to_client = "true" => mailable)
  BY DEF DocumentAccepted, ClientAccepted, Emailing, DRAFTABLE_DOCUMENT_TYPES
<1>2. ~draft.client.add /\ draft.client.emails = "none"
  BY DEF DocumentBody, ClientBlock, Emailing
<1>3. /\ issue.client.taken = draft.client.taken
      /\ issue.client.emails # "none" => doc.email_to_client = "true"
      /\ issue.client.add => Literally(doc.client, "add")
  BY DEF DocumentBody, ClientBlock, Emailing
<1>4. issue = [draft EXCEPT !.client = issue.client]
  <2> DEFINE block(issuing) == ClientBlock(doc.client, Emailing(doc, issuing), issuing)
             texts == Only(doc.texts, DocumentTexts)
             body(given) == [type |-> doc.type, client |-> given, texts |-> texts,
                              income |-> doc.income, payment |-> doc.payment]
  <2>1. draft = body(block(FALSE)) /\ issue = body(block(TRUE))
    BY DEF DocumentBody
  <2>2. \A c, d : body(d) = [body(c) EXCEPT !.client = body(d).client]
    <3> HIDE DEF texts
    <3>. QED OBVIOUS
  <2> HIDE DEF draft, issue, body, block
  <2>. QED BY <2>1, <2>2
<1>. QED BY <1>1, <1>2, <1>3, <1>4 DEF DraftIsWhatIssues

\* Whatever a document's arguments are, an issue makes what the draft showed,
\* refuses nothing that was drafted but a wish to mail a client without
\* addresses, and has a side effect only on a literal true (build_document).
THEOREM DraftsAreIssued == (\A doc : DraftIsWhatIssues(doc)) /\ []IssuedAsDrafted
<1>1. \A doc : DraftIsWhatIssues(doc)
  BY DraftThenIssue
<1>2. IssuedAsDrafted
  BY <1>1 DEF IssuedAsDrafted
<1>. QED BY <1>1, <1>2, PTL

-----------------------------------------------------------------------------
(* The tools and the operations, each table's rows by the programs' groups. *)

DocumentOps == {"draft_invoice", "issue_invoice", "get_document", "search_documents",
                "document_download_links"}
ClientOps == {"create_client", "update_client", "get_client", "search_clients"}
ExpenseOps == {"upload_expense_file", "create_expense", "search_expenses", "get_expense",
               "delete_expense", "close_expense", "search_expense_drafts"}
SupplierOps == {"create_supplier", "search_suppliers", "get_classifications"}
AllOps == DocumentOps \cup ClientOps \cup ExpenseOps \cup SupplierOps \cup {"quota"}

\* Which operation has its row where.
LEMMA PlanRows ==
  /\ DOMAIN Plan = AllOps
  /\ \A o \in DocumentOps : Plan[o] = DocumentPlans[o]
  /\ \A o \in ClientOps : Plan[o] = ClientPlans[o]
  /\ \A o \in ExpenseOps \cup SupplierOps \cup {"quota"} : Plan[o] = ExpensePlans[o]
<1>1. /\ DOMAIN DocumentPlans = DocumentOps
      /\ DOMAIN ClientPlans = ClientOps
      /\ DOMAIN ExpensePlans = ExpenseOps \cup SupplierOps \cup {"quota"}
  BY DEF DocumentPlans, ClientPlans, ExpensePlans, DocumentOps, ClientOps, ExpenseOps, SupplierOps
<1>2. /\ DocumentOps \cap ClientOps = {}
      /\ (DocumentOps \cup ClientOps) \cap (ExpenseOps \cup SupplierOps \cup {"quota"}) = {}
  BY DEF DocumentOps, ClientOps, ExpenseOps, SupplierOps
<1> DEFINE first == Joined(DocumentPlans, ClientPlans)
<1>3. /\ DOMAIN first = DocumentOps \cup ClientOps
      /\ \A o \in DocumentOps : first[o] = DocumentPlans[o]
      /\ \A o \in ClientOps : first[o] = ClientPlans[o]
  BY <1>1, <1>2 DEF Joined
<1> HIDE DEF first
<1>4. Plan = Joined(first, ExpensePlans)
  BY DEF Plan, first
<1>. QED BY <1>1, <1>2, <1>3, <1>4 DEF Joined, AllOps

LEMMA ToolRows ==
  /\ DOMAIN Tools = AllOps
  /\ \A o \in DocumentOps : Tools[o] = DocumentTools[o]
  /\ \A o \in ClientOps \cup {"quota"} : Tools[o] = ClientTools[o]
  /\ \A o \in ExpenseOps : Tools[o] = ExpenseTools[o]
  /\ \A o \in SupplierOps : Tools[o] = SupplierTools[o]
<1>1. /\ DOMAIN DocumentTools = DocumentOps
      /\ DOMAIN ClientTools = ClientOps \cup {"quota"}
      /\ DOMAIN ExpenseTools = ExpenseOps
      /\ DOMAIN SupplierTools = SupplierOps
  BY DEF DocumentTools, ClientTools, ExpenseTools, SupplierTools, DocumentOps, ClientOps,
         ExpenseOps, SupplierOps
<1>2. /\ DocumentOps \cap (ClientOps \cup {"quota"}) = {} /\ ExpenseOps \cap SupplierOps = {}
      /\ (DocumentOps \cup ClientOps \cup {"quota"}) \cap (ExpenseOps \cup SupplierOps) = {}
  BY DEF DocumentOps, ClientOps, ExpenseOps, SupplierOps
<1> DEFINE first == Joined(DocumentTools, ClientTools)
           second == Joined(ExpenseTools, SupplierTools)
<1>3. /\ DOMAIN first = DocumentOps \cup ClientOps \cup {"quota"}
      /\ \A o \in DocumentOps : first[o] = DocumentTools[o]
      /\ \A o \in ClientOps \cup {"quota"} : first[o] = ClientTools[o]
  BY <1>1, <1>2 DEF Joined
<1>4. /\ DOMAIN second = ExpenseOps \cup SupplierOps
      /\ \A o \in ExpenseOps : second[o] = ExpenseTools[o]
      /\ \A o \in SupplierOps : second[o] = SupplierTools[o]
  BY <1>1, <1>2 DEF Joined
<1> HIDE DEF first, second
<1>5. Tools = Joined(first, second)
  BY DEF Tools, first, second
<1>. QED BY <1>1, <1>2, <1>3, <1>4, <1>5 DEF Joined, AllOps

\* The row of a tool against the row of its operation.
RowFits(o, tool, plan) ==
  /\ Forwarded(o, tool.offers) \subseteq plan.takes
  /\ plan.needs \subseteq Forwarded(o, tool.requires)

LEMMA DocumentRowsFit == \A o \in DocumentOps : RowFits(o, DocumentTools[o], DocumentPlans[o])
<1>1. RowFits("draft_invoice", DocumentTools["draft_invoice"], DocumentPlans["draft_invoice"])
  BY DEF RowFits, Forwarded, DocumentTools, DocumentPlans, OfferedDocument, DocumentFields,
         DocumentTexts
<1>2. RowFits("issue_invoice", DocumentTools["issue_invoice"], DocumentPlans["issue_invoice"])
  BY DEF RowFits, Forwarded, DocumentTools, DocumentPlans, OfferedDocument, DocumentFields,
         DocumentTexts
<1>3. RowFits("search_documents", DocumentTools["search_documents"],
              DocumentPlans["search_documents"])
  BY DEF RowFits, Forwarded, DocumentTools, DocumentPlans, SearchTool, Searching, DocumentSearch
<1>4. \A o \in {"get_document", "document_download_links"} :
        RowFits(o, DocumentTools[o], DocumentPlans[o])
  BY DEF RowFits, Forwarded, DocumentTools, DocumentPlans, IdTool, ById
<1>. QED BY <1>1, <1>2, <1>3, <1>4 DEF DocumentOps

LEMMA ClientRowsFit == \A o \in ClientOps : RowFits(o, ClientTools[o], ClientPlans[o])
<1>1. \A o \in {"create_client", "update_client"} : RowFits(o, ClientTools[o], ClientPlans[o])
  BY DEF RowFits, Forwarded, ClientTools, ClientPlans, OfferedClientWrite, ClientWrite, InlineClient
<1>2. RowFits("get_client", ClientTools["get_client"], ClientPlans["get_client"])
  BY DEF RowFits, Forwarded, ClientTools, ClientPlans, IdTool, ById
<1>3. RowFits("search_clients", ClientTools["search_clients"], ClientPlans["search_clients"])
  BY DEF RowFits, Forwarded, ClientTools, ClientPlans, SearchTool, Searching, ClientSearch
<1>. QED BY <1>1, <1>2, <1>3 DEF ClientOps

LEMMA ExpenseRowsFit == \A o \in ExpenseOps : RowFits(o, ExpenseTools[o], ExpensePlans[o])
<1>1. RowFits("create_expense", ExpenseTools["create_expense"], ExpensePlans["create_expense"])
  BY DEF RowFits, Forwarded, ExpenseTools, ExpensePlans, OfferedExpense, ExpenseFields, ExpenseTexts
<1>2. RowFits("search_expenses", ExpenseTools["search_expenses"], ExpensePlans["search_expenses"])
  BY DEF RowFits, Forwarded, ExpenseTools, ExpensePlans, SearchTool, Searching,
         OfferedExpenseSearch, ExpenseSearch
<1>3. RowFits("search_expense_drafts", ExpenseTools["search_expense_drafts"],
              ExpensePlans["search_expense_drafts"])
  BY DEF RowFits, Forwarded, ExpenseTools, ExpensePlans, SearchTool, Searching, DraftSearch
<1>4. \A o \in {"get_expense", "delete_expense"} : RowFits(o, ExpenseTools[o], ExpensePlans[o])
  BY DEF RowFits, Forwarded, ExpenseTools, ExpensePlans, IdTool, ById
<1>5. \A o \in {"close_expense", "upload_expense_file"} :
        RowFits(o, ExpenseTools[o], ExpensePlans[o])
  BY DEF RowFits, Forwarded, ExpenseTools, ExpensePlans, UploadFields
<1>. QED BY <1>1, <1>2, <1>3, <1>4, <1>5 DEF ExpenseOps

LEMMA SupplierRowsFit == \A o \in SupplierOps : RowFits(o, SupplierTools[o], ExpensePlans[o])
<1>1. RowFits("create_supplier", SupplierTools["create_supplier"], ExpensePlans["create_supplier"])
  BY DEF RowFits, Forwarded, SupplierTools, ExpensePlans, OfferedSupplierWrite, OfferedClientWrite,
         SupplierRemarks, SupplierWrite, ClientWrite, InlineClient
<1>2. RowFits("search_suppliers", SupplierTools["search_suppliers"],
              ExpensePlans["search_suppliers"])
  BY DEF RowFits, Forwarded, SupplierTools, ExpensePlans, SearchTool, Searching, SupplierSearch
<1>3. RowFits("get_classifications", SupplierTools["get_classifications"],
              ExpensePlans["get_classifications"])
  BY DEF RowFits, Forwarded, SupplierTools, ExpensePlans, SearchTool, Searching
<1>. QED BY <1>1, <1>2, <1>3 DEF SupplierOps

LEMMA QuotaRowFits == RowFits("quota", ClientTools["quota"], ExpensePlans["quota"])
  BY DEF RowFits, Forwarded, ClientTools, ExpensePlans, SearchTool, Searching

\* What is inside a document or an expense: the client, its rows, the supplier.
LEMMA InnerFieldsFit ==
  /\ OfferedClient \subseteq ClientFields
  /\ OfferedIncomeRow \subseteq IncomeRow
  /\ OfferedPaymentRow \subseteq PaymentRow
  /\ OfferedSupplier \subseteq SupplierWrite \cup {"id"}
  /\ OfferedClassification \subseteq ClassificationFields
<1>1. OfferedClient \subseteq ClientFields
  BY DEF OfferedClient, ClientFields, InlineClient
<1>2. OfferedIncomeRow \subseteq IncomeRow
  BY DEF OfferedIncomeRow, IncomeRow
<1>3. OfferedPaymentRow \subseteq PaymentRow
  BY DEF OfferedPaymentRow, PaymentRow
<1>4. OfferedSupplier \subseteq SupplierWrite \cup {"id"}
  BY DEF OfferedSupplier, SupplierWrite, ClientWrite, InlineClient
<1>5. OfferedClassification \subseteq ClassificationFields
  BY DEF OfferedClassification, ClassificationFields
<1>. QED BY <1>1, <1>2, <1>3, <1>4, <1>5

\* The agent has a tool for every operation of the broker and no other, offers
\* nothing an operation would drop, and requires what it cannot do without
\* (schemas.py, validate.py): in every state of the front, and for every
\* operation, whichever is looked at.
THEOREM EveryToolFits ==
  /\ DOMAIN Tools = DOMAIN Plan
  /\ \A o \in DOMAIN Plan : ToolFits(o)
  /\ Spec => []ToolsFit
<1>1. DOMAIN Tools = AllOps /\ DOMAIN Plan = AllOps
  BY PlanRows, ToolRows
<1>2. ASSUME NEW o \in AllOps PROVE RowFits(o, Tools[o], Plan[o])
  <2>1. CASE o \in DocumentOps
    BY <2>1, PlanRows, ToolRows, DocumentRowsFit
  <2>2. CASE o \in ClientOps
    BY <2>2, PlanRows, ToolRows, ClientRowsFit
  <2>3. CASE o \in ExpenseOps
    BY <2>3, PlanRows, ToolRows, ExpenseRowsFit
  <2>4. CASE o \in SupplierOps
    BY <2>4, PlanRows, ToolRows, SupplierRowsFit
  <2>5. CASE o = "quota"
    BY <2>5, PlanRows, ToolRows, QuotaRowFits
  <2>. QED BY <2>1, <2>2, <2>3, <2>4, <2>5 DEF AllOps
<1>3. \A o \in AllOps : ToolFits(o)
  BY <1>1, <1>2, InnerFieldsFit DEF RowFits, ToolFits
<1> DEFINE Looked == subject = "tools" => op \in AllOps
<1>4. Init => Looked
  BY <1>1 DEF Init
<1>5. Looked /\ [Next]_vars => Looked'
  BY DEF Next, vars
<1>6. Looked => ToolsFit
  BY <1>3 DEF ToolsFit
<1>7. Spec => []ToolsFit
  BY <1>4, <1>5, <1>6, PTL DEF Spec
<1>. QED BY <1>1, <1>3, <1>7

-----------------------------------------------------------------------------
(* The spool of previews.                                                  *)

Opened(d) == touched[d] > 0
Existing == {f \in FileName : Exists(f)}
Started == {d \in Draft : step[d] # "start"}

\* Who took the file's name before or after: the drafts its path is shared with.
Shared(d) == \E e \in Draft \ {d} : FileOf[e] = FileOf[d] /\ Opened(e)
NoOlder(d) == {e \in Draft \ {d} : touched[e] >= born[d]}

\* The preview of a draft may be gone.
Lost(d) ==
  \/ now - born[d] > Retention
  \/ Shared(d)
  \/ Cardinality(NoOlder(d)) >= MaxFiles

SpoolShape ==
  /\ now \in Nat \ {0}
  /\ files \in [FileName -> [of : SUBSET Draft, mtime : Nat]]
  /\ step \in [Draft -> {"start", "expire", "unlink", "open", "write", "end"}]
  /\ listed = [d \in Draft |-> listed[d]]
  /\ \A d \in Draft : /\ DOMAIN listed[d] \subseteq FileName
                      /\ \A f \in DOMAIN listed[d] : listed[d][f] \in Nat
  /\ doomed \in [Draft -> SUBSET FileName]
  /\ born \in [Draft -> Nat]
  /\ touched \in [Draft -> Nat]
  /\ told \subseteq Draft
  /\ left = [d \in Draft |-> left[d]]
  /\ alone \subseteq Draft

TimesOf(d) ==
  /\ born[d] <= touched[d] /\ touched[d] <= now
  /\ Opened(d) => born[d] > 0
  /\ step[d] \in {"start", "expire", "unlink", "open"} => ~Opened(d)
  /\ step[d] = "write" \/ d \in told => Opened(d)
  /\ d \in told => step[d] = "end"

Times == IsFiniteSet(Started) /\ \A d \in Draft : TimesOf(d)

LEMMA SpoolShapeStarts == SpoolInit => SpoolShape /\ Times
<1> SUFFICES ASSUME SpoolInit PROVE SpoolShape /\ Times
  OBVIOUS
<1>1. \A d \in Draft : DOMAIN listed[d] = {}
  BY DEF SpoolInit
<1>2. SpoolShape
  BY <1>1 DEF SpoolInit, SpoolShape, NoFile
<1>3. Started = {}
  BY DEF SpoolInit, Started
<1>. QED BY <1>2, <1>3, FS_EmptySet DEF SpoolInit, Times, TimesOf, Opened

\* What a step leaves of the times: they only go up.
GoesOn ==
  /\ now <= now'
  /\ \A d \in Draft : touched[d] <= touched'[d] /\ (Opened(d) => born'[d] = born[d])

LEMMA StartedFinite ==
  ASSUME SpoolShape, Times, NEW d \in Draft, NEW s, step' = [step EXCEPT ![d] = s]
  PROVE  IsFiniteSet(Started')
<1>1. Started' \in SUBSET (Started \cup {d})
  BY DEF Started, SpoolShape
<1>. QED BY <1>1, FS_AddElement, FS_Subset DEF Times

\* A step of a draft that opens and writes nothing.
LEMMA QuietTimes ==
  ASSUME SpoolShape, Times, NEW d \in Draft, NEW s, step' = [step EXCEPT ![d] = s],
         UNCHANGED <<now, born, touched, told>>,
         s \in {"expire", "unlink", "open"} => step[d] \in {"start", "expire"},
         s \in {"expire", "unlink", "open", "end"}, step[d] # "end"
  PROVE  Times' /\ GoesOn
<1>1. step \in [Draft -> {"start", "expire", "unlink", "open", "write", "end"}]
  BY DEF SpoolShape
<1>2. TimesOf(d)'
  BY <1>1 DEF Times, TimesOf, Opened
<1>3. \A e \in Draft : e # d => TimesOf(e)'
  BY <1>1 DEF Times, TimesOf, Opened
<1>4. GoesOn
  BY DEF GoesOn, SpoolShape
<1>. QED BY <1>2, <1>3, <1>4, StartedFinite DEF Times

\* A step that moves no draft.
LEMMA StillTimes ==
  ASSUME SpoolShape, Times, now' \in Nat, now <= now', UNCHANGED <<step, born, touched, told>>
  PROVE  Times' /\ GoesOn
<1>1. Started' = Started
  BY DEF Started
<1>2. \A d \in Draft : TimesOf(d)'
  BY DEF SpoolShape, Times, TimesOf, Opened
<1>. QED BY <1>1, <1>2 DEF Times, GoesOn, SpoolShape

LEMMA ListGoesOn ==
  ASSUME SpoolShape, Times, NEW d \in Draft, List(d)
  PROVE  SpoolShape' /\ Times' /\ GoesOn
<1>1. \E s \in {"expire", "open"} : step' = [step EXCEPT ![d] = s]
  BY DEF List
<1>2. step[d] = "start" /\ UNCHANGED <<files, doomed, now, born, touched, told, left>>
  BY DEF List
<1>3. Times' /\ GoesOn
  BY <1>1, <1>2, QuietTimes
<1>4. \/ listed' = listed
      \/ listed' = [listed EXCEPT ![d] = [f \in Existing |-> files[f].mtime]]
  BY DEF List, Existing
<1>5. /\ listed' = [e \in Draft |-> listed'[e]]
      /\ \A e \in Draft : /\ DOMAIN listed'[e] \subseteq FileName
                          /\ \A f \in DOMAIN listed'[e] : listed'[e][f] \in Nat
  BY <1>4 DEF SpoolShape, Existing
<1>6. alone' \subseteq Draft /\ step' \in [Draft -> {"start", "expire", "unlink", "open", "write", "end"}]
  BY <1>1 DEF List, SpoolShape
<1>. QED BY <1>2, <1>3, <1>5, <1>6 DEF SpoolShape

LEMMA ChooseGoesOn ==
  ASSUME SpoolShape, Times, NEW d \in Draft, Choose(d)
  PROVE  SpoolShape' /\ Times' /\ GoesOn
<1>1. /\ step[d] = "expire" /\ step' = [step EXCEPT ![d] = "unlink"]
      /\ UNCHANGED <<files, listed, now, born, touched, told, left, alone>>
  BY DEF Choose
<1>2. \E X \in SUBSET FileName : doomed' = [doomed EXCEPT ![d] = X]
  BY DEF Choose, Excess, SpoolShape
<1>3. Times' /\ GoesOn
  BY <1>1, QuietTimes
<1>. QED BY <1>1, <1>2, <1>3 DEF SpoolShape

LEMMA UnlinkGoesOn ==
  ASSUME SpoolShape, Times, NEW d \in Draft, Unlink(d)
  PROVE  SpoolShape' /\ Times' /\ GoesOn
<1>1. UNCHANGED <<step, listed, now, born, touched, told, left, alone>>
  BY DEF Unlink
<1>2. Times' /\ GoesOn
  BY <1>1, StillTimes DEF SpoolShape
<1>3. PICK f \in FileName : /\ files' = [files EXCEPT ![f] = NoFile]
                            /\ doomed' = [doomed EXCEPT ![d] = @ \ {f}]
  BY DEF Unlink, SpoolShape
<1>. QED BY <1>1, <1>2, <1>3 DEF SpoolShape, NoFile

LEMMA OpenGoesOn ==
  ASSUME SpoolShape, Times, NEW d \in Draft, Open(d)
  PROVE  SpoolShape' /\ Times' /\ GoesOn
<1>1. /\ step[d] \in {"open", "unlink"} /\ listed' = [listed EXCEPT ![d] = <<>>]
      /\ UNCHANGED <<doomed, now, told, left, alone>>
  BY DEF Open
<1>2. /\ listed' = [e \in Draft |-> listed'[e]]
      /\ \A e \in Draft : /\ DOMAIN listed'[e] \subseteq FileName
                          /\ \A f \in DOMAIN listed'[e] : listed'[e][f] \in Nat
  <2>1. DOMAIN <<>> = {}
    OBVIOUS
  <2>2. \A e \in Draft : listed'[e] = IF e = d THEN <<>> ELSE listed[e]
    BY <1>1 DEF SpoolShape
  <2>. QED BY <1>1, <2>1, <2>2 DEF SpoolShape
<1>3. CASE step' = [step EXCEPT ![d] = "end"] /\ UNCHANGED <<files, born, touched>>
  BY <1>1, <1>2, <1>3, QuietTimes DEF SpoolShape
<1>4. CASE /\ files' = [files EXCEPT ![FileOf[d]] = [of |-> {d}, mtime |-> now]]
           /\ born' = [born EXCEPT ![d] = now]
           /\ touched' = [touched EXCEPT ![d] = now]
           /\ step' = [step EXCEPT ![d] = "write"]
  <2>1. FileOf[d] \in FileName
    BY DEF FileName
  <2>2. SpoolShape'
    BY <1>1, <1>2, <1>4, <2>1 DEF SpoolShape
  <2>3. ~Opened(d) /\ d \notin told /\ now > 0
    BY <1>1 DEF Times, TimesOf, SpoolShape
  <2>4. TimesOf(d)'
    BY <1>1, <1>4, <2>3 DEF SpoolShape, TimesOf, Opened
  <2>5. \A e \in Draft : e # d => TimesOf(e)'
    BY <1>1, <1>4 DEF SpoolShape, Times, TimesOf, Opened
  <2>6. GoesOn
    BY <1>1, <1>4, <2>3 DEF GoesOn, SpoolShape, Opened
  <2>. QED BY <1>4, <2>2, <2>4, <2>5, <2>6, StartedFinite DEF Times
<1>. QED BY <1>3, <1>4 DEF Open

LEMMA WriteGoesOn ==
  ASSUME SpoolShape, Times, NEW d \in Draft, Write(d) \/ WriteFails(d)
  PROVE  SpoolShape' /\ Times' /\ GoesOn
<1>1. /\ step[d] = "write" /\ step' = [step EXCEPT ![d] = "end"]
      /\ UNCHANGED <<listed, doomed, now, born, alone>>
  BY DEF Write, WriteFails
<1>2. CASE Write(d)
  <2>1. /\ files' = Written(d) /\ told' = told \cup {d} /\ touched' = [touched EXCEPT ![d] = now]
        /\ left' = [left EXCEPT ![d] = left'[d]]
    BY <1>2 DEF Write, SpoolShape
  <2>2. Written(d) \in [FileName -> [of : SUBSET Draft, mtime : Nat]]
    <3>1. FileOf[d] \in FileName
      BY DEF FileName
    <3>. QED BY <3>1 DEF Written, SpoolShape
  <2>3. left' = [e \in Draft |-> left'[e]]
    BY <2>1 DEF SpoolShape
  <2>4. SpoolShape'
    BY <1>1, <2>1, <2>2, <2>3 DEF SpoolShape
  <2>5. Opened(d) /\ born[d] > 0 /\ born[d] <= touched[d] /\ touched[d] <= now
    BY <1>1 DEF Times, TimesOf
  <2>6. TimesOf(d)'
    BY <1>1, <2>1, <2>5 DEF SpoolShape, TimesOf, Opened
  <2>7. \A e \in Draft : e # d => TimesOf(e)'
    BY <1>1, <2>1 DEF SpoolShape, Times, TimesOf, Opened
  <2>8. GoesOn
    BY <1>1, <2>1, <2>5 DEF GoesOn, SpoolShape
  <2>. QED BY <1>1, <2>4, <2>6, <2>7, <2>8, StartedFinite DEF Times
<1>3. CASE WriteFails(d)
  <2>1. UNCHANGED <<files, touched, told, left>>
    BY <1>3 DEF WriteFails
  <2>. QED BY <1>1, <2>1, QuietTimes DEF SpoolShape
<1>. QED BY <1>2, <1>3

LEMMA SpoolGoesOn == SpoolShape /\ Times /\ [SpoolNext]_spoolVars => SpoolShape' /\ Times' /\ GoesOn
<1> SUFFICES ASSUME SpoolShape, Times, [SpoolNext]_spoolVars PROVE SpoolShape' /\ Times' /\ GoesOn
  OBVIOUS
<1>1. CASE Pass
  <2>1. /\ now' = now + 1
        /\ UNCHANGED <<files, step, listed, doomed, born, touched, told, left, alone>>
    BY <1>1 DEF Pass
  <2>2. SpoolShape'
    BY <2>1 DEF SpoolShape
  <2>. QED BY <2>1, <2>2, StillTimes DEF SpoolShape
<1>2. CASE UNCHANGED spoolVars
  BY <1>2, StillTimes DEF spoolVars, SpoolShape
<1>. QED BY <1>1, <1>2, ListGoesOn, ChooseGoesOn, UnlinkGoesOn, OpenGoesOn, WriteGoesOn
         DEF SpoolNext

\* Whose file a file is, and that its times are those of a draft with its name.
FileRight(f) ==
  /\ \A e \in files[f].of : FileOf[e] = f /\ Opened(e) /\ born[e] <= files[f].mtime
  /\ Exists(f) => \E e \in Draft : FileOf[e] = f /\ Opened(e) /\ files[f].mtime <= touched[e]

\* What a prune saw was so, and what it will remove may be gone.
SeenRight(d) ==
  /\ \A f \in DOMAIN listed[d] :
       /\ \E e \in Draft : FileOf[e] = f /\ Opened(e) /\ listed[d][f] <= touched[e]
       /\ \A e \in files[f].of : born[e] <= listed[d][f] \/ Lost(e)
  /\ \A f \in doomed[d] :
       /\ \E e \in Draft : FileOf[e] = f /\ Opened(e)
       /\ \A e \in files[f].of : Lost(e)

KeptOrLost(d) == Opened(d) => d \in files[FileOf[d]].of \/ Lost(d)

FilesInv ==
  /\ \A f \in FileName : FileRight(f)
  /\ \A d \in Draft : SeenRight(d) /\ KeptOrLost(d)

Going == SpoolShape /\ Times /\ SpoolShape' /\ Times' /\ GoesOn

LEMMA NoOlderFinite ==
  ASSUME SpoolShape, Times, NEW d \in Draft, Opened(d)
  PROVE  IsFiniteSet(NoOlder(d)) /\ Cardinality(NoOlder(d)) \in Nat
<1>1. NoOlder(d) \in SUBSET Started
  <2>1. ASSUME NEW e \in NoOlder(d) PROVE e \in Started
    <3>1. e \in Draft /\ touched[e] >= born[d] /\ born[d] > 0
      BY DEF NoOlder, Times, TimesOf
    <3>. QED BY <3>1 DEF SpoolShape, Times, TimesOf, Started, Opened
  <2>. QED BY <2>1
<1>. QED BY <1>1, FS_Subset, FS_CardinalityType DEF Times

\* What may be gone once may be gone for good.
LEMMA LostStays ==
  ASSUME Going, NEW d \in Draft, Opened(d), Lost(d)
  PROVE  Lost(d)'
<1>1. /\ now \in Nat /\ now' \in Nat /\ now <= now' /\ born' = [e \in Draft |-> born'[e]]
      /\ born[d] \in Nat /\ born'[d] = born[d] /\ Opened(d)'
      /\ \A e \in Draft : touched[e] \in Nat /\ touched'[e] \in Nat /\ touched[e] <= touched'[e]
  BY DEF Going, GoesOn, SpoolShape, Opened
<1>2. CASE now - born[d] > Retention
  BY <1>1, <1>2, SpoolAssumption DEF Lost
<1>3. CASE Shared(d)
  BY <1>1, <1>3 DEF Lost, Shared, Opened
<1>4. CASE Cardinality(NoOlder(d)) >= MaxFiles
  <2>1. /\ IsFiniteSet(NoOlder(d)) /\ Cardinality(NoOlder(d)) \in Nat
    BY NoOlderFinite DEF Going
  <2>2. IsFiniteSet(NoOlder(d)') /\ Cardinality(NoOlder(d)') \in Nat
    <3>1. born'[d] > 0 /\ IsFiniteSet(Started')
      BY <1>1 DEF Going, Times, TimesOf
    <3>2. ASSUME NEW e \in NoOlder(d)' PROVE e \in Started'
      <4>1. e \in Draft /\ touched'[e] > 0
        BY <1>1, <3>1 DEF NoOlder
      <4>. QED BY <4>1 DEF Going, Times, TimesOf, Started, Opened
    <3>. QED BY <3>1, <3>2, FS_Subset, FS_CardinalityType
  <2>3. NoOlder(d) \in SUBSET (NoOlder(d)')
    BY <1>1 DEF NoOlder
  <2>4. Cardinality(NoOlder(d)) <= Cardinality(NoOlder(d)')
    BY <2>2, <2>3, FS_Subset
  <2>. QED BY <1>4, <2>1, <2>2, <2>4, SpoolAssumption DEF Lost
<1>. QED BY <1>2, <1>3, <1>4 DEF Lost

LEMMA SeenStays ==
  ASSUME Going, FilesInv, NEW d \in Draft,
         DOMAIN listed'[d] \subseteq DOMAIN listed[d],
         \A f \in DOMAIN listed'[d] : listed'[d][f] = listed[d][f],
         doomed'[d] \subseteq doomed[d],
         \A f \in DOMAIN listed[d] \cup doomed[d] : \A e \in files'[f].of :
            e \in files[f].of \/ Lost(e)'
  PROVE  SeenRight(d)'
<1>1. DOMAIN listed[d] \cup doomed[d] \subseteq FileName /\ SeenRight(d)
  BY DEF Going, SpoolShape, FilesInv
<1>2. ASSUME NEW f \in FileName, NEW e \in files[f].of
      PROVE  e \in Draft /\ Opened(e) /\ born'[e] = born[e]
  BY DEF Going, SpoolShape, FilesInv, FileRight, GoesOn
<1>3. \A e \in Draft : Opened(e) => Opened(e)' /\ touched[e] <= touched'[e]
  BY DEF Going, GoesOn, Opened, SpoolShape
<1>4. \A f \in FileName : \A e \in files[f].of : Lost(e) => Lost(e)'
  BY <1>2, LostStays
<1>5. ASSUME NEW f \in DOMAIN listed'[d]
      PROVE  /\ \E e \in Draft : FileOf[e] = f /\ Opened(e)' /\ listed'[d][f] <= touched'[e]
             /\ \A e \in files'[f].of : born'[e] <= listed'[d][f] \/ Lost(e)'
  <2>1. \E e \in Draft : FileOf[e] = f /\ Opened(e)' /\ listed'[d][f] <= touched'[e]
    <3>1. PICK e \in Draft : FileOf[e] = f /\ Opened(e) /\ listed[d][f] <= touched[e]
      BY <1>1 DEF SeenRight
    <3>2. listed[d][f] \in Nat /\ touched[e] \in Nat /\ touched'[e] \in Nat
      BY DEF Going, SpoolShape
    <3>. QED BY <1>3, <3>1, <3>2
  <2>2. \A e \in files'[f].of : born'[e] <= listed'[d][f] \/ Lost(e)'
    BY <1>1, <1>2, <1>4 DEF SeenRight
  <2>. QED BY <2>1, <2>2
<1>6. ASSUME NEW f \in doomed'[d]
      PROVE  /\ \E e \in Draft : FileOf[e] = f /\ Opened(e)'
             /\ \A e \in files'[f].of : Lost(e)'
  BY <1>1, <1>3, <1>4 DEF SeenRight
<1>. QED BY <1>5, <1>6 DEF SeenRight

\* A file that is not touched, or only written by the draft it is of.
LEMMA FileStays ==
  ASSUME Going, FilesInv, NEW f \in FileName, files'[f].of = files[f].of,
         files'[f] = files[f] \/ (files'[f].mtime = now /\ Exists(f) /\ files[f].mtime <= now
                                  /\ \E e \in Draft : FileOf[e] = f /\ Opened(e)' /\ touched'[e] = now)
  PROVE  FileRight(f)'
<1>1. /\ files[f] \in [of : SUBSET Draft, mtime : Nat] /\ FileRight(f) /\ now \in Nat
      /\ \A e \in Draft : /\ touched[e] \in Nat /\ touched'[e] \in Nat /\ touched[e] <= touched'[e]
                          /\ Opened(e) => Opened(e)' /\ born'[e] = born[e]
                          /\ born[e] \in Nat
  BY DEF Going, SpoolShape, FilesInv, GoesOn, Opened
<1>2. CASE files'[f] = files[f]
  BY <1>1, <1>2 DEF FileRight, Exists
<1>3. CASE /\ files'[f].mtime = now /\ files[f].mtime <= now
           /\ \E e \in Draft : FileOf[e] = f /\ Opened(e)' /\ touched'[e] = now
  BY <1>1, <1>3 DEF FileRight
<1>. QED BY <1>2, <1>3

LEMMA KeptStays ==
  ASSUME Going, FilesInv, NEW d \in Draft, Opened(d) \/ ~Opened(d)',
         d \in files[FileOf[d]].of => d \in files'[FileOf[d]].of \/ Lost(d) \/ Lost(d)'
  PROVE  KeptOrLost(d)'
BY LostStays DEF FilesInv, KeptOrLost

LEMMA ListKeeps ==
  ASSUME Going, FilesInv, NEW d \in Draft, List(d)
  PROVE  FilesInv'
<1>1. UNCHANGED <<files, doomed, now, born, touched>>
  BY DEF List
<1>2. /\ \A e \in Draft : e # d => listed'[e] = listed[e]
      /\ \/ listed' = listed
         \/ listed'[d] = [f \in Existing |-> files[f].mtime]
  BY DEF List, Going, SpoolShape, Existing
<1>3. \A e : (Lost(e)' <=> Lost(e)) /\ (Opened(e)' <=> Opened(e))
  BY <1>1 DEF Lost, Shared, NoOlder, Opened
<1>4. \A f \in FileName : FileRight(f)'
  BY <1>1 DEF FilesInv, FileRight, Exists, Opened
<1>5. \A e \in Draft : KeptOrLost(e)'
  BY <1>1, <1>3 DEF FilesInv, KeptOrLost
<1>6. \A e \in Draft : e # d \/ listed' = listed => SeenRight(e)'
  BY <1>1, <1>2, <1>3 DEF FilesInv, SeenRight
<1>7. ASSUME listed'[d] = [f \in Existing |-> files[f].mtime] PROVE SeenRight(d)'
  <2>1. DOMAIN listed'[d] = Existing /\ \A f \in Existing : listed'[d][f] = files[f].mtime
    BY <1>7
  <2>2. \A f \in Existing : f \in FileName /\ FileRight(f) /\ Exists(f)
    BY DEF Existing, FilesInv
  <2>. QED BY <1>1, <1>3, <2>1, <2>2 DEF FilesInv, SeenRight, FileRight
<1>. QED BY <1>2, <1>4, <1>5, <1>6, <1>7 DEF FilesInv

\* The oldest files beyond the count are chosen among the listed: as many of
\* other names, and no older, are left.
LEMMA ExcessIsLost ==
  ASSUME SpoolShape, Times, FilesInv, NEW d \in Draft, NEW kept \in SUBSET DOMAIN listed[d],
         NEW X \in Excess(d, kept), NEW f \in X, NEW e \in files[f].of
  PROVE  Lost(e)
<1>1. /\ X \subseteq kept /\ kept \subseteq FileName /\ f \in DOMAIN listed[d]
      /\ \A g \in kept \ X : ~(listed[d][g] < listed[d][f])
      /\ Cardinality(X) = IF Cardinality(kept) > MaxFiles THEN Cardinality(kept) - MaxFiles ELSE 0
  BY DEF Excess, Older, SpoolShape
<1>2. /\ e \in Draft /\ FileOf[e] = f /\ Opened(e)
      /\ born[e] <= listed[d][f] \/ Lost(e)
  BY <1>1 DEF SpoolShape, FilesInv, FileRight, SeenRight
<1>3. SUFFICES ASSUME born[e] <= listed[d][f] PROVE Cardinality(NoOlder(e)) >= MaxFiles
  BY <1>2 DEF Lost
<1>4. IsFiniteSet(Started)
  BY DEF Times
\* Each listed file has a draft of its name that was at it since.
<1> DEFINE by == [g \in kept |-> CHOOSE h \in Draft : FileOf[h] = g /\ Opened(h)
                                                       /\ listed[d][g] <= touched[h]]
<1>5. \A g \in kept : /\ by[g] \in Draft /\ FileOf[by[g]] = g /\ Opened(by[g])
                      /\ listed[d][g] <= touched[by[g]]
  BY DEF FilesInv, SeenRight
<1>6. DOMAIN by = kept
  OBVIOUS
<1> HIDE DEF by
<1>7. IsFiniteSet(kept)
  <2>1. \A g \in kept : by[g] \in Started
    BY <1>5 DEF Times, TimesOf, Started
  <2>2. DEFINE at == [g \in kept |-> by[g]]
  <2>3. at \in Injection(kept, Started)
    BY <1>5, <2>1 DEF Injection, IsInjective
  <2>. QED BY <1>4, <2>3, FS_Injection
<1>8. /\ IsFiniteSet(X) /\ Cardinality(X) \in Nat /\ Cardinality(X) # 0
      /\ Cardinality(kept) \in Nat
  BY <1>1, <1>7, FS_Subset, FS_CardinalityType, FS_EmptySet
<1>9. IsFiniteSet(kept \ X) /\ Cardinality(kept \ X) = MaxFiles
  <2>1. kept \cap X = X
    BY <1>1
  <2>2. /\ IsFiniteSet(kept \ X)
        /\ Cardinality(kept \ X) = Cardinality(kept) - Cardinality(X)
    <3>1. /\ IsFiniteSet(kept \ X)
          /\ Cardinality(kept \ X) = Cardinality(kept) - Cardinality(kept \cap X)
      BY <1>7, FS_Difference
    <3>. QED BY <2>1, <3>1
  <2>. QED BY <1>1, <1>8, <2>2, SpoolAssumption
<1>10. DEFINE others == [g \in kept \ X |-> by[g]]
<1>11. others \in Injection(kept \ X, NoOlder(e))
  <2>1. ASSUME NEW g \in kept \ X PROVE by[g] \in NoOlder(e)
    <3>1. listed[d][g] \in Nat /\ listed[d][f] \in Nat /\ born[e] \in Nat /\ touched[by[g]] \in Nat
      BY <1>1, <1>2, <1>5 DEF SpoolShape
    <3>2. born[e] <= touched[by[g]]
      BY <1>1, <1>3, <1>5, <3>1
    <3>3. by[g] # e
      BY <1>2, <1>5
    <3>. QED BY <1>5, <3>2, <3>3 DEF NoOlder
  <2>. QED BY <1>5, <2>1 DEF Injection, IsInjective
<1> HIDE DEF others
<1>12. IsFiniteSet(NoOlder(e)) /\ Cardinality(NoOlder(e)) \in Nat
  BY <1>2, NoOlderFinite
<1>. QED BY <1>9, <1>11, <1>12, FS_Injection

LEMMA ChooseKeeps ==
  ASSUME Going, FilesInv, NEW d \in Draft, Choose(d)
  PROVE  FilesInv'
<1>1. UNCHANGED <<files, listed, now, born, touched>>
  BY DEF Choose
<1>2. \A e : (Lost(e)' <=> Lost(e)) /\ (Opened(e)' <=> Opened(e))
  BY <1>1 DEF Lost, Shared, NoOlder, Opened
<1>3. \A f \in FileName : FileRight(f)'
  BY <1>1 DEF FilesInv, FileRight, Exists, Opened
<1>4. \A e \in Draft : KeptOrLost(e)'
  BY <1>1, <1>2 DEF FilesInv, KeptOrLost
<1>5. \A e \in Draft : e # d => doomed'[e] = doomed[e]
  BY DEF Choose, Going, SpoolShape
<1>6. \A e \in Draft : e # d => SeenRight(e)'
  BY <1>1, <1>2, <1>5 DEF FilesInv, SeenRight
<1> DEFINE expired == {f \in DOMAIN listed[d] : Exists(f) /\ now - files[f].mtime > Retention}
<1>7. PICK X \in Excess(d, DOMAIN listed[d] \ expired) : doomed'[d] = expired \cup X
  BY DEF Choose, Going, SpoolShape
<1>8. X \subseteq DOMAIN listed[d] /\ DOMAIN listed[d] \subseteq FileName
  BY DEF Excess, Going, SpoolShape
<1>9. ASSUME NEW f \in doomed'[d], NEW e \in files[f].of PROVE Lost(e)
  <2>1. CASE f \in expired
    <3>1. /\ FileRight(f) /\ e \in Draft /\ now \in Nat /\ files[f].mtime \in Nat /\ born[e] \in Nat
          /\ now - files[f].mtime > Retention
      BY <1>8, <2>1 DEF FilesInv, Going, SpoolShape
    <3>. QED BY <3>1, SpoolAssumption DEF FileRight, Lost
  <2>2. CASE f \in X
    BY <2>2, ExcessIsLost DEF Going
  <2>. QED BY <1>7, <2>1, <2>2
<1>10. \A f \in doomed'[d] : \E e \in Draft : FileOf[e] = f /\ Opened(e)
  BY <1>7, <1>8 DEF FilesInv, SeenRight
<1>11. SeenRight(d)'
  BY <1>1, <1>2, <1>9, <1>10 DEF FilesInv, SeenRight
<1>. QED BY <1>3, <1>4, <1>6, <1>11 DEF FilesInv

LEMMA UnlinkKeeps ==
  ASSUME Going, FilesInv, NEW d \in Draft, Unlink(d)
  PROVE  FilesInv'
<1>1. PICK f \in doomed[d] : /\ files' = [files EXCEPT ![f] = NoFile]
                             /\ doomed' = [doomed EXCEPT ![d] = @ \ {f}]
                             /\ UNCHANGED <<step, listed, now, born, touched>>
  BY DEF Unlink
<1>2. /\ f \in FileName /\ files'[f].of = {} /\ files'[f] = NoFile
      /\ \A g \in FileName : g # f => files'[g] = files[g]
      /\ \A e \in Draft : doomed'[e] \subseteq doomed[e]
  BY <1>1 DEF Going, SpoolShape, NoFile
<1>3. \A g \in FileName : files'[g].of \subseteq files[g].of
  BY <1>2
<1>4. \A g \in FileName : FileRight(g)'
  <2>1. FileRight(f)'
    BY <1>2 DEF FileRight, Exists, NoFile
  <2>. QED BY <1>2, <2>1, FileStays
<1>5. ASSUME NEW e \in Draft PROVE SeenRight(e)'
  <2>1. DOMAIN listed[e] \cup doomed[e] \subseteq FileName
    BY DEF Going, SpoolShape
  <2>. QED BY <1>1, <1>2, <1>3, <2>1, SeenStays
<1>6. ASSUME NEW e \in Draft PROVE KeptOrLost(e)'
  <2>1. e \in files[f].of => Lost(e)
    BY <1>1 DEF FilesInv, SeenRight
  <2>2. FileOf[e] \in FileName
    BY DEF FileName
  <2>. QED BY <1>1, <1>2, <2>1, <2>2, KeptStays DEF Opened
<1>. QED BY <1>4, <1>5, <1>6 DEF FilesInv

LEMMA OpenKeeps ==
  ASSUME Going, FilesInv, NEW d \in Draft, Open(d)
  PROVE  FilesInv'
<1>1. /\ step[d] \in {"open", "unlink"} /\ listed' = [listed EXCEPT ![d] = <<>>]
      /\ UNCHANGED <<doomed, now>>
  BY DEF Open
<1>2. /\ DOMAIN listed'[d] = {}
      /\ \A e \in Draft : e # d => listed'[e] = listed[e]
  <2>1. DOMAIN <<>> = {}
    OBVIOUS
  <2>. QED BY <1>1, <2>1 DEF Going, SpoolShape
<1>3. ~Opened(d)
  BY <1>1 DEF Going, Times, TimesOf
<1>4. CASE UNCHANGED <<files, born, touched>>
  <2>1. \A f \in FileName : FileRight(f)'
    BY <1>4, FileStays
  <2>2. \A e \in Draft : SeenRight(e)'
    BY <1>1, <1>2, <1>4, SeenStays
  <2>3. \A e \in Draft : KeptOrLost(e)'
    BY <1>4, KeptStays DEF Opened
  <2>. QED BY <2>1, <2>2, <2>3 DEF FilesInv
<1>5. CASE /\ files' = [files EXCEPT ![FileOf[d]] = [of |-> {d}, mtime |-> now]]
           /\ born' = [born EXCEPT ![d] = now]
           /\ touched' = [touched EXCEPT ![d] = now]
  <2> DEFINE f == FileOf[d]
  <2>1. /\ f \in FileName /\ files'[f] = [of |-> {d}, mtime |-> now]
        /\ \A g \in FileName : g # f => files'[g] = files[g]
        /\ born'[d] = now /\ touched'[d] = now /\ Opened(d)' /\ now \in Nat
        /\ \A e \in Draft : e # d => touched'[e] = touched[e]
    BY <1>5 DEF Going, SpoolShape, FileName, Opened
  <2>2. \A g \in FileName : FileRight(g)'
    <3>1. FileRight(f)'
      BY <2>1 DEF FileRight
    <3>. QED BY <2>1, <3>1, FileStays
\* A draft whose name another one opened before may lose its file.
  <2>3. (\E e \in Draft : FileOf[e] = f /\ Opened(e)) => Lost(d)'
    BY <1>3, <2>1 DEF Lost, Shared, Opened
  <2>4. ASSUME NEW e \in Draft PROVE SeenRight(e)'
    <3>1. \A g \in DOMAIN listed[e] \cup doomed[e] : \E h \in Draft : FileOf[h] = g /\ Opened(h)
      BY DEF FilesInv, SeenRight
    <3>2. \A g \in DOMAIN listed[e] \cup doomed[e] : g \in FileName
      BY DEF Going, SpoolShape
    <3>3. \A g \in DOMAIN listed[e] \cup doomed[e] : \A h \in files'[g].of :
             h \in files[g].of \/ Lost(h)'
      BY <2>1, <2>3, <3>1, <3>2
    <3>. QED BY <1>1, <1>2, <3>3, SeenStays
  <2>5. ASSUME NEW e \in Draft PROVE KeptOrLost(e)'
    <3>1. CASE e = d
      BY <2>1, <3>1 DEF KeptOrLost
    <3>2. CASE e # d /\ FileOf[e] = f /\ Opened(e)
      <4>1. Shared(e)'
        BY <2>1, <3>2 DEF Shared
      <4>. QED BY <4>1 DEF KeptOrLost, Lost
    <3>3. CASE e # d /\ ~(FileOf[e] = f /\ Opened(e))
      <4>1. FileOf[e] \in FileName /\ (Opened(e) <=> Opened(e)')
        BY <2>1, <3>3 DEF FileName, Opened
      <4>2. CASE ~Opened(e)
        BY <4>1, <4>2 DEF KeptOrLost
      <4>3. CASE Opened(e)
        <5>1. files'[FileOf[e]] = files[FileOf[e]]
          BY <2>1, <3>3, <4>1, <4>3
        <5>. QED BY <4>3, <5>1, KeptStays
      <4>. QED BY <4>2, <4>3
    <3>. QED BY <3>1, <3>2, <3>3
  <2>. QED BY <2>2, <2>4, <2>5 DEF FilesInv
<1>. QED BY <1>4, <1>5 DEF Open

LEMMA WriteKeeps ==
  ASSUME Going, FilesInv, NEW d \in Draft, Write(d)
  PROVE  FilesInv'
<1>1. /\ step[d] = "write" /\ files' = Written(d) /\ touched' = [touched EXCEPT ![d] = now]
      /\ UNCHANGED <<listed, doomed, now, born>>
  BY DEF Write
<1> DEFINE f == FileOf[d]
<1>2. Opened(d) /\ Opened(d)' /\ touched'[d] = now /\ touched[d] <= now /\ now \in Nat
  BY <1>1 DEF Going, Times, TimesOf, SpoolShape, Opened
<1>3. f \in FileName
  BY DEF FileName
<1>4. /\ \A g \in FileName : files'[g].of = files[g].of /\ (g # f => files'[g] = files[g])
      /\ files'[f] = files[f] \/ (files'[f].mtime = now /\ d \in files[f].of)
  BY <1>1, <1>3 DEF Written, Going, SpoolShape
<1>5. ASSUME d \in files[f].of PROVE Exists(f) /\ files[f].mtime <= now
  <2>1. Exists(f)
    BY <1>5 DEF Exists, NoFile
  <2>2. PICK e \in Draft : files[f].mtime <= touched[e]
    BY <1>3, <2>1 DEF FilesInv, FileRight
  <2>3. touched[e] <= now /\ touched[e] \in Nat /\ files[f].mtime \in Nat
    BY <1>3 DEF Going, Times, TimesOf, SpoolShape
  <2>. QED BY <1>2, <2>1, <2>2, <2>3
<1>6. \A g \in FileName : FileRight(g)'
  <2>1. FileRight(f)'
    BY <1>2, <1>3, <1>4, <1>5, FileStays
  <2>. QED BY <1>4, <2>1, FileStays
<1>7. ASSUME NEW e \in Draft PROVE SeenRight(e)'
  <2>1. DOMAIN listed[e] \cup doomed[e] \subseteq FileName
    BY DEF Going, SpoolShape
  <2>. QED BY <1>1, <1>4, <2>1, SeenStays
<1>8. ASSUME NEW e \in Draft PROVE KeptOrLost(e)'
  <2>1. FileOf[e] \in FileName /\ (Opened(e) <=> Opened(e)')
    BY <1>1, <1>2 DEF FileName, Opened, Going, SpoolShape
  <2>. QED BY <1>4, <2>1, KeptStays
<1>. QED BY <1>6, <1>7, <1>8 DEF FilesInv

LEMMA FilesStep == Going /\ FilesInv /\ [SpoolNext]_spoolVars => FilesInv'
<1> SUFFICES ASSUME Going, FilesInv, [SpoolNext]_spoolVars PROVE FilesInv'
  OBVIOUS
<1>1. ASSUME UNCHANGED <<files, listed, doomed, born, touched>> PROVE FilesInv'
  <2>1. \A f \in FileName : FileRight(f)'
    BY <1>1, FileStays
  <2>2. \A d \in Draft : SeenRight(d)'
    BY <1>1, SeenStays
  <2>3. \A d \in Draft : KeptOrLost(d)'
    BY <1>1, KeptStays DEF Opened
  <2>. QED BY <2>1, <2>2, <2>3 DEF FilesInv
<1>2. ASSUME NEW d \in Draft, WriteFails(d) PROVE FilesInv'
  BY <1>1, <1>2 DEF WriteFails
<1>3. CASE Pass \/ UNCHANGED spoolVars
  BY <1>1, <1>3 DEF Pass, spoolVars
<1>. QED BY <1>2, <1>3, ListKeeps, ChooseKeeps, UnlinkKeeps, OpenKeeps, WriteKeeps DEF SpoolNext

LEMMA FilesStart == SpoolInit => FilesInv
<1> SUFFICES ASSUME SpoolInit PROVE FilesInv
  OBVIOUS
<1>1. \A f \in FileName : FileRight(f)
  BY DEF SpoolInit, FileRight, Exists, NoFile
<1>2. \A d \in Draft : DOMAIN listed[d] = {} /\ doomed[d] = {} /\ ~Opened(d)
  BY DEF SpoolInit, Opened
<1>. QED BY <1>1, <1>2 DEF FilesInv, SeenRight, KeptOrLost

\* A draft that no other ran beside finds the directory as it left it.
Beside(d) == d \in Spooling => Spooling \subseteq {d}
Pruned(d) ==
  /\ step[d] # "open"
  /\ step[d] = "expire" => DOMAIN listed[d] = Existing
  /\ step[d] = "unlink" => Cardinality(Existing \ doomed[d]) <= MaxFiles
  /\ step[d] = "write"  => Cardinality(Existing) <= MaxFiles + 1
  /\ d \in told => left[d] <= MaxFiles + 1
AloneInv == \A d \in alone : Beside(d) /\ Pruned(d)

LEMMA ExistingFinite ==
  ASSUME SpoolShape, Times, FilesInv
  PROVE  IsFiniteSet(Existing)
<1> DEFINE by == [f \in Existing |-> CHOOSE e \in Draft : FileOf[e] = f /\ Opened(e)]
<1>1. \A f \in Existing : by[f] \in Draft /\ FileOf[by[f]] = f /\ Opened(by[f])
  BY DEF Existing, FilesInv, FileRight
<1>2. by \in [Existing -> Started]
  <2>1. \A f \in Existing : by[f] \in Started
    BY <1>1 DEF Times, TimesOf, Started
  <2>. QED BY <2>1
<1> HIDE DEF by
<1>3. by \in Injection(Existing, Started)
  BY <1>1, <1>2 DEF Injection, IsInjective
<1>. QED BY <1>3, FS_Injection DEF Times

\* A draft that has something left to do and is alone is not joined by a step
\* of another: the other begins, and takes it out of the set.
LEMMA AloneStays ==
  ASSUME Going, AloneInv, NEW d \in Draft, d \in Spooling, NEW s, step' = [step EXCEPT ![d] = s],
         alone' = alone, \A e \in Draft : e # d => left'[e] = left[e],
         told' \subseteq told \cup {d}, d \in alone => Pruned(d)'
  PROVE  AloneInv'
<1>1. step \in [Draft -> {"start", "expire", "unlink", "open", "write", "end"}] /\ alone \subseteq Draft
  BY DEF Going, SpoolShape
<1>2. \A e \in Draft : (e # d => step'[e] = step[e])
  BY <1>1
<1>3. ASSUME NEW e \in alone, e # d PROVE e \notin Spooling /\ e \notin Spooling'
  BY <1>1, <1>2, <1>3 DEF AloneInv, Beside, Spooling
<1>4. ASSUME NEW e \in alone, e # d PROVE Beside(e)' /\ Pruned(e)'
  <2>1. step'[e] \in {"start", "end"}
    BY <1>1, <1>3, <1>4 DEF Spooling
  <2>2. e \in told' => left'[e] <= MaxFiles + 1
    BY <1>1, <1>4 DEF AloneInv, Pruned
  <2>. QED BY <1>3, <1>4, <2>1, <2>2 DEF Beside, Pruned
<1>5. ASSUME d \in alone PROVE Beside(d)'
  BY <1>1, <1>2, <1>5 DEF AloneInv, Beside, Spooling
<1>. QED BY <1>4, <1>5 DEF AloneInv

LEMMA ListAlone ==
  ASSUME Going, AloneInv, NEW d \in Draft, List(d)
  PROVE  AloneInv'
<1>1. /\ step[d] = "start" /\ UNCHANGED <<files, doomed, told, left>>
      /\ alone' = IF Spooling = {} THEN alone ELSE alone \ ({d} \cup Spooling)
      /\ alone \subseteq Draft
  BY DEF List, Going, SpoolShape
<1>2. \A e \in Draft : e # d => step'[e] = step[e] /\ listed'[e] = listed[e]
  BY DEF List, Going, SpoolShape
<1>3. Existing' = Existing
  BY <1>1 DEF Existing, Exists
<1>4. ASSUME NEW e \in alone', e # d PROVE Beside(e)' /\ Pruned(e)'
  <2>1. e \in alone /\ e \in Draft /\ e \notin Spooling
    BY <1>1, <1>4
  <2>2. e \notin Spooling' /\ step'[e] \in {"start", "end"}
    BY <1>2, <1>4, <2>1 DEF Spooling
  <2>. QED BY <1>1, <2>1, <2>2 DEF AloneInv, Beside, Pruned
<1>5. ASSUME d \in alone' PROVE Beside(d)' /\ Pruned(d)'
  <2>1. Spooling = {} /\ d \in alone
    BY <1>1, <1>5
  <2>2. Spooling' \subseteq {d}
    BY <1>2, <2>1 DEF Spooling
  <2>3. step'[d] = "expire" /\ DOMAIN listed'[d] = Existing
    BY <2>1 DEF List, Going, SpoolShape, Existing
  <2>4. d \in told => left[d] <= MaxFiles + 1
    BY <2>1 DEF AloneInv, Pruned
  <2>. QED BY <1>1, <1>3, <2>2, <2>3, <2>4 DEF Beside, Pruned
<1>. QED BY <1>4, <1>5 DEF AloneInv

LEMMA ChooseAlone ==
  ASSUME Going, FilesInv, AloneInv, NEW d \in Draft, Choose(d)
  PROVE  AloneInv'
<1>1. /\ step[d] = "expire" /\ step' = [step EXCEPT ![d] = "unlink"]
      /\ UNCHANGED <<files, told, left, alone>>
  BY DEF Choose
<1>2. d \in Spooling
  BY <1>1 DEF Spooling
<1>3. ASSUME d \in alone PROVE Cardinality(Existing \ doomed'[d]) <= MaxFiles
  <2> DEFINE expired == {f \in DOMAIN listed[d] : Exists(f) /\ now - files[f].mtime > Retention}
             kept == DOMAIN listed[d] \ expired
  <2>1. PICK X \in Excess(d, kept) : doomed'[d] = expired \cup X
    BY DEF Choose, Going, SpoolShape
  <2>2. DOMAIN listed[d] = Existing
    BY <1>1, <1>3 DEF AloneInv, Pruned
  <2>3. Existing \ doomed'[d] = kept \ X
    BY <2>1, <2>2
  <2>4. /\ X \subseteq kept
        /\ Cardinality(X) = IF Cardinality(kept) > MaxFiles THEN Cardinality(kept) - MaxFiles ELSE 0
    BY DEF Excess
  <2>5. kept \subseteq Existing
    BY <2>2
  <2> HIDE DEF kept, expired
  <2>6. IsFiniteSet(kept) /\ Cardinality(kept) \in Nat
    BY <2>5, ExistingFinite, FS_Subset, FS_CardinalityType DEF Going
  <2>7. kept \cap X = X
    BY <2>4
  <2>8. Cardinality(kept \ X) = Cardinality(kept) - Cardinality(X)
    BY <2>6, <2>7, FS_Difference
  <2>9. IsFiniteSet(X) /\ Cardinality(X) \in Nat
    BY <2>4, <2>6, FS_Subset, FS_CardinalityType
  <2>10. Cardinality(kept \ X) <= MaxFiles
    BY <2>4, <2>6, <2>8, <2>9, SpoolAssumption
  <2>. QED BY <2>3, <2>10
<1>4. d \in alone => d \notin told /\ step'[d] = "unlink" /\ Existing' = Existing
  BY <1>1 DEF Going, Times, TimesOf, SpoolShape, Existing, Exists
<1>5. d \in alone => Pruned(d)'
  BY <1>1, <1>3, <1>4 DEF Pruned
<1>. QED BY <1>1, <1>2, <1>5, AloneStays

LEMMA UnlinkAlone ==
  ASSUME Going, FilesInv, AloneInv, NEW d \in Draft, Unlink(d)
  PROVE  AloneInv'
<1>1. PICK f \in doomed[d] : /\ files' = [files EXCEPT ![f] = NoFile]
                             /\ doomed' = [doomed EXCEPT ![d] = @ \ {f}]
                             /\ UNCHANGED <<step, told, left, alone>> /\ step[d] = "unlink"
  BY DEF Unlink
<1>2. d \in Spooling /\ step' = [step EXCEPT ![d] = "unlink"]
  BY <1>1 DEF Spooling, Going, SpoolShape
<1>3. Existing' \ doomed'[d] \subseteq Existing \ doomed[d]
  BY <1>1 DEF Going, SpoolShape, Existing, Exists
<1>4. ASSUME d \in alone PROVE Cardinality(Existing' \ doomed'[d]) <= MaxFiles
  <2>1. IsFiniteSet(Existing \ doomed[d])
    BY ExistingFinite, FS_Subset DEF Going
  <2>2. /\ Cardinality(Existing' \ doomed'[d]) <= Cardinality(Existing \ doomed[d])
        /\ Cardinality(Existing' \ doomed'[d]) \in Nat /\ Cardinality(Existing \ doomed[d]) \in Nat
    BY <1>3, <2>1, FS_Subset, FS_CardinalityType
  <2>. QED BY <1>1, <1>4, <2>2, SpoolAssumption DEF AloneInv, Pruned
<1>5. d \notin told' /\ step'[d] = "unlink"
  BY <1>1 DEF Going, Times, TimesOf
<1>6. d \in alone => Pruned(d)'
  BY <1>4, <1>5 DEF Pruned
<1>. QED BY <1>1, <1>2, <1>6, AloneStays

LEMMA OpenAlone ==
  ASSUME Going, FilesInv, AloneInv, NEW d \in Draft, Open(d)
  PROVE  AloneInv'
<1>1. /\ step[d] = "open" \/ (step[d] = "unlink" /\ doomed[d] = {})
      /\ UNCHANGED <<told, left, alone>>
  BY DEF Open
<1>2. d \in Spooling
  BY <1>1 DEF Spooling
<1>3. d \notin told'
  BY <1>1 DEF Going, Times, TimesOf
<1>4. CASE step' = [step EXCEPT ![d] = "end"]
  <2>1. Pruned(d)'
    BY <1>3, <1>4 DEF Pruned, Going, SpoolShape
  <2>. QED BY <1>1, <1>2, <1>4, <2>1, AloneStays
<1>5. CASE /\ files' = [files EXCEPT ![FileOf[d]] = [of |-> {d}, mtime |-> now]]
           /\ step' = [step EXCEPT ![d] = "write"]
  <2>1. ASSUME d \in alone PROVE Cardinality(Existing') <= MaxFiles + 1
    <3>1. Cardinality(Existing \ doomed[d]) <= MaxFiles /\ doomed[d] = {}
      BY <1>1, <2>1 DEF AloneInv, Pruned
    <3>2. Existing \ doomed[d] = Existing
      BY <3>1
    <3>3. IsFiniteSet(Existing) /\ Cardinality(Existing) \in Nat
      BY ExistingFinite, FS_CardinalityType DEF Going
    <3>4. Existing' \subseteq Existing \cup {FileOf[d]}
      BY <1>5 DEF Existing, Exists, Going, SpoolShape
    <3>5. /\ IsFiniteSet(Existing \cup {FileOf[d]})
          /\ Cardinality(Existing \cup {FileOf[d]}) <= Cardinality(Existing) + 1
      BY <3>3, FS_AddElement
    <3>6. /\ Cardinality(Existing') <= Cardinality(Existing \cup {FileOf[d]})
          /\ Cardinality(Existing') \in Nat /\ Cardinality(Existing \cup {FileOf[d]}) \in Nat
      BY <3>4, <3>5, FS_Subset, FS_CardinalityType
    <3>. QED BY <3>1, <3>2, <3>3, <3>5, <3>6, SpoolAssumption
  <2>2. step'[d] = "write"
    BY <1>5 DEF Going, SpoolShape
  <2>3. d \in alone => Pruned(d)'
    BY <1>3, <2>1, <2>2 DEF Pruned
  <2>. QED BY <1>1, <1>2, <1>5, <2>3, AloneStays
<1>. QED BY <1>4, <1>5 DEF Open

LEMMA WriteAlone ==
  ASSUME Going, AloneInv, NEW d \in Draft, Write(d) \/ WriteFails(d)
  PROVE  AloneInv'
<1>1. step[d] = "write" /\ step' = [step EXCEPT ![d] = "end"] /\ alone' = alone
  BY DEF Write, WriteFails
<1>2. d \in Spooling /\ d \notin told /\ step'[d] = "end"
  BY <1>1 DEF Spooling, Going, Times, TimesOf, SpoolShape
<1>3. CASE Write(d)
  <2>1. left'[d] = Cardinality(Existing) /\ told' = told \cup {d}
        /\ \A e \in Draft : e # d => left'[e] = left[e]
    BY <1>3 DEF Write, Going, SpoolShape, Existing
  <2>2. d \in alone => Pruned(d)'
    BY <1>1, <1>2, <2>1 DEF AloneInv, Pruned
  <2>. QED BY <1>1, <1>2, <2>1, <2>2, AloneStays
<1>4. CASE WriteFails(d)
  <2>1. UNCHANGED <<told, left>>
    BY <1>4 DEF WriteFails
  <2>2. Pruned(d)'
    BY <1>2, <2>1 DEF Pruned
  <2>. QED BY <1>1, <1>2, <2>1, <2>2, AloneStays
<1>. QED BY <1>3, <1>4

LEMMA AloneStep == Going /\ FilesInv /\ AloneInv /\ [SpoolNext]_spoolVars => AloneInv'
<1> SUFFICES ASSUME Going, FilesInv, AloneInv, [SpoolNext]_spoolVars PROVE AloneInv'
  OBVIOUS
<1>1. CASE Pass \/ UNCHANGED spoolVars
  <2>1. UNCHANGED <<files, step, listed, doomed, told, left, alone>>
    BY <1>1 DEF Pass, spoolVars
  <2>2. Existing' = Existing /\ Spooling' = Spooling
    BY <2>1 DEF Existing, Exists, Spooling
  <2>3. \A d \in Draft : Pruned(d) => Pruned(d)'
    BY <2>1, <2>2 DEF Pruned
  <2>4. \A d \in Draft : Beside(d) => Beside(d)'
    BY <2>2 DEF Beside
  <2>5. alone' \subseteq Draft
    BY <2>1 DEF Going, SpoolShape
  <2>. QED BY <2>1, <2>3, <2>4, <2>5 DEF AloneInv
<1>. QED BY <1>1, ListAlone, ChooseAlone, UnlinkAlone, OpenAlone, WriteAlone DEF SpoolNext

LEMMA AloneStarts == SpoolInit => AloneInv
BY DEF SpoolInit, AloneInv, Beside, Pruned, Spooling

SpoolInv == SpoolShape /\ Times /\ FilesInv /\ AloneInv

LEMMA SpoolInvKeeps == SpoolInv => PreviewsKept
<1> SUFFICES ASSUME SpoolInv PROVE PreviewsKept
  OBVIOUS
<1>1. \A d \in told : d \in Draft /\ Opened(d)
  BY DEF SpoolInv, SpoolShape, Times, TimesOf
<1>2. ASSUME NEW d \in told PROVE d \in files[FileOf[d]].of \/ Lost(d)
  BY <1>1 DEF SpoolInv, FilesInv, KeptOrLost
<1>3. \A d \in told \cap alone : left[d] <= MaxFiles + 1
  BY DEF SpoolInv, AloneInv, Pruned
<1>. QED BY <1>2, <1>3 DEF PreviewsKept, Lost, Shared, NoOlder, Opened

\* However many workers list, remove, open and write side by side: a path the
\* agent was told leads to its preview until that expired, its name was taken or
\* the directory filled with files no older, and a draft that no other ran
\* beside leaves at most one file over the count.
THEOREM PreviewsStay == SpoolSpec => []PreviewsKept
<1>1. SpoolInit => SpoolInv
  BY SpoolShapeStarts, FilesStart, AloneStarts DEF SpoolInv
<1>2. SpoolInv /\ [SpoolNext]_spoolVars => SpoolInv'
  BY SpoolGoesOn, FilesStep, AloneStep DEF SpoolInv, Going
<1>. QED BY <1>1, <1>2, SpoolInvKeeps, PTL DEF SpoolSpec

-----------------------------------------------------------------------------
(* What a calendar request means.                                          *)

\* The address that is found for a reference is one it may stand for.
LEMMA ResolveRight ==
  ASSUME NEW ref, Resolve(ref) # <<>>
  PROVE  /\ Resolve(ref) = <<Resolve(ref)[1]>>
         /\ Resolve(ref)[1] \in Candidates(ref)
<1> DEFINE hits == {i \in DOMAIN Contacts : Matches(ref, Contacts[i])}
<1>1. CASE hits # {}
  <2>1. hits \subseteq Nat
    BY PlanAssumption
  <2>2. PICK i \in hits : \A j \in hits : i <= j
    <3> HIDE DEF hits
    <3>. QED BY <1>1, <2>1, LeastOf
  <2>3. DEFINE first == CHOOSE k \in hits : \A j \in hits : k <= j
  <2>4. first \in hits
    BY <2>2
  <2>5. Resolve(ref) = <<Contacts[first].email>>
    BY <1>1 DEF Resolve
  <2> HIDE DEF first
  <2>. QED BY <2>4, <2>5 DEF Candidates
<1>2. CASE hits = {}
  <2>1. Resolve(ref) = IF ref \in Address THEN <<ref>> ELSE <<>>
    BY <1>2 DEF Resolve
  <2>. QED BY <2>1 DEF Candidates
<1>. QED BY <1>1, <1>2

LEMMA PlansAreRight ==
  ASSUME NEW args \in Args, WellFormed(args), Plannable(args)
  PROVE  PlanRight(args, EventOf(args))
<1> DEFINE plan == EventOf(args)
           of(role) == {h \in args.guests : h.role = role}
           meant(role) == UNION {Candidates(g.ref) : g \in of(role)}
<1>1. plan.end > plan.start
  <2>1. /\ args.start \in Int /\ args.end \in Int /\ args.duration \in Int
        /\ DefaultDuration \in Nat \ {0}
    BY ArgsAssumption, PlanAssumption
  <2>. QED BY <2>1 DEF EventOf, End, Duration, Plannable
<1>2. ASSUME NEW role, NEW a \in Told(args.guests, role)
      PROVE  a \in meant(role) \ {""}
  <2>1. PICK g \in of(role) : Resolve(g.ref) # <<>> /\ a = Resolve(g.ref)[1] /\ a # ""
    BY DEF Told
  <2>2. a \in Candidates(g.ref)
    BY <2>1, ResolveRight
  <2>. QED BY <2>1, <2>2
<1>3. ASSUME NEW g \in args.guests, g.ref \notin plan.skipped
      PROVE  Candidates(g.ref) \cap (plan.required \cup plan.optional) # {}
  <2>1. Resolve(g.ref) # <<>> /\ Resolve(g.ref) # <<"">>
    BY <1>3 DEF EventOf, Skipped
  <2>2. Resolve(g.ref)[1] \in Candidates(g.ref) /\ Resolve(g.ref)[1] # ""
    BY <2>1, ResolveRight
  <2>3. Resolve(g.ref)[1] \in Told(args.guests, g.role)
    BY <2>1, <2>2 DEF Told
  <2>4. g.role \in {"participant", "fyi"}
    BY DEF WellFormed, Roles
  <2>. QED BY <2>2, <2>3, <2>4 DEF EventOf
<1>. QED BY <1>1, <1>2, <1>3 DEF PlanRight, EventOf

-----------------------------------------------------------------------------
(* The calendar relay.                                                     *)

Planned == {"rehearse", "quota", "open", "write", "auth", "storeOpen", "storeWrite", "insert",
            "answer"}
Busy == Planned \cup {"read", "reply"}
Answering == {"ok", "invalid_input", "not_allowed", "transport_failed", "unreachable",
              "contacts", "rehearsed"}
Given == Args \cup {CHOOSE a \in Args : TRUE}
CallState == [phase : {"new", "waiting", "done"}, args : Given, reply : Answering]
RelayState == [at : Busy \cup {"down", "listen"}, conn : Call \cup {NoCall}, service : BOOLEAN,
               label : Day, count : Nat, blind : BOOLEAN, resp : Answering]
Event == [call : Call, plan : {EventOf(args) : args \in Given}]

CallShape == call \in [Call -> CallState] /\ backlog \in Seq(Call)
RelayShape == relay \in RelayState /\ (relay.conn \in Call <=> relay.at \in Busy)
QuotaShape ==
  /\ day \in Day
  /\ quotaFile \in [date : Day \cup {-1}, count : Nat]
  /\ charged \in [Day -> Nat]
  /\ lost \in [Day -> Int]
EventShape == events \in Seq(Event)

CalendarShape == CallShape /\ RelayShape /\ QuotaShape /\ EventShape

LEMMA ShapeStarts == CalendarInit => CalendarShape
BY RelayAssumption, NoCallAssumption
   DEF CalendarInit, CalendarShape, CallShape, RelayShape, QuotaShape, EventShape, CallState,
       Given, RelayState, Unasked, Stopped, NoCount, Day, Answering, Planned, Busy

\* The relay goes on with the connection it has.
Advances(place, resp) ==
  /\ relay.at \in Busy
  /\ \/ relay' = [relay EXCEPT !.at = place]
     \/ relay' = [relay EXCEPT !.at = place, !.resp = resp]
     \/ relay' = [relay EXCEPT !.at = place, !.service = TRUE]
     \/ \E label \in Day, count \in Nat, blind \in BOOLEAN :
          relay' = [relay EXCEPT !.at = place, !.label = label, !.count = count, !.blind = blind]
  /\ UNCHANGED <<dry, day, call, backlog>>

LEMMA AdvancesShape ==
  ASSUME CalendarShape, NEW place \in Busy, NEW resp \in Answering, Advances(place, resp)
  PROVE  CallShape' /\ RelayShape'
<1>1. relay' \in RelayState
  BY DEF Advances, CalendarShape, RelayShape, RelayState
<1>2. relay'.at = place /\ relay'.conn = relay.conn
  BY DEF Advances, CalendarShape, RelayShape, RelayState
<1>. QED BY <1>1, <1>2 DEF Advances, CalendarShape, CallShape, RelayShape

\* All that the relay does between taking up a connection and answering it.
Work ==
  \/ Read \/ Rehearse
  \/ TakeSlot \/ QuotaOpened \/ QuotaNotOpened \/ QuotaWritten \/ QuotaNotWritten
  \/ Authorised \/ Refreshed \/ NotAuthorised
  \/ TokenOpened \/ TokenWritten \/ TokenNotStored
  \/ Insert \/ InsertFails \/ InsertAnswered

LEMMA WorkAdvances ==
  ASSUME CalendarShape, Work
  PROVE  \E place \in Busy \ {"read"}, resp \in Answering : Advances(place, resp)
<1> USE DEF Goes, Answers, Advances, calendarFiles, chargeHistory
<1>1. CASE Read \/ Rehearse
  BY <1>1 DEF Read, Rehearse, Busy, Planned, Answering
<1>2. CASE TakeSlot
  <2>1. PICK blind \in BOOLEAN, count \in {0, CountOf(quotaFile, day)} :
          /\ relay.at = "quota" /\ UNCHANGED <<dry, day, call, backlog>>
          /\ \/ relay' = [relay EXCEPT !.at = "reply", !.resp = "not_allowed"]
             \/ relay' = [relay EXCEPT !.at = "open", !.label = day,
                                       !.count = count + 1, !.blind = blind]
    BY <1>2 DEF TakeSlot
  <2>2. day \in Day /\ count + 1 \in Nat
    BY DEF CalendarShape, QuotaShape, CountOf
  <2>3. CASE relay' = [relay EXCEPT !.at = "reply", !.resp = "not_allowed"]
    BY <2>1, <2>3 DEF Busy, Planned, Answering
  <2>4. CASE relay' = [relay EXCEPT !.at = "open", !.label = day,
                                    !.count = count + 1, !.blind = blind]
    <3>1. Advances("open", "ok")
      BY <2>1, <2>2, <2>4 DEF Busy, Planned
    <3>. QED BY <3>1 DEF Busy, Planned, Answering
  <2>. QED BY <2>1, <2>3, <2>4
<1>3. CASE QuotaOpened \/ QuotaNotOpened \/ QuotaWritten \/ QuotaNotWritten
  <2>1. CASE QuotaOpened
    BY <1>3, <2>1 DEF QuotaOpened, Busy, Planned, Answering
  <2>2. CASE QuotaNotOpened \/ QuotaWritten \/ QuotaNotWritten
    <3>1. 0 \in Day
      BY RelayAssumption DEF Day
    <3>2. Advances("auth", "ok")
      BY <2>2, <3>1
         DEF QuotaNotOpened, QuotaWritten, QuotaNotWritten, Granted, Busy, Planned
    <3>. QED BY <3>2 DEF Busy, Planned, Answering
  <2>. QED BY <1>3, <2>1, <2>2
<1>4. CASE Authorised \/ Refreshed \/ NotAuthorised
  BY <1>4 DEF Authorised, Refreshed, NotAuthorised, Busy, Planned, Answering
<1>5. CASE TokenOpened \/ TokenWritten \/ TokenNotStored
  BY <1>5 DEF TokenOpened, TokenWritten, TokenNotStored, Busy, Planned, Answering
<1>6. CASE Insert \/ InsertFails \/ InsertAnswered
  BY <1>6 DEF Insert, InsertFails, InsertAnswered, Outcome, Busy, Planned, Answering
<1>. QED BY <1>1, <1>2, <1>3, <1>4, <1>5, <1>6 DEF Work

LEMMA CallsKeepShape ==
  ASSUME CalendarShape, [CalendarNext]_calendarVars
  PROVE  CallShape' /\ RelayShape'
<1> USE DEF calendarFiles, chargeHistory
<1>1. ASSUME NEW c \in Call, NEW args \in Args, Ask(c, args) PROVE CallShape' /\ RelayShape'
  <2>1. PICK phase \in {"waiting", "done"}, resp \in Answering :
          call' = [call EXCEPT ![c] = [phase |-> phase, args |-> args, reply |-> resp]]
    BY <1>1 DEF Ask, Answering
  <2>2. call' \in [Call -> CallState]
    BY <2>1 DEF CalendarShape, CallShape, CallState, Given
  <2>3. relay' = relay /\ (backlog' = backlog \/ backlog' = Append(backlog, c))
    BY <1>1 DEF Ask
  <2>4. backlog' \in Seq(Call)
    BY <2>3 DEF CalendarShape, CallShape
  <2>. QED BY <2>2, <2>3, <2>4 DEF CallShape, RelayShape, CalendarShape
<1>2. ASSUME NEW c \in Call, NEW resp \in Answering,
             call' = Ended(c, resp)
      PROVE  call' \in [Call -> CallState]
  BY <1>2 DEF CalendarShape, CallShape, CallState, Ended
<1>3. ASSUME NEW c \in Call, StopsWaiting(c) PROVE CallShape' /\ RelayShape'
  BY <1>2, <1>3 DEF StopsWaiting, CalendarShape, CallShape, RelayShape, Answering
<1>4. CASE Accept
  <2>1. Head(backlog) \in Call /\ Tail(backlog) \in Seq(Call)
    BY <1>4 DEF Accept, CalendarShape, CallShape
  <2>2. relay' = [relay EXCEPT !.at = "read", !.conn = Head(backlog)]
    BY <1>4 DEF Accept
  <2>3. relay' \in RelayState /\ relay'.at = "read" /\ relay'.conn \in Call
    BY <2>1, <2>2 DEF CalendarShape, RelayShape, RelayState, Busy
  <2>. QED BY <1>4, <2>1, <2>3 DEF Accept, CalendarShape, CallShape, RelayShape, Busy
<1>5. CASE Work
  BY <1>5, WorkAdvances, AdvancesShape
<1>6. CASE SendReply
  <2>1. relay.conn \in Call /\ relay.resp \in Answering
    BY <1>6 DEF SendReply, CalendarShape, RelayShape, RelayState, Busy
  <2>2. call' \in [Call -> CallState]
    BY <1>2, <1>6, <2>1 DEF SendReply, CalendarShape, CallShape
  <2>3. relay' = [relay EXCEPT !.at = "listen", !.conn = NoCall]
    BY <1>6 DEF SendReply
  <2>4. relay' \in RelayState /\ relay'.at = "listen" /\ relay'.conn = NoCall
    BY <2>3 DEF CalendarShape, RelayShape, RelayState
  <2>. QED BY <1>6, <2>2, <2>4, NoCallAssumption
           DEF SendReply, CalendarShape, CallShape, RelayShape, Busy, Planned
<1>7. CASE RelayStarts
  <2>1. relay' = [relay EXCEPT !.at = "listen"] /\ relay.at = "down"
    BY <1>7 DEF RelayStarts, Goes
  <2>2. relay' \in RelayState /\ relay'.at = "listen" /\ relay'.conn = relay.conn
    BY <2>1 DEF CalendarShape, RelayShape, RelayState
  <2>. QED BY <1>7, <2>1, <2>2
           DEF RelayStarts, CalendarShape, CallShape, RelayShape, Busy, Planned
<1>8. CASE RelayDies
  <2>1. \A c \in Call : \/ call'[c] = call[c]
                        \/ \E resp \in Answering :
                             call'[c] = [call[c] EXCEPT !.phase = "done", !.reply = resp]
    BY <1>8 DEF RelayDies, Answering
  <2>2. DOMAIN call' = Call /\ call' = [c \in Call |-> call'[c]]
    BY <1>8 DEF RelayDies
  <2>3. \A c \in Call : call[c] \in CallState
    BY DEF CalendarShape, CallShape
  <2>4. ASSUME NEW c \in Call PROVE call'[c] \in CallState
    <3>1. CASE call'[c] = call[c]
      BY <2>3, <3>1
    <3>2. ASSUME NEW resp \in Answering,
                 call'[c] = [call[c] EXCEPT !.phase = "done", !.reply = resp]
          PROVE  call'[c] \in CallState
      BY <2>3, <3>2 DEF CallState
    <3>. QED BY <2>1, <3>1, <3>2
  <2>5. relay' = Stopped /\ backlog' = <<>>
    BY <1>8 DEF RelayDies
  <2>6. relay' \in RelayState /\ relay'.at = "down" /\ relay'.conn = NoCall
    BY <2>5, RelayAssumption DEF Stopped, RelayState, Day, Answering
  <2>. QED BY <2>2, <2>4, <2>5, <2>6, NoCallAssumption DEF CallShape, RelayShape, Busy, Planned
<1>9. CASE Midnight \/ TokenExpires \/ Authorize \/ UNCHANGED calendarVars
  BY <1>9 DEF Midnight, TokenExpires, Authorize, calendarVars, CalendarShape, CallShape, RelayShape
<1>. QED BY <1>1, <1>3, <1>4, <1>5, <1>6, <1>7, <1>8, <1>9 DEF CalendarNext, Serve, Work

LEMMA ShapeStep == CalendarShape /\ [CalendarNext]_calendarVars => CalendarShape'
<1> SUFFICES ASSUME CalendarShape, [CalendarNext]_calendarVars PROVE CalendarShape'
  OBVIOUS
<1>0. CallShape' /\ RelayShape'
  BY CallsKeepShape
<1>a. relay.label \in Day /\ relay.count \in Nat /\ (relay.at \in Busy => relay.conn \in Call)
  BY DEF CalendarShape, RelayShape, RelayState
<1>b. QuotaShape /\ EventShape
  BY DEF CalendarShape
<1> SUFFICES QuotaShape' /\ EventShape'
  BY <1>0 DEF CalendarShape
<1> USE DEF calendarFiles, chargeHistory
<1>1. CASE TakeSlot
  <2>1. UNCHANGED <<day, quotaFile, events>>
    BY <1>1 DEF TakeSlot
  <2>2. /\ charged' = charged \/ charged' = [charged EXCEPT ![day] = @ + 1]
        /\ lost' = lost \/ lost' = [lost EXCEPT ![day] = @ + 1]
    BY <1>1 DEF TakeSlot
  <2>3. charged' \in [Day -> Nat] /\ lost' \in [Day -> Int]
    BY <1>b, <2>2 DEF QuotaShape
  <2>. QED BY <1>b, <2>1, <2>3 DEF QuotaShape, EventShape
<1>2. CASE QuotaOpened
  BY <1>2, <1>b DEF QuotaOpened, NoCount, QuotaShape, EventShape
<1>c. ASSUME \/ lost' = lost
             \/ lost' = [lost EXCEPT ![relay.label] = @ + 1]
             \/ lost' = [lost EXCEPT ![relay.label] = charged[relay.label]],
             UNCHANGED <<day, quotaFile, charged, events>>
      PROVE  QuotaShape' /\ EventShape'
  <2>1. lost' \in [Day -> Int]
    BY <1>c, <1>a, <1>b DEF QuotaShape
  <2>. QED BY <1>c, <1>b, <2>1 DEF QuotaShape, EventShape
<1>d. CASE QuotaWritten
  <2>1. /\ quotaFile' = [date |-> relay.label, count |-> relay.count]
        /\ lost' = lost \/ lost' = [lost EXCEPT ![relay.label] = charged[relay.label] - 1]
        /\ relay.at = "write" /\ UNCHANGED <<day, charged, events>>
    BY <1>d DEF QuotaWritten
  <2>2. charged[relay.label] - 1 \in Int
    BY <1>a, <1>b DEF QuotaShape
  <2>3. lost' \in [Day -> Int] /\ quotaFile' \in [date : Day \cup {-1}, count : Nat]
    BY <2>1, <2>2, <1>a, <1>b DEF QuotaShape
  <2>. QED BY <1>b, <2>1, <2>3 DEF QuotaShape, EventShape
<1>3. CASE QuotaNotOpened \/ QuotaNotWritten
  BY <1>3, <1>c DEF QuotaNotOpened, QuotaNotWritten, OneLost, AllLost
<1>4. CASE RelayDies
  BY <1>4, <1>c DEF RelayDies, OneLost, AllLost
<1>5. CASE Midnight
  BY <1>5, <1>b, RelayAssumption DEF Midnight, QuotaShape, EventShape, Day
<1>6. CASE Insert
  <2>1. relay.conn \in Call /\ relay.at = "insert"
    BY <1>6, <1>a DEF Insert, Busy, Planned
  <2>2. EventOf(Asked) \in {EventOf(args) : args \in Given}
    BY <2>1 DEF CalendarShape, CallShape, CallState, Asked
  <2>3. [call |-> relay.conn, plan |-> EventOf(Asked)] \in Event
    BY <2>1, <2>2 DEF Event
  <2>4. events' \in Seq(Event)
    BY <1>6, <1>b, <2>3 DEF Insert, EventShape
  <2>. QED BY <1>6, <1>b, <2>4 DEF Insert, QuotaShape, EventShape
<1>7. CASE UNCHANGED <<day, quotaFile, charged, lost, events>>
  BY <1>7, <1>b DEF QuotaShape, EventShape
<1>8. [CalendarNext]_calendarVars =>
        \/ TakeSlot \/ QuotaOpened \/ QuotaWritten \/ QuotaNotOpened \/ QuotaNotWritten
        \/ RelayDies \/ Midnight \/ Insert
        \/ UNCHANGED <<day, quotaFile, charged, lost, events>>
  BY DEF CalendarNext, Serve, calendarVars, Ask, StopsWaiting, Accept, Read, Rehearse, Authorised,
         Refreshed, NotAuthorised, TokenOpened, TokenWritten, TokenNotStored, InsertFails,
         InsertAnswered, SendReply, RelayStarts, TokenExpires, Authorize
<1>. QED BY <1>1, <1>2, <1>d, <1>3, <1>4, <1>5, <1>6, <1>7, <1>8

-----------------------------------------------------------------------------
(* The daily quota.                                                        *)

\* The thread has a slot in hand that it has not written down.
InHand == relay.at \in {"open", "write"}

\* What the quota file, or the thread about to write it, knows of today; a slot
\* that was granted blindly is not among it before it is written.
KnownToday ==
  IF relay.label = day /\ relay.at = "write" THEN relay.count
  ELSE IF relay.label = day /\ relay.at = "open" /\ ~relay.blind THEN CountOf(quotaFile, day) + 1
  ELSE CountOf(quotaFile, day)

\* All that was counted is gone, and not yet written off.
Overwriting == relay.at = "write" /\ relay.blind /\ relay.label = day

HandInv ==
  InHand =>
    /\ charged[relay.label] > 0 /\ DailyLimit > 0
    /\ relay.blind => relay.count = 1
    /\ relay.label < day => charged[day] = 0
    /\ relay.at = "open" /\ relay.label = day /\ ~relay.blind =>
         relay.count = CountOf(quotaFile, day) + 1

QuotaInv ==
  /\ QuotaKept
  /\ \A d \in Day : lost[d] >= 0
  /\ \A d \in Day : d > day => charged[d] = 0
  /\ relay.label <= day
  /\ ~Overwriting => charged[day] <= KnownToday + lost[day]
  /\ HandInv

LEMMA QuotaStarts == CalendarInit => QuotaInv
BY RelayAssumption
   DEF CalendarInit, QuotaInv, QuotaKept, KnownToday, CountOf, Stopped, NoCount, Day, Overwriting,
       HandInv, InHand

\* A grant, to a count that is the file's or, blindly, none.
LEMMA GrantKeeps ==
  ASSUME CalendarShape, QuotaInv, TakeSlot, NEW blind \in BOOLEAN, NEW count \in Nat,
         count = IF blind THEN 0 ELSE CountOf(quotaFile, day),
         ~AtLimit(count),
         relay' = [relay EXCEPT !.at = "open", !.label = day, !.count = count + 1, !.blind = blind],
         charged' = [charged EXCEPT ![day] = @ + 1],
         lost' = IF blind THEN [lost EXCEPT ![day] = @ + 1] ELSE lost
  PROVE  QuotaInv'
<1>1. /\ charged \in [Day -> Nat] /\ lost \in [Day -> Int] /\ day \in Day /\ day \in Nat
      /\ DailyLimit \in Nat /\ CountOf(quotaFile, day) \in Nat /\ relay \in RelayState
      /\ \A d \in Day : d \in Nat
  BY RelayAssumption DEF CalendarShape, RelayShape, QuotaShape, CountOf, Day
<1>2. relay.at = "quota" /\ UNCHANGED <<day, quotaFile>>
  BY DEF TakeSlot, calendarFiles
<1>3. /\ relay'.at = "open" /\ relay'.label = day /\ relay'.count = count + 1
      /\ relay'.blind = blind
  BY <1>1 DEF RelayState
<1>4. charged[day] <= CountOf(quotaFile, day) + lost[day] /\ lost[day] >= 0
  BY <1>1, <1>2 DEF QuotaInv, KnownToday, Overwriting
<1>5. count < DailyLimit
  BY <1>1 DEF AtLimit
<1>6. /\ charged'[day] = charged[day] + 1 /\ charged'[day] \in Nat
      /\ \A d \in Day : d # day => charged'[d] = charged[d]
      /\ lost'[day] = IF blind THEN lost[day] + 1 ELSE lost[day]
      /\ \A d \in Day : d # day => lost'[d] = lost[d]
      /\ \A d \in Day : lost[d] \in Int /\ charged[d] \in Nat
  BY <1>1
<1>7. charged'[day] <= DailyLimit + lost'[day]
  <2>1. charged[day] <= DailyLimit + lost[day]
    BY <1>1 DEF QuotaInv, QuotaKept
  <2>. QED BY <1>1, <1>4, <1>5, <1>6, <2>1
<1>8. QuotaKept' /\ (\A d \in Day : lost'[d] >= 0)
  BY <1>1, <1>4, <1>6, <1>7 DEF QuotaInv, QuotaKept
<1>9. \A d \in Day : d > day' => charged'[d] = 0
  BY <1>1, <1>2, <1>6 DEF QuotaInv
<1>10. charged'[day'] <= KnownToday' + lost'[day']
  <2>1. KnownToday' = IF blind THEN CountOf(quotaFile, day) ELSE CountOf(quotaFile, day) + 1
    BY <1>2, <1>3 DEF KnownToday, CountOf
  <2>. QED BY <1>1, <1>2, <1>4, <1>6, <2>1
<1>11. HandInv'
  BY <1>1, <1>2, <1>3, <1>5, <1>6 DEF HandInv, CountOf
<1>. QED BY <1>1, <1>2, <1>3, <1>8, <1>9, <1>10, <1>11 DEF QuotaInv

\* The thread is done with the slot in its hand, or never had one.
LEMMA QuotaSettled ==
  ASSUME CalendarShape, QuotaInv, UNCHANGED <<day, charged>>,
         relay'.at \notin {"open", "write"}, relay'.label <= day,
         lost' \in [Day -> Int],
         \A d \in Day : lost'[d] >= 0 /\ charged[d] <= DailyLimit + lost'[d],
         charged[day] <= CountOf(quotaFile', day) + lost'[day]
  PROVE  QuotaInv'
<1>1. KnownToday' = CountOf(quotaFile', day)
  BY DEF KnownToday, CountOf
<1>. QED BY <1>1 DEF QuotaInv, QuotaKept, Overwriting, HandInv, InHand

\* Nothing of the slot in hand was written, or what was counted is gone.
LEMMA NotWritten ==
  ASSUME CalendarShape, QuotaInv, UNCHANGED <<day, charged, quotaFile>>,
         relay'.at \notin {"open", "write"}, relay'.label <= day,
         \/ relay.at = "open" /\ lost' = OneLost
         \/ relay.at = "write" /\ lost' = AllLost
  PROVE  QuotaInv'
<1>1. /\ charged \in [Day -> Nat] /\ lost \in [Day -> Int] /\ day \in Day /\ day \in Nat
      /\ DailyLimit \in Nat /\ CountOf(quotaFile, day) \in Nat
      /\ relay.label \in Day /\ relay.label \in Nat /\ relay.blind \in BOOLEAN
  BY RelayAssumption DEF CalendarShape, RelayShape, RelayState, QuotaShape, CountOf, Day
<1>2. \A d \in Day : /\ lost[d] \in Int /\ charged[d] \in Nat /\ lost[d] >= 0
                     /\ charged[d] <= DailyLimit + lost[d]
  BY <1>1 DEF QuotaInv, QuotaKept
<1>3. CASE relay.at = "open" /\ lost' = OneLost
  <2>1. /\ lost' \in [Day -> Int]
        /\ \A d \in Day : lost'[d] = IF d = relay.label /\ ~relay.blind THEN lost[d] + 1 ELSE lost[d]
    BY <1>1, <1>3 DEF OneLost
  <2>2. charged[day] <= CountOf(quotaFile, day) + lost'[day]
    <3>1. CASE relay.label = day
      <4>1. charged[day] <= KnownToday + lost[day]
        BY <1>3 DEF QuotaInv, Overwriting
      <4>2. KnownToday = IF relay.blind THEN CountOf(quotaFile, day) ELSE CountOf(quotaFile, day) + 1
        BY <1>3, <3>1 DEF KnownToday
      <4>. QED BY <1>1, <1>2, <2>1, <3>1, <4>1, <4>2
    <3>2. CASE relay.label # day
      <4>1. charged[day] = 0
        BY <1>1, <1>3, <3>2 DEF QuotaInv, HandInv, InHand
      <4>. QED BY <1>1, <1>2, <2>1, <3>2, <4>1
    <3>. QED BY <3>1, <3>2
  <2>3. \A d \in Day : lost'[d] >= 0 /\ charged[d] <= DailyLimit + lost'[d]
    BY <1>1, <1>2, <2>1
  <2>. QED BY <2>1, <2>2, <2>3, QuotaSettled
<1>4. CASE relay.at = "write" /\ lost' = AllLost
  <2>1. /\ lost' \in [Day -> Int]
        /\ \A d \in Day : lost'[d] = IF d = relay.label THEN charged[d] ELSE lost[d]
    BY <1>1, <1>4 DEF AllLost
  <2>2. charged[day] <= CountOf(quotaFile, day) + lost'[day]
    <3>1. CASE relay.label = day
      BY <1>1, <1>2, <2>1, <3>1
    <3>2. CASE relay.label # day
      <4>1. charged[day] = 0
        BY <1>1, <1>4, <3>2 DEF QuotaInv, HandInv, InHand
      <4>. QED BY <1>1, <1>2, <2>1, <3>2, <4>1
    <3>. QED BY <3>1, <3>2
  <2>3. \A d \in Day : lost'[d] >= 0 /\ charged[d] <= DailyLimit + lost'[d]
    BY <1>1, <1>2, <2>1
  <2>. QED BY <2>1, <2>2, <2>3, QuotaSettled
<1>. QED BY <1>3, <1>4

\* A slot that was granted blindly overwrites what was counted of its day.
LEMMA WrittenKeeps ==
  ASSUME CalendarShape, QuotaInv, QuotaWritten
  PROVE  QuotaInv'
<1>1. /\ charged \in [Day -> Nat] /\ lost \in [Day -> Int] /\ day \in Day /\ day \in Nat
      /\ DailyLimit \in Nat /\ relay \in RelayState
      /\ relay.label \in Day /\ relay.label \in Nat /\ relay.blind \in BOOLEAN
      /\ relay.count \in Nat
  BY RelayAssumption DEF CalendarShape, RelayShape, RelayState, QuotaShape, Day
<1>2. \A d \in Day : /\ lost[d] \in Int /\ charged[d] \in Nat /\ lost[d] >= 0
                     /\ charged[d] <= DailyLimit + lost[d]
  BY <1>1 DEF QuotaInv, QuotaKept
<1>3. /\ relay.at = "write" /\ UNCHANGED <<day, charged>>
      /\ quotaFile' = [date |-> relay.label, count |-> relay.count]
      /\ lost' = IF relay.blind THEN [lost EXCEPT ![relay.label] = charged[relay.label] - 1] ELSE lost
  BY DEF QuotaWritten
<1>4. relay'.at = "auth" /\ relay'.label = 0
  BY <1>1 DEF QuotaWritten, Granted, RelayState
<1>5. /\ charged[relay.label] > 0 /\ DailyLimit > 0 /\ (relay.blind => relay.count = 1)
      /\ relay.label < day => charged[day] = 0
  BY <1>3 DEF QuotaInv, HandInv, InHand
<1>6. /\ lost' \in [Day -> Int]
      /\ \A d \in Day : lost'[d] = IF d = relay.label /\ relay.blind THEN charged[d] - 1 ELSE lost[d]
  BY <1>1, <1>2, <1>3
<1>7. CountOf(quotaFile', day) = IF relay.label = day THEN relay.count ELSE 0
  BY <1>3 DEF CountOf
<1>8. charged[day] <= CountOf(quotaFile', day) + lost'[day]
  <2>1. CASE relay.label = day /\ relay.blind
    BY <1>1, <1>2, <1>5, <1>6, <1>7, <2>1
  <2>2. CASE relay.label = day /\ ~relay.blind
    <3>1. charged[day] <= relay.count + lost[day]
      BY <1>3, <2>2 DEF QuotaInv, Overwriting, KnownToday
    <3>. QED BY <1>1, <1>2, <1>6, <1>7, <2>2, <3>1
  <2>3. CASE relay.label # day
    <3>1. charged[day] = 0
      BY <1>1, <1>5, <2>3 DEF QuotaInv
    <3>. QED BY <1>1, <1>2, <1>6, <1>7, <2>3, <3>1
  <2>. QED BY <2>1, <2>2, <2>3
<1>9. \A d \in Day : lost'[d] >= 0 /\ charged[d] <= DailyLimit + lost'[d]
  BY <1>1, <1>2, <1>5, <1>6
<1>. QED BY <1>1, <1>3, <1>4, <1>6, <1>8, <1>9, QuotaSettled

LEMMA MidnightKeeps ==
  ASSUME CalendarShape, QuotaInv, Midnight
  PROVE  QuotaInv'
<1>1. /\ charged \in [Day -> Nat] /\ lost \in [Day -> Int] /\ day \in Day /\ day \in Nat
      /\ relay.label \in Nat
      /\ \A d \in Day : d \in Nat
  BY RelayAssumption DEF CalendarShape, RelayShape, RelayState, QuotaShape, Day
<1>2. day' = day + 1 /\ day' \in Day /\ UNCHANGED <<relay, quotaFile, charged, lost>>
  BY <1>1, RelayAssumption DEF Midnight, Day, calendarFiles, chargeHistory
<1>3. charged'[day'] = 0 /\ relay'.label < day' /\ relay'.label # day'
  BY <1>1, <1>2 DEF QuotaInv
<1>4. CountOf(quotaFile, day)' \in Nat /\ lost'[day'] \in Int /\ lost'[day'] >= 0
  BY <1>1, <1>2 DEF CalendarShape, QuotaShape, QuotaInv, CountOf
<1>5. KnownToday' = CountOf(quotaFile, day)'
  BY <1>3 DEF KnownToday
<1>6. charged'[day'] <= KnownToday' + lost'[day']
  BY <1>3, <1>4, <1>5
<1>7. \A d \in Day : d > day' => charged'[d] = 0
  BY <1>1, <1>2 DEF QuotaInv
<1>8. QuotaKept' /\ (\A d \in Day : lost'[d] >= 0)
  BY <1>2 DEF QuotaInv, QuotaKept
<1>9. HandInv'
  BY <1>1, <1>2, <1>3 DEF QuotaInv, HandInv, InHand
<1>10. relay'.label <= day'
  BY <1>1, <1>2, <1>3
<1>. QED BY <1>6, <1>7, <1>8, <1>9, <1>10 DEF QuotaInv

LEMMA QuotaStep == CalendarShape /\ QuotaInv /\ [CalendarNext]_calendarVars => QuotaInv'
<1> SUFFICES ASSUME CalendarShape, QuotaInv, [CalendarNext]_calendarVars PROVE QuotaInv'
  OBVIOUS
<1> USE DEF calendarFiles, chargeHistory
<1>s. QuotaShape /\ DailyLimit \in Nat /\ relay \in RelayState
  BY RelayAssumption DEF CalendarShape, RelayShape
<1>a. /\ relay.label \in Day /\ relay.label \in Nat /\ relay.count \in Nat /\ day \in Nat /\ day \in Day
      /\ CountOf(quotaFile, day) \in Nat
  BY <1>s DEF RelayState, QuotaShape, CountOf, Day
<1>9. ASSUME UNCHANGED <<day, quotaFile, charged, lost>>, relay'.label = relay.label,
             \/ relay' = relay
             \/ relay.at \notin {"open", "write"} /\ relay'.at \notin {"open", "write"}
      PROVE  QuotaInv'
  <2>1. CASE relay' = relay
    BY <1>9, <2>1 DEF QuotaInv, QuotaKept, KnownToday, CountOf, Overwriting, HandInv, InHand
  <2>2. CASE relay.at \notin {"open", "write"} /\ relay'.at \notin {"open", "write"}
    BY <1>9, <2>2 DEF QuotaInv, QuotaKept, KnownToday, CountOf, Overwriting, HandInv, InHand
  <2>. QED BY <1>9, <2>1, <2>2
<1>1. CASE TakeSlot
  <2>1. PICK blind \in BOOLEAN :
          LET count == IF blind THEN 0 ELSE CountOf(quotaFile, day)
          IN  IF AtLimit(count)
              THEN Answers("not_allowed") /\ UNCHANGED chargeHistory
              ELSE /\ relay' = [relay EXCEPT !.at = "open", !.label = day,
                                             !.count = count + 1, !.blind = blind]
                   /\ charged' = [charged EXCEPT ![day] = @ + 1]
                   /\ lost' = IF blind THEN [lost EXCEPT ![day] = @ + 1] ELSE lost
    BY <1>1 DEF TakeSlot
  <2> DEFINE count == IF blind THEN 0 ELSE CountOf(quotaFile, day)
  <2>2. count \in Nat
    BY <1>a
  <2>3. CASE AtLimit(count)
    <3>1. /\ relay.at = "quota" /\ relay' = [relay EXCEPT !.at = "reply", !.resp = "not_allowed"]
          /\ UNCHANGED <<day, quotaFile, charged, lost>>
      BY <1>1, <2>1, <2>3 DEF TakeSlot, Answers
    <3>2. relay'.at = "reply" /\ relay'.label = relay.label
      BY <1>s, <3>1 DEF RelayState
    <3>. QED BY <1>9, <3>1, <3>2
  <2>4. CASE ~AtLimit(count)
    <3> HIDE DEF count
    <3>1. count = IF blind THEN 0 ELSE CountOf(quotaFile, day)
      BY DEF count
    <3>2. /\ relay' = [relay EXCEPT !.at = "open", !.label = day, !.count = count + 1,
                                    !.blind = blind]
          /\ charged' = [charged EXCEPT ![day] = @ + 1]
          /\ lost' = IF blind THEN [lost EXCEPT ![day] = @ + 1] ELSE lost
      BY <2>1, <2>4 DEF count
    <3>. QED BY <1>1, <2>2, <2>4, <3>1, <3>2, GrantKeeps
  <2>. QED BY <2>3, <2>4
<1>2. CASE QuotaOpened
  <2>1. /\ relay.at = "open" /\ relay' = [relay EXCEPT !.at = "write"] /\ quotaFile' = NoCount
        /\ UNCHANGED <<day, charged, lost>>
    BY <1>2 DEF QuotaOpened, Goes
  <2>2. /\ relay'.at = "write" /\ relay'.label = relay.label /\ relay'.count = relay.count
        /\ relay'.blind = relay.blind
    BY <1>s, <2>1 DEF RelayState
  <2>3. CountOf(quotaFile, day)' = 0
    BY <2>1, <1>a DEF CountOf, NoCount
  <2>4. HandInv /\ HandInv'
    BY <2>1, <2>2 DEF QuotaInv, HandInv, InHand
  <2>5. ~Overwriting' => charged'[day'] <= KnownToday' + lost'[day']
    <3>1. CASE relay.label = day /\ ~relay.blind
      <4>1. charged[day] <= relay.count + lost[day]
        BY <2>1, <2>4, <3>1 DEF QuotaInv, Overwriting, KnownToday, HandInv, InHand
      <4>. QED BY <2>1, <2>2, <3>1, <4>1 DEF KnownToday
    <3>2. CASE relay.label = day /\ relay.blind
      BY <2>1, <2>2, <3>2 DEF Overwriting
    <3>3. CASE relay.label # day
      <4>1. charged[day] = 0 /\ lost[day] >= 0 /\ lost[day] \in Int
        BY <1>a, <1>s, <2>1, <2>4, <3>3 DEF QuotaInv, HandInv, InHand, QuotaShape
      <4>2. KnownToday' = 0
        BY <2>1, <2>2, <2>3, <3>3 DEF KnownToday
      <4>. QED BY <2>1, <4>1, <4>2
    <3>. QED BY <3>1, <3>2, <3>3
  <2>. QED BY <2>1, <2>2, <2>4, <2>5 DEF QuotaInv, QuotaKept
<1>3. CASE QuotaNotOpened \/ QuotaNotWritten
  <2>1. /\ UNCHANGED <<day, charged, quotaFile>>
        /\ \/ relay.at = "open" /\ lost' = OneLost
           \/ relay.at = "write" /\ lost' = AllLost
    BY <1>3 DEF QuotaNotOpened, QuotaNotWritten
  <2>2. relay'.at = "auth" /\ relay'.label = 0
    BY <1>3, <1>s DEF QuotaNotOpened, QuotaNotWritten, Granted, RelayState
  <2>. QED BY <1>a, <2>1, <2>2, NotWritten
<1>4. CASE QuotaWritten
  BY <1>4, WrittenKeeps
<1>7. CASE RelayDies
  <2>1. /\ relay' = Stopped /\ UNCHANGED <<day, charged, quotaFile>>
        /\ lost' = IF relay.at = "write" THEN AllLost ELSE IF relay.at = "open" THEN OneLost ELSE lost
    BY <1>7 DEF RelayDies
  <2>2. relay'.at = "down" /\ relay'.label = 0
    BY <2>1 DEF Stopped
  <2>3. CASE relay.at \in {"open", "write"}
    BY <1>a, <2>1, <2>2, <2>3, NotWritten
  <2>4. CASE relay.at \notin {"open", "write"}
    <3>1. lost' = lost /\ charged[day] <= CountOf(quotaFile, day) + lost[day]
      BY <2>1, <2>4 DEF QuotaInv, KnownToday, Overwriting
    <3>2. lost \in [Day -> Int]
          /\ \A d \in Day : lost[d] >= 0 /\ charged[d] <= DailyLimit + lost[d]
      BY <1>s DEF QuotaShape, QuotaInv, QuotaKept
    <3>. QED BY <1>a, <2>1, <2>2, <3>1, <3>2, QuotaSettled
  <2>. QED BY <2>3, <2>4
<1>8. CASE Midnight
  BY <1>8, MidnightKeeps
<1>10. CASE \/ Read \/ Rehearse \/ Authorised \/ Refreshed \/ NotAuthorised
            \/ TokenOpened \/ TokenWritten \/ TokenNotStored
            \/ Insert \/ InsertFails \/ InsertAnswered
  <2>1. /\ UNCHANGED <<day, quotaFile, charged, lost>>
        /\ relay.at \notin {"open", "write"}
        /\ \E place \in {"reply", "rehearse", "quota", "insert", "storeOpen", "storeWrite", "answer"},
              resp \in Answering :
             \/ relay' = [relay EXCEPT !.at = place]
             \/ relay' = [relay EXCEPT !.at = place, !.resp = resp]
             \/ relay' = [relay EXCEPT !.at = place, !.service = TRUE]
    BY <1>10 DEF Read, Rehearse, Authorised, Refreshed, NotAuthorised, TokenOpened, TokenWritten,
                 TokenNotStored, Insert, InsertFails, InsertAnswered, Goes, Answers, Outcome,
                 Answering
  <2>2. relay'.at \notin {"open", "write"} /\ relay'.label = relay.label
    BY <2>1, <1>s DEF RelayState
  <2>. QED BY <1>9, <2>1, <2>2
<1>11. CASE Accept \/ SendReply \/ RelayStarts
  <2>1. /\ UNCHANGED <<day, quotaFile, charged, lost>>
        /\ relay.at \notin {"open", "write"}
        /\ \/ relay' = [relay EXCEPT !.at = "read", !.conn = Head(backlog)]
           \/ relay' = [relay EXCEPT !.at = "listen", !.conn = NoCall]
           \/ relay' = [relay EXCEPT !.at = "listen"]
    BY <1>11 DEF Accept, SendReply, RelayStarts, Goes
  <2>2. relay'.at \notin {"open", "write"} /\ relay'.label = relay.label
    BY <2>1, <1>s DEF RelayState
  <2>. QED BY <1>9, <2>1, <2>2
<1>12. CASE \/ \E c \in Call : StopsWaiting(c) \/ \E args \in Args : Ask(c, args)
            \/ TokenExpires \/ Authorize \/ UNCHANGED calendarVars
  BY <1>9, <1>12 DEF StopsWaiting, Ask, TokenExpires, Authorize, calendarVars
<1>. QED BY <1>1, <1>2, <1>3, <1>4, <1>7, <1>8, <1>10, <1>11, <1>12
         DEF CalendarNext, Serve

\* For any number of calls, days and any limit: the slots of a day exceed the
\* limit by no more than the quota file was made to forget, by failing writes,
\* by deaths, and by reads that failed and were taken for an empty file.
THEOREM QuotaHolds == CalendarSpec => []QuotaKept
<1>1. CalendarSpec => [](CalendarShape /\ QuotaInv)
  BY ShapeStarts, ShapeStep, QuotaStarts, QuotaStep, PTL DEF CalendarSpec
<1>2. QuotaInv => QuotaKept
  BY DEF QuotaInv
<1>. QED BY <1>1, <1>2, PTL

-----------------------------------------------------------------------------
(* Events and answers.                                                     *)

Waiters == {backlog[i] : i \in DOMAIN backlog}

\* Each call is at one place: in the socket once, or with the relay.
TripInv ==
  /\ \A i, j \in DOMAIN backlog : backlog[i] = backlog[j] => i = j
  /\ relay.conn \notin Waiters
  /\ \A c \in Call : c \in Waiters \/ c = relay.conn =>
       call[c].phase # "new" /\ call[c].args \in Args /\ WellFormed(call[c].args)
  /\ relay.at \in Planned => Plannable(Asked)
  /\ dry => relay.at \notin Planned \ {"rehearse"}

\* An event is of a call that was carried that far, and is not carried again.
EventInv ==
  /\ dry => events = <<>>
  /\ \A i, j \in DOMAIN events : events[i].call = events[j].call => i = j
  /\ \A i \in DOMAIN events :
       LET c == events[i].call
       IN  /\ call[c].phase # "new" /\ call[c].args \in Args
           /\ WellFormed(call[c].args) /\ Plannable(call[c].args)
           /\ events[i].plan = EventOf(call[c].args)
  /\ \A c \in Call : Made(c) =>
       c \notin Waiters /\ (c = relay.conn => relay.at \in {"answer", "reply"})

\* What is answered is so, and whoever was refused is not served after all.
AnswerInv ==
  /\ relay.at = "answer" => Made(relay.conn)
  /\ relay.at = "reply" =>
       /\ relay.resp = "ok" => Made(relay.conn)
       /\ relay.resp \in Refusal => ~Made(relay.conn)
  /\ \A c \in Call : call[c].phase = "done" =>
       /\ call[c].reply = "ok" => Made(c)
       /\ call[c].reply \in Refusal => ~Made(c) /\ c \notin Waiters /\ c # relay.conn

RequestInv == TripInv /\ EventInv /\ AnswerInv

LEMMA RequestStarts == CalendarInit => RequestInv
BY NoCallAssumption
   DEF CalendarInit, RequestInv, TripInv, EventInv, AnswerInv, Waiters, Made, Refusal, Stopped,
       Unasked, Planned

\* What the agent was told stays true: `ok' means the event is there; a refusal
\* means it is not and will not be (handle_request, _roundtrip).
AnswersTrue ==
  \A c \in Call : call[c].phase = "done" =>
    /\ call[c].reply = "ok" => Made(c)
    /\ call[c].reply \in Refusal => ~Made(c)

LEMMA RequestGives == CalendarShape /\ RequestInv => EventsJustified /\ AnswersTrue
<1> SUFFICES ASSUME CalendarShape, RequestInv PROVE EventsJustified /\ AnswersTrue
  OBVIOUS
<1>1. \A i \in DOMAIN events : PlanRight(call[events[i].call].args, events[i].plan)
  BY PlansAreRight DEF RequestInv, EventInv
<1>2. EventsJustified
  BY <1>1 DEF RequestInv, EventInv, EventsJustified
<1>3. AnswersTrue
  BY DEF RequestInv, AnswerInv, AnswersTrue, Made, Refusal
<1>. QED BY <1>2, <1>3

LEMMA EventsOfCalls ==
  ASSUME EventShape, NEW i \in DOMAIN events
  PROVE  events[i].call \in Call
<1>1. events[i] \in Event
  BY DEF EventShape
<1>. QED BY <1>1 DEF Event

LEMMA AskKeeps ==
  ASSUME CalendarShape, RequestInv, NEW c \in Call, NEW args \in Args, Ask(c, args)
  PROVE  RequestInv'
<1>1. /\ call[c].phase = "new" /\ c \notin Waiters /\ c # relay.conn /\ ~Made(c)
      /\ UNCHANGED <<dry, relay, events>>
  BY DEF Ask, RequestInv, TripInv, EventInv, Made
<1>2. call \in [Call -> CallState] /\ backlog \in Seq(Call)
  BY DEF CalendarShape, CallShape
<1>3. \A d \in Call : d # c => call'[d] = call[d]
  BY <1>2 DEF Ask
<1>4. call'[c].args = args /\ call'[c].phase # "new"
  BY <1>2 DEF Ask
<1>5. \/ backlog' = backlog /\ call'[c].reply # "ok"
      \/ WellFormed(args) /\ backlog' = Append(backlog, c) /\ call'[c].phase = "waiting"
  BY <1>2 DEF Ask
<1>6. Waiters' = Waiters \/ (Waiters' = Waiters \cup {c} /\ WellFormed(args) /\ call'[c].phase = "waiting")
  <2>1. ASSUME backlog' = Append(backlog, c) PROVE Waiters' = Waiters \cup {c}
    <3>1. /\ DOMAIN backlog' = DOMAIN backlog \cup {Len(backlog) + 1}
          /\ backlog'[Len(backlog) + 1] = c
          /\ \A i \in DOMAIN backlog : backlog'[i] = backlog[i]
      BY <1>2, <2>1
    <3>. QED BY <3>1 DEF Waiters
  <2>2. backlog' = backlog => Waiters' = Waiters
    BY DEF Waiters
  <2>. QED BY <1>5, <2>1, <2>2
<1>7. \A i, j \in DOMAIN backlog' : backlog'[i] = backlog'[j] => i = j
  BY <1>1, <1>2, <1>5 DEF Waiters, RequestInv, TripInv
<1>8. TripInv'
  <2>1. Asked' = Asked \/ relay.at \notin Planned
    BY <1>1, <1>3 DEF Asked, CalendarShape, RelayShape, Busy
  <2>. QED BY <1>1, <1>3, <1>4, <1>6, <1>7, <2>1 DEF RequestInv, TripInv
<1>9. \A d \in Call : Made(d)' <=> Made(d)
  BY <1>1 DEF Made
<1>10. EventInv'
  <2>1. \A i \in DOMAIN events : events[i].call \in Call /\ events[i].call # c
    BY <1>1, EventsOfCalls DEF Made, CalendarShape
  <2>. QED BY <1>1, <1>3, <1>6, <1>9, <2>1 DEF RequestInv, EventInv
<1>11. AnswerInv'
  <2>1. relay.at \in {"answer", "reply"} => (Made(relay.conn)' <=> Made(relay.conn))
    BY <1>1 DEF Made
  <2>2. call'[c].phase = "done" => call'[c].reply # "ok" /\ Waiters' = Waiters
    BY <1>2, <1>5 DEF Waiters
  <2>. QED BY <1>1, <1>3, <1>6, <1>9, <2>1, <2>2 DEF RequestInv, AnswerInv
<1>. QED BY <1>8, <1>10, <1>11 DEF RequestInv

\* Calls that end, and are given nothing that was not true.
LEMMA EndKeeps ==
  ASSUME CalendarShape, RequestInv, UNCHANGED <<dry, events>>,
         relay'.at \in {"down", "listen"}, relay'.conn = NoCall,
         Waiters' \subseteq Waiters,
         \A i, j \in DOMAIN backlog' : backlog'[i] = backlog'[j] => i = j,
         \A c \in Call :
           \/ call'[c] = call[c]
           \/ /\ call[c].phase = "waiting" /\ call'[c].args = call[c].args
              /\ call'[c].phase = "done"
              /\ call'[c].reply = "ok" => Made(c)
              /\ call'[c].reply \in Refusal => ~Made(c) /\ c \notin Waiters'
  PROVE  RequestInv'
<1>1. \A c \in Call : Made(c)' <=> Made(c)
  BY DEF Made
<1>2. \A i \in DOMAIN events : events[i].call \in Call
  BY EventsOfCalls DEF CalendarShape
<1>3. relay'.at \notin {"answer", "reply"}
  OBVIOUS
<1>a. relay'.conn \notin Call /\ Waiters \subseteq Call
  BY NoCallAssumption DEF CalendarShape, CallShape, Waiters
<1>4. TripInv'
  <2>1. \A c \in Call : c \in Waiters' =>
           call'[c].phase # "new" /\ call'[c].args \in Args /\ WellFormed(call'[c].args)
    BY DEF RequestInv, TripInv
  <2>. QED BY <1>a, <2>1 DEF TripInv, Planned
<1>5. EventInv'
  <2>1. \A c \in Call : /\ call'[c].args = call[c].args
                        /\ call[c].phase # "new" => call'[c].phase # "new"
    OBVIOUS
  <2>2. \A c \in Call : Made(c)' => c \notin Waiters' /\ c # relay'.conn
    BY <1>1, <1>a DEF RequestInv, EventInv
  <2>. QED BY <1>2, <2>1, <2>2 DEF RequestInv, EventInv
<1>6. AnswerInv'
  <2>1. ASSUME NEW c \in Call, call'[c].phase = "done"
        PROVE  /\ call'[c].reply = "ok" => Made(c)
               /\ call'[c].reply \in Refusal => ~Made(c) /\ c \notin Waiters'
    BY <2>1 DEF RequestInv, AnswerInv
  <2>. QED BY <1>1, <1>3, <1>a, <2>1 DEF AnswerInv
<1>. QED BY <1>4, <1>5, <1>6 DEF RequestInv

LEMMA ReplyKeeps ==
  ASSUME CalendarShape, RequestInv, SendReply
  PROVE  RequestInv'
<1>1. /\ relay.at = "reply" /\ relay.conn \in Call
      /\ call \in [Call -> CallState] /\ relay \in RelayState
  BY DEF SendReply, CalendarShape, CallShape, RelayShape, Busy
<1>2. relay'.at = "listen" /\ relay'.conn = NoCall
  BY <1>1 DEF SendReply, RelayState
<1>3. UNCHANGED <<dry, events, backlog>> /\ Waiters' = Waiters
  BY DEF SendReply, Waiters
<1>4. \A c \in Call : \/ call'[c] = call[c]
                      \/ /\ c = relay.conn /\ call[c].phase = "waiting"
                         /\ call'[c].args = call[c].args /\ call'[c].phase = "done"
                         /\ call'[c].reply = relay.resp
  BY <1>1 DEF SendReply, Ended, CallState
<1>5. /\ relay.resp = "ok" => Made(relay.conn)
      /\ relay.resp \in Refusal => ~Made(relay.conn)
      /\ relay.conn \notin Waiters
      /\ \A i, j \in DOMAIN backlog : backlog[i] = backlog[j] => i = j
  BY <1>1 DEF RequestInv, AnswerInv, TripInv
<1>. QED BY <1>2, <1>3, <1>4, <1>5, EndKeeps

LEMMA DeathKeeps ==
  ASSUME CalendarShape, RequestInv, RelayDies
  PROVE  RequestInv'
<1>1. relay'.at = "down" /\ relay'.conn = NoCall /\ UNCHANGED <<dry, events>>
  BY DEF RelayDies, Stopped
<1>2. DOMAIN backlog' = {} /\ Waiters' = {}
  <2>1. backlog' = <<>>
    BY DEF RelayDies
  <2>2. DOMAIN backlog' = {}
    BY <2>1
  <2>. QED BY <2>2 DEF Waiters
<1> DEFINE undone == Waiters \cup (IF relay.at = "read" THEN {relay.conn} ELSE {})
<1>3. ASSUME NEW c \in Call, c \in undone PROVE ~Made(c)
  BY <1>3 DEF RequestInv, EventInv
<1>4. ASSUME NEW c \in Call, call'[c] # call[c]
      PROVE  /\ call[c].phase = "waiting" /\ call'[c].phase = "done"
             /\ call'[c].args = call[c].args
             /\ call'[c].reply = IF c \in undone THEN "invalid_input" ELSE "unreachable"
  <2>1. call[c] \in CallState
    BY DEF CalendarShape, CallShape
  <2>2. /\ call[c].phase = "waiting"
        /\ call'[c] = [call[c] EXCEPT !.phase = "done",
                                      !.reply = IF c \in undone THEN "invalid_input"
                                                ELSE "unreachable"]
    BY <1>4 DEF RelayDies, Waiters
  <2>. QED BY <2>1, <2>2 DEF CallState
<1>. QED BY <1>1, <1>2, <1>3, <1>4, EndKeeps DEF Refusal

LEMMA StartKeeps ==
  ASSUME CalendarShape, RequestInv, RelayStarts
  PROVE  RequestInv'
<1>1. relay.at = "down" /\ relay' = [relay EXCEPT !.at = "listen"]
      /\ UNCHANGED <<dry, call, backlog, events>>
  BY DEF RelayStarts, Goes
<1>2. relay \in RelayState /\ relay.conn = NoCall
  BY <1>1 DEF CalendarShape, RelayShape, RelayState, Busy, Planned
<1>3. relay'.at = "listen" /\ relay'.conn = NoCall
  BY <1>1, <1>2 DEF RelayState
<1>4. Waiters' = Waiters
  BY <1>1 DEF Waiters
<1>. QED BY <1>1, <1>3, <1>4, EndKeeps DEF RequestInv, TripInv

LEMMA GiveUpKeeps ==
  ASSUME CalendarShape, RequestInv, NEW c \in Call, StopsWaiting(c)
  PROVE  RequestInv'
<1>1. UNCHANGED <<dry, relay, backlog, events>> /\ Waiters' = Waiters
  BY DEF StopsWaiting, Waiters
<1>2. call \in [Call -> CallState] /\ (relay.at \in Busy => relay.conn \in Call)
  BY DEF CalendarShape, CallShape, RelayShape
<1>3. /\ call[c].phase = "waiting"
      /\ \A d \in Call : /\ call'[d].args = call[d].args
                         /\ call[d].phase # "new" => call'[d].phase # "new"
      /\ \A d \in Call : d # c => call'[d] = call[d]
      /\ call'[c].reply = "unreachable"
  BY <1>2 DEF StopsWaiting, Ended, CallState
<1>4. \A d : Made(d)' <=> Made(d)
  BY <1>1 DEF Made
<1>5. TripInv'
  BY <1>1, <1>2, <1>3 DEF RequestInv, TripInv, Asked, Busy
<1>6. EventInv'
  BY <1>1, <1>3, <1>4, EventsOfCalls DEF RequestInv, EventInv, CalendarShape
<1>7. AnswerInv'
  BY <1>1, <1>3, <1>4 DEF RequestInv, AnswerInv, Refusal
<1>. QED BY <1>5, <1>6, <1>7 DEF RequestInv

LEMMA AcceptKeeps ==
  ASSUME CalendarShape, RequestInv, Accept
  PROVE  RequestInv'
<1>1. /\ backlog \in Seq(Call) /\ backlog # <<>> /\ relay \in RelayState
      /\ relay' = [relay EXCEPT !.at = "read", !.conn = Head(backlog)]
      /\ backlog' = Tail(backlog) /\ UNCHANGED <<dry, call, events>>
  BY DEF Accept, CalendarShape, CallShape, RelayShape
<1>2. relay'.at = "read" /\ relay'.conn = backlog[1]
  BY <1>1 DEF RelayState
<1>3. /\ 1 \in DOMAIN backlog
      /\ \A i \in DOMAIN backlog' : i + 1 \in DOMAIN backlog /\ backlog'[i] = backlog[i + 1]
      /\ \A i \in DOMAIN backlog' : i \in Nat /\ i # 0
  BY <1>1
<1>4. \A i, j \in DOMAIN backlog' : backlog'[i] = backlog'[j] => i = j
  BY <1>3 DEF RequestInv, TripInv
<1>5. Waiters' \subseteq Waiters /\ backlog[1] \in Waiters
  BY <1>3 DEF Waiters
<1>6. backlog[1] \notin Waiters'
  BY <1>3 DEF Waiters, RequestInv, TripInv
<1>7. \A d : Made(d)' <=> Made(d)
  BY <1>1 DEF Made
<1>8. backlog[1] \in Call /\ ~Made(backlog[1])
  BY <1>1, <1>3, <1>5 DEF RequestInv, EventInv
<1>9. TripInv'
  BY <1>1, <1>2, <1>4, <1>5, <1>6 DEF RequestInv, TripInv, Planned
<1>10. EventInv'
  BY <1>1, <1>2, <1>5, <1>7, <1>8 DEF RequestInv, EventInv
<1>11. AnswerInv'
  BY <1>1, <1>2, <1>5, <1>7, <1>8 DEF RequestInv, AnswerInv
<1>. QED BY <1>9, <1>10, <1>11 DEF RequestInv

\* A step of the relay that makes no event.
LEMMA StageKeeps ==
  ASSUME CalendarShape, RequestInv, relay.at \in Busy, UNCHANGED <<dry, call, backlog, events>>,
         relay'.conn = relay.conn, relay'.at \in Busy \ {"read", "answer"},
         relay'.at \in Planned => Plannable(Asked),
         dry => relay'.at \notin Planned \ {"rehearse"},
         Made(relay.conn) => relay'.at = "reply",
         relay'.at = "reply" => /\ relay'.resp = "ok" => Made(relay.conn)
                                /\ relay'.resp \in Refusal => ~Made(relay.conn)
  PROVE  RequestInv'
<1>1. (\A d : Made(d)' <=> Made(d)) /\ Waiters' = Waiters /\ Asked' = Asked
  BY DEF Made, Waiters, Asked
<1>2. TripInv'
  BY <1>1 DEF RequestInv, TripInv
<1>3. EventInv'
  BY <1>1 DEF RequestInv, EventInv
<1>4. AnswerInv'
  BY <1>1 DEF RequestInv, AnswerInv
<1>. QED BY <1>2, <1>3, <1>4 DEF RequestInv

LEMMA InsertKeeps ==
  ASSUME CalendarShape, RequestInv, Insert
  PROVE  RequestInv'
<1>1. /\ relay.at = "insert" /\ relay.conn \in Call /\ relay \in RelayState /\ ~dry
      /\ relay' = [relay EXCEPT !.at = "answer"]
      /\ UNCHANGED <<dry, call, backlog>> /\ events \in Seq(Event)
  BY DEF Insert, Goes, CalendarShape, RelayShape, EventShape, Busy, Planned, RequestInv, TripInv
<1>2. relay'.at = "answer" /\ relay'.conn = relay.conn
  BY <1>1 DEF RelayState
<1> DEFINE e == [call |-> relay.conn, plan |-> EventOf(Asked)]
<1>3. /\ DOMAIN events' = DOMAIN events \cup {Len(events) + 1}
      /\ events'[Len(events) + 1] = e
      /\ Len(events) + 1 \notin DOMAIN events
      /\ \A i \in DOMAIN events : events'[i] = events[i]
  BY <1>1 DEF Insert
<1>4. ~Made(relay.conn) /\ Plannable(Asked)
  BY <1>1 DEF RequestInv, EventInv, TripInv, Planned
<1>5. \A d \in Call : Made(d)' <=> Made(d) \/ d = relay.conn
  BY <1>3 DEF Made
<1>6. Waiters' = Waiters /\ Asked' = Asked
  BY <1>1, <1>2 DEF Waiters, Asked
<1>7. TripInv'
  BY <1>1, <1>2, <1>4, <1>6 DEF RequestInv, TripInv
<1>8. EventInv'
  <2>1. \A i, j \in DOMAIN events' : events'[i].call = events'[j].call => i = j
    BY <1>3, <1>4 DEF RequestInv, EventInv, Made
  <2>2. \A i \in DOMAIN events' :
          LET c == events'[i].call
          IN  /\ call[c].phase # "new" /\ call[c].args \in Args
              /\ WellFormed(call[c].args) /\ Plannable(call[c].args)
              /\ events'[i].plan = EventOf(call[c].args)
    BY <1>1, <1>3, <1>4 DEF RequestInv, EventInv, TripInv, Asked
  <2>3. \A c \in Call : Made(c)' =>
          c \notin Waiters /\ (c = relay.conn => relay'.at \in {"answer", "reply"})
    BY <1>1, <1>2, <1>5 DEF RequestInv, EventInv, TripInv
  <2>. QED BY <1>1, <1>2, <1>6, <2>1, <2>2, <2>3 DEF EventInv
<1>9. AnswerInv'
  BY <1>1, <1>2, <1>5, <1>6 DEF RequestInv, AnswerInv
<1>. QED BY <1>7, <1>8, <1>9 DEF RequestInv

\* A grant: the slot is in the hand of the thread.
Granting ==
  \E label, count, blind :
    relay' = [relay EXCEPT !.at = "open", !.label = label, !.count = count, !.blind = blind]

LEMMA WorkKeeps ==
  ASSUME CalendarShape, RequestInv, Work, ~Insert
  PROVE  RequestInv'
<1>1. relay.at \in Busy /\ relay \in RelayState /\ relay.conn \in Call
  BY WorkAdvances DEF Advances, CalendarShape, RelayShape
<1>2. UNCHANGED <<dry, call, backlog, events>>
  BY DEF Work, Read, Rehearse, TakeSlot, QuotaOpened, QuotaNotOpened, QuotaWritten,
         QuotaNotWritten, Authorised, Refreshed, NotAuthorised, TokenOpened, TokenWritten,
         TokenNotStored, InsertFails, InsertAnswered
<1>3. Made(relay.conn) => relay.at \in {"answer", "reply"}
  BY <1>1 DEF RequestInv, EventInv
<1>4. relay.at \in Planned => Plannable(Asked) /\ (dry => relay.at = "rehearse")
  BY DEF RequestInv, TripInv
<1>5. CASE Read
  <2>1. relay.at = "read" /\ ~Made(relay.conn)
    BY <1>3, <1>5 DEF Read
  <2>2. \/ \E resp \in Refusal \cup {"transport_failed"} :
             relay' = [relay EXCEPT !.at = "reply", !.resp = resp]
        \/ /\ Plannable(Asked)
           /\ relay' = [relay EXCEPT !.at = IF dry THEN "rehearse" ELSE "quota"]
    BY <1>5 DEF Read, Answers, Goes, Refusal
  <2>3. CASE \E resp \in Refusal \cup {"transport_failed"} :
               relay' = [relay EXCEPT !.at = "reply", !.resp = resp]
    <3>1. relay'.at = "reply" /\ relay'.conn = relay.conn
          /\ relay'.resp \in Refusal \cup {"transport_failed"}
      BY <1>1, <2>3 DEF RelayState
    <3>. QED BY <1>1, <1>2, <2>1, <3>1, StageKeeps DEF Busy, Planned, Refusal
  <2>4. CASE /\ Plannable(Asked)
             /\ relay' = [relay EXCEPT !.at = IF dry THEN "rehearse" ELSE "quota"]
    <3>1. relay'.at = (IF dry THEN "rehearse" ELSE "quota") /\ relay'.conn = relay.conn
      BY <1>1, <2>4 DEF RelayState
    <3>. QED BY <1>1, <1>2, <2>1, <2>4, <3>1, StageKeeps DEF Busy, Planned
  <2>. QED BY <2>2, <2>3, <2>4
<1>6. CASE \/ Rehearse \/ NotAuthorised \/ TokenNotStored \/ InsertFails
           \/ (TakeSlot /\ Answers("not_allowed"))
  <2>1. /\ relay.at \in Planned \ {"answer"}
        /\ \E resp \in {"rehearsed", "transport_failed", "not_allowed"} :
             relay' = [relay EXCEPT !.at = "reply", !.resp = resp]
    BY <1>6 DEF Rehearse, NotAuthorised, TokenNotStored, InsertFails, TakeSlot, Answers, Planned
  <2>2. relay'.at = "reply" /\ relay'.conn = relay.conn /\ relay'.resp # "ok"
    BY <1>1, <2>1 DEF RelayState
  <2>3. ~Made(relay.conn)
    BY <1>3, <2>1 DEF Planned
  <2>. QED BY <1>1, <1>2, <2>2, <2>3, StageKeeps DEF Busy, Planned
<1>7. CASE InsertAnswered
  <2>1. /\ relay.at = "answer"
        /\ \E resp \in {"ok", "transport_failed"} :
             relay' = [relay EXCEPT !.at = "reply", !.resp = resp]
    BY <1>7 DEF InsertAnswered, Answers, Outcome
  <2>2. relay'.at = "reply" /\ relay'.conn = relay.conn /\ relay'.resp \in {"ok", "transport_failed"}
    BY <1>1, <2>1 DEF RelayState
  <2>3. Made(relay.conn)
    BY <2>1 DEF RequestInv, AnswerInv
  <2>. QED BY <1>1, <1>2, <2>2, <2>3, StageKeeps DEF Busy, Planned, Refusal
<1>8. CASE \/ (TakeSlot /\ Granting)
           \/ QuotaOpened \/ QuotaNotOpened \/ QuotaWritten \/ QuotaNotWritten
           \/ Authorised \/ Refreshed \/ TokenOpened \/ TokenWritten
  <2>1. /\ relay.at \in Planned \ {"rehearse", "answer"}
        /\ \E place \in Planned \ {"answer", "rehearse"} :
             \/ relay' = [relay EXCEPT !.at = place]
             \/ relay' = [relay EXCEPT !.at = place, !.service = TRUE]
             \/ \E label, count, blind :
                  relay' = [relay EXCEPT !.at = place, !.label = label, !.count = count,
                                         !.blind = blind]
    <3>1. CASE TakeSlot /\ Granting
      BY <3>1 DEF TakeSlot, Granting, Planned
    <3>2. CASE QuotaOpened \/ Authorised \/ Refreshed \/ TokenOpened \/ TokenWritten
      BY <3>2 DEF QuotaOpened, Authorised, Refreshed, TokenOpened, TokenWritten, Goes, Planned
    <3>3. CASE QuotaNotOpened \/ QuotaWritten \/ QuotaNotWritten
      <4>1. /\ relay.at \in {"open", "write"}
            /\ relay' = [relay EXCEPT !.at = "auth", !.label = 0, !.count = 0, !.blind = FALSE]
        BY <3>3 DEF QuotaNotOpened, QuotaWritten, QuotaNotWritten, Granted
      <4>. QED BY <4>1 DEF Planned
    <3>. QED BY <1>8, <3>1, <3>2, <3>3
  <2>2. relay'.at \in Planned \ {"answer", "rehearse"} /\ relay'.conn = relay.conn
    BY <1>1, <2>1 DEF RelayState
  <2>3. ~Made(relay.conn) /\ Plannable(Asked) /\ ~dry
    BY <1>3, <1>4, <2>1 DEF Planned
  <2>. QED BY <1>1, <1>2, <2>2, <2>3, StageKeeps DEF Busy, Planned
<1>9. TakeSlot => Answers("not_allowed") \/ Granting
  <2> SUFFICES ASSUME TakeSlot, ~Answers("not_allowed") PROVE Granting
    OBVIOUS
  <2>1. PICK blind \in BOOLEAN :
          relay' = [relay EXCEPT !.at = "open", !.label = day,
                                 !.count = (IF blind THEN 0 ELSE CountOf(quotaFile, day)) + 1,
                                 !.blind = blind]
    BY DEF TakeSlot
  <2>. QED BY <2>1 DEF Granting
<1>. QED BY <1>5, <1>6, <1>7, <1>8, <1>9 DEF Work

LEMMA RequestStep == CalendarShape /\ RequestInv /\ [CalendarNext]_calendarVars => RequestInv'
<1> SUFFICES ASSUME CalendarShape, RequestInv, [CalendarNext]_calendarVars PROVE RequestInv'
  OBVIOUS
<1>1. CASE UNCHANGED <<dry, call, backlog, relay, events>>
  <2>1. (\A d : Made(d)' <=> Made(d)) /\ Waiters' = Waiters /\ Asked' = Asked
    BY <1>1 DEF Made, Waiters, Asked
  <2>. QED BY <1>1, <2>1 DEF RequestInv, TripInv, EventInv, AnswerInv
<1>2. CASE Midnight \/ TokenExpires \/ Authorize \/ UNCHANGED calendarVars
  BY <1>1, <1>2 DEF Midnight, TokenExpires, Authorize, calendarVars
<1>. QED BY <1>2, AskKeeps, ReplyKeeps, DeathKeeps, StartKeeps, GiveUpKeeps, AcceptKeeps,
            InsertKeeps, WorkKeeps
         DEF CalendarNext, Serve, Work

LEMMA RequestsKept == CalendarSpec => [](CalendarShape /\ RequestInv)
BY ShapeStarts, ShapeStep, RequestStarts, RequestStep, PTL DEF CalendarSpec

\* However calls are given up, the relay dies and Google's answers are lost: an
\* event is made at most once per request, never in a rehearsal, and for those
\* the request meant and nobody else.
THEOREM EventsAreJustified == CalendarSpec => []EventsJustified
BY RequestsKept, RequestGives, PTL

\* What the agent is told of an event is so.
THEOREM CalendarAnswersTrue == CalendarSpec => []AnswersTrue
BY RequestsKept, RequestGives, PTL

\* An answer is given once; only the thread's insertion makes an event.
LEMMA AnsweredOnce ==
  ASSUME CalendarShape, [CalendarNext]_calendarVars
  PROVE  \/ Insert
         \/ /\ events' = events
            /\ \A c \in Call : call[c].phase = "done" => call'[c] = call[c]
<1>0. call \in [Call -> CallState] /\ (relay.at = "reply" => relay.conn \in Call)
  BY DEF CalendarShape, CallShape, RelayShape, Busy
<1>1. ASSUME NEW c \in Call, StopsWaiting(c) \/ \E args \in Args : Ask(c, args)
      PROVE  /\ events' = events /\ call[c].phase # "done"
             /\ \A d \in Call : d # c => call'[d] = call[d]
  BY <1>0, <1>1 DEF StopsWaiting, Ended, Ask
<1>2. CASE SendReply
  <2>1. /\ events' = events
        /\ \A d \in Call : (d = relay.conn /\ call[d].phase = "waiting") \/ call'[d] = call[d]
    BY <1>0, <1>2 DEF SendReply, Ended
  <2>. QED BY <2>1
<1>3. CASE RelayDies
  BY <1>0, <1>3 DEF RelayDies
<1>4. CASE Work /\ ~Insert
  BY <1>4 DEF Work, Read, Rehearse, TakeSlot, QuotaOpened, QuotaNotOpened, QuotaWritten,
              QuotaNotWritten, Authorised, Refreshed, NotAuthorised, TokenOpened, TokenWritten,
              TokenNotStored, InsertFails, InsertAnswered
<1>5. CASE Accept \/ RelayStarts \/ Midnight \/ TokenExpires \/ Authorize \/ UNCHANGED calendarVars
  BY <1>5 DEF Accept, RelayStarts, Midnight, TokenExpires, Authorize, calendarVars
<1>. QED BY <1>1, <1>2, <1>3, <1>4, <1>5 DEF CalendarNext, Serve, Work

\* Of each call there is one event or none.
LEMMA TimesMadeIs ==
  RequestInv => \A c \in Call : TimesMade(c) = IF Made(c) THEN 1 ELSE 0
<1> SUFFICES ASSUME RequestInv, NEW c \in Call PROVE TimesMade(c) = IF Made(c) THEN 1 ELSE 0
  OBVIOUS
<1> DEFINE Of == {i \in DOMAIN events : events[i].call = c}
<1>1. CASE Made(c)
  <2>1. PICK i \in DOMAIN events : events[i].call = c
    BY <1>1 DEF Made
  <2>2. Of = {i}
    BY <2>1 DEF RequestInv, EventInv
  <2>. QED BY <1>1, <2>2, FS_Singleton DEF TimesMade
<1>2. CASE ~Made(c)
  <2>1. Of = {}
    BY <1>2 DEF Made
  <2>. QED BY <1>2, <2>1, FS_EmptySet DEF TimesMade
<1>. QED BY <1>1, <1>2

LEMMA RelayMaps ==
  ASSUME CalendarShape, RequestInv, RequestInv', [CalendarNext]_calendarVars
  PROVE  RelayPromise!Next
<1> DEFINE made == [c \in Call |-> TimesMade(c)]
           learnt == [c \in Call |-> Learnt(c)]
<1>1. CASE Insert
  <2>1. /\ relay.conn \in Call /\ relay.at = "insert" /\ events \in Seq(Event)
        /\ events' = Append(events, [call |-> relay.conn, plan |-> EventOf(Asked)])
        /\ call' = call
    BY <1>1 DEF Insert, CalendarShape, RelayShape, EventShape, Busy, Planned
  <2>2. ~Made(relay.conn) /\ Learnt(relay.conn) \in {"nothing", "unknown"}
    BY <2>1 DEF RequestInv, EventInv, AnswerInv, Learnt
  <2>3. \A c \in Call : Made(c)' <=> Made(c) \/ c = relay.conn
    <3>1. /\ DOMAIN events' = DOMAIN events \cup {Len(events) + 1}
          /\ events'[Len(events) + 1].call = relay.conn
          /\ \A i \in DOMAIN events : events'[i] = events[i]
      BY <2>1
    <3>. QED BY <3>1 DEF Made
  <2>4. made' = [made EXCEPT ![relay.conn] = 1] /\ made[relay.conn] = 0
    <3>1. \A c \in Call : TimesMade(c)' = IF Made(c)' THEN 1 ELSE 0
      <4>1. (RequestInv => \A c \in Call : TimesMade(c) = IF Made(c) THEN 1 ELSE 0)'
        BY TimesMadeIs, PTL
      <4>. QED BY <4>1
    <3>2. \A c \in Call : TimesMade(c) = IF Made(c) THEN 1 ELSE 0
      BY TimesMadeIs
    <3>3. \A c \in Call : c = relay.conn => TimesMade(c) = 0 /\ TimesMade(c)' = 1
      BY <2>1, <2>2, <2>3, <3>1, <3>2
    <3>4. \A c \in Call : c # relay.conn => TimesMade(c)' = TimesMade(c)
      BY <2>3, <3>1, <3>2
    <3>. QED BY <2>1, <3>3, <3>4
  <2>5. learnt' = learnt
    BY <2>1 DEF Learnt
  <2>. QED BY <2>1, <2>2, <2>4, <2>5 DEF RelayPromise!Next, RelayPromise!Act
<1>2. CASE /\ events' = events
           /\ \A c \in Call : call[c].phase = "done" => call'[c] = call[c]
  <2>1. ASSUME NEW c \in Call, Learnt(c)' # Learnt(c)
        PROVE  /\ Learnt(c) = "nothing"
               /\ Learnt(c)' = "done" => TimesMade(c) = 1
               /\ Learnt(c)' = "refused" => TimesMade(c) = 0
    <3>1. Learnt(c) = "nothing"
      BY <1>2, <2>1 DEF Learnt
    <3>2. Made(c)' <=> Made(c)
      BY <1>2 DEF Made
    <3>3. /\ Learnt(c)' = "done" => Made(c)'
          /\ Learnt(c)' = "refused" => ~Made(c)'
      BY DEF Learnt, RequestInv, AnswerInv
    <3>. QED BY <3>1, <3>2, <3>3, TimesMadeIs
  <2>2. learnt' \in [Call -> RelayPromise!Word]
    BY DEF Learnt, RelayPromise!Word
  <2>3. \A c \in Call : learnt'[c] = Learnt(c)' /\ learnt[c] = Learnt(c) /\ made[c] = TimesMade(c)
    OBVIOUS
  <2>4. made' = made
    BY <1>2 DEF TimesMade
  <2>. QED BY <2>1, <2>2, <2>3, <2>4 DEF RelayPromise!Next, RelayPromise!Tell, RelayPromise!MaySay
<1>. QED BY <1>1, <1>2, AnsweredOnce

\* The relay implements the promise to its clients.
LEMMA RelayPromises == CalendarSpec => RelayPromised
<1>1. CalendarInit => RelayPromise!Init
  <2> SUFFICES ASSUME CalendarInit PROVE RelayPromise!Init
    OBVIOUS
  <2>1. \A c \in Call : TimesMade(c) = 0
    BY TimesMadeIs, RequestStarts DEF CalendarInit, Made
  <2>2. \A c \in Call : Learnt(c) = "nothing"
    BY DEF CalendarInit, Unasked, Learnt
  <2>. QED BY <2>1, <2>2 DEF RelayPromise!Init
<1>2. CalendarShape /\ RequestInv /\ RequestInv' /\ [CalendarNext]_calendarVars
        => [RelayPromise!Next]_<<[c \in Call |-> TimesMade(c)], [c \in Call |-> Learnt(c)]>>
  BY RelayMaps
<1>. QED
  BY <1>1, <1>2, RequestsKept, PTL DEF CalendarSpec, RelayPromised, RelayPromise!Spec

-----------------------------------------------------------------------------
\* Both doors implement the promise to their clients, for any number of
\* connections, permits and calls, and wherever the daemons die: each is told
\* one thing, once, and it is so; no request is acted on twice, and none after
\* its client was told it is refused.
THEOREM PromisesHold == Spec => PromisesKept
<1>1. Init => DoorInit /\ CalendarInit
  BY DEF Init
<1>2. [Next]_vars => [DoorNext]_doorVars /\ [CalendarNext]_calendarVars
  BY DEF Next, vars
<1>. QED BY <1>1, <1>2, DoorPromises, RelayPromises, PTL DEF Spec, CalendarSpec, PromisesKept
=============================================================================
