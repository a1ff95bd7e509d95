--------------------------- MODULE ExpenseConfirm ---------------------------
(***************************************************************************)
(* An expense on its way from the agent into the books                     *)
(* (plugins/greeninvoice __init__.py, hooks.py, confirmgate.py,            *)
(* handler.py): the gate that David answers before gi_create_expense runs, *)
(* the plugin's call to the broker, which may outlive the caller's         *)
(* patience, and the body the broker makes of it (InvoiceRequest).         *)
(***************************************************************************)
EXTENDS InvoiceRequest

CONSTANTS ToolCall,  \* calls of gi_create_expense, side by side
          Payload    \* what the agent may give: [texts, supplier]

VARIABLES enabled,    \* GI_EXPENSE_CONFIRM
          plugin,     \* how far register came
          stage,      \* where each call is
          payload,    \* what it was given
          allowed,    \* the rule keys David allowed for good
          yeses,      \* what he said yes to, and what he saw then
          broker,     \* what the broker does with the call
          written     \* the calls whose expense is in the books

confirmVars == <<enabled, plugin, stage, payload, allowed, yeses, broker, written>>

NoPayload == [texts |-> <<>>, supplier |-> <<>>]

ConfirmInit ==
  /\ enabled \in BOOLEAN
  /\ plugin = "loading"
  /\ stage = [c \in ToolCall |-> "start"]
  /\ payload = [c \in ToolCall |-> NoPayload]
  /\ allowed = {}
  /\ yeses = {}
  /\ broker = [c \in ToolCall |-> "idle"]
  /\ written = {}

\* The gate comes first; if it cannot be registered there is no plugin.
Register ==
  /\ plugin = "loading"
  /\ plugin' \in IF enabled THEN {"gated", "absent"} ELSE {"ungated", "absent"}
  /\ UNCHANGED <<enabled, stage, payload, allowed, yeses, broker, written>>

\* Mutant: an answer for good is kept for a hand-picked part of the payload.
PayloadKeyPicked(p) == [texts |-> Only(p.texts, {"number", "date"}), supplier |-> p.supplier]

\* The key is a hash of the whole payload: different payloads, different keys.
PayloadKey(p) == p

\* Mutant: the supplier is shown by the name the agent gave, whatever its id.
SupplierLineByName(supplier) == Only(supplier, {"name"})

\* The id if there is one, since that is what the expense is attached to.
SupplierLine(supplier) == Only(supplier, IF Has(supplier, "id") THEN {"id", "name"} ELSE {"name"})

Summary(p) ==
  [supplier |-> SupplierLine(p.supplier),
   shown    |-> Only(p.texts, {"amount", "currency", "vat", "date", "number",
                               "documentType", "paymentType"})]

\* Mutant: a summary that cannot be rendered lets the call through.
BlockNot(c) ==
  /\ stage' = [stage EXCEPT ![c] = "run"]
  /\ UNCHANGED <<enabled, plugin, allowed, yeses, broker, written>>

\* An error while the summary or the key is made blocks the call.
Block(c) ==
  /\ stage' = [stage EXCEPT ![c] = "blocked"]
  /\ UNCHANGED <<enabled, plugin, allowed, yeses, broker, written>>

\* The agent calls the tool; Hermes asks the hook first, and David unless
\* the key is allowed already.
PreToolCall(c) ==
  /\ stage[c] = "start" /\ plugin \in {"gated", "ungated"}
  /\ \E p \in Payload :
       /\ payload' = [payload EXCEPT ![c] = p]
       /\ \/ /\ stage' = [stage EXCEPT ![c] =
                    IF ~enabled \/ PayloadKey(p) \in allowed THEN "run" ELSE "asked"]
             /\ UNCHANGED <<enabled, plugin, allowed, yeses, broker, written>>
          \/ enabled /\ Block(c)

Yes(c, grain) ==
  yeses' = yeses \cup {[call |-> c, payload |-> payload[c], saw |-> Summary(payload[c]),
                        grain |-> grain]}

\* David says yes once, or for good (session and always are kept by key), or
\* no, or nothing until Hermes gives up.
David(c) ==
  /\ stage[c] = "asked"
  /\ \/ /\ Yes(c, "once")
        /\ stage' = [stage EXCEPT ![c] = "run"]
        /\ UNCHANGED allowed
     \/ /\ Yes(c, "always")
        /\ allowed' = allowed \cup {PayloadKey(payload[c])}
        /\ stage' = [stage EXCEPT ![c] = "run"]
     \/ /\ stage' = [stage EXCEPT ![c] = "denied"]
        /\ UNCHANGED <<allowed, yeses>>
  /\ UNCHANGED <<enabled, plugin, payload, broker, written>>

\* The handler passes the call on, or finds no daemon.
Dispatch(c) ==
  /\ stage[c] = "run"
  /\ \/ /\ stage' = [stage EXCEPT ![c] = "sent"]
        /\ broker' = [broker EXCEPT ![c] = "asked"]
     \/ /\ stage' = [stage EXCEPT ![c] = "unreachable"]
        /\ UNCHANGED broker
  /\ UNCHANGED <<enabled, plugin, payload, allowed, yeses, written>>

\* The broker writes what it accepts, or refuses (its caps, its upstream).
CreateExpense(c) ==
  /\ broker[c] = "asked"
  /\ broker' = [broker EXCEPT ![c] = "answered"]
  /\ \/ ExpenseAccepted(payload[c]) /\ written' = written \cup {c}
     \/ UNCHANGED written
  /\ UNCHANGED <<enabled, plugin, stage, payload, allowed, yeses>>

\* The answer comes back, or the caller's time is up and the broker goes on.
Return(c) ==
  /\ stage[c] = "sent"
  /\ stage' = [stage EXCEPT ![c] = IF broker[c] = "answered" THEN "told" ELSE "unreachable"]
  /\ UNCHANGED <<enabled, plugin, payload, allowed, yeses, broker, written>>

ConfirmNext ==
  \/ Register
  \/ \E c \in ToolCall :
       PreToolCall(c) \/ David(c) \/ Dispatch(c) \/ CreateExpense(c) \/ Return(c)

ConfirmSpec == ConfirmInit /\ [][ConfirmNext]_confirmVars

-----------------------------------------------------------------------------
\* With the gate on, every expense in the books was answered yes: in its own
\* call, or for good at an earlier one for the very same payload. What David
\* saw then names the supplier the expense is attached to and shows the
\* amount that was written (hooks.py, confirmgate.py).
ConfirmedAsWritten ==
  enabled =>
    \A c \in written :
      \E y \in yeses :
        LET body == ExpenseBody(payload[c])
        IN /\ y.payload = payload[c]
           /\ y.call = c \/ y.grain = "always"
           /\ y.saw.shown["amount"] = body.texts["amount"]
           /\ IF Has(body.supplier, "id")
              THEN Has(y.saw.supplier, "id") /\ y.saw.supplier["id"] = body.supplier["id"]
              ELSE y.saw.supplier["name"] = body.supplier["name"]
=============================================================================
