------------------------------ MODULE MCFront ------------------------------
(***************************************************************************)
(* What stands before the brokers' operations, and the calendar relay,     *)
(* which is a door and its operation in one thread.  They share nothing,   *)
(* so one run checks each on its own: the subject moves, the others stay   *)
(* as they were initially.                                                 *)
(***************************************************************************)
EXTENDS SocketDaemon, PreviewSpool, ExpenseConfirm, CalendarRelay, TLC

VARIABLES subject,
          document,  \* the arguments of a document, of which nothing moves
          op         \* an operation of the broker, likewise

vars == <<subject, document, op, doorVars, spoolVars, confirmVars, calendarVars>>

MCFileOf == (1 :> "a") @@ (2 :> "b") @@ (3 :> "c")

\* Two amounts, a supplier by id under two names, one by name, a bad one.
MCPayload ==
  [texts : {"amount" :> "100", "amount" :> "200", "amount" :> "bad"},
   supplier : {"id" :> "s1" @@ "name" :> "Rami", "name" :> "Rami", "id" :> "s1"}]

Texts == {<<>>, "date" :> "good", "emailContent" :> "bad", "lang" :> "good" @@ "date" :> "bad"}

MCClient ==
  {id @@ name @@ add @@ emails :
     id \in {<<>>, "id" :> "c1", "id" :> "bad"},
     name \in {<<>>, "name" :> "good", "name" :> "bad"},
     add \in {<<>>, "add" :> "true", "add" :> "truthy"},
     emails \in {<<>>, "emails" :> "good", "emails" :> "bad"}}

BadOf(fields) == {f \in DOMAIN fields : fields[f] = "bad"}

\* At most one field is bad.
MCDocument ==
  {d \in [type : DRAFTABLE_DOCUMENT_TYPES \cup {330},
          client : MCClient,
          texts : Texts,
          income : {"none", "rows", "bad"},
          payment : {"none", "rows", "bad"},
          email_to_client : {"none", "true", "truthy"}] :
     Cardinality(BadOf(d.client)) + Cardinality(BadOf(d.texts))
     + Cardinality(BadOf([income |-> d.income, payment |-> d.payment])) <= 1}

NoDocument == [type |-> 0, client |-> <<>>, texts |-> <<>>, income |-> "none",
               payment |-> "none", email_to_client |-> "none"]

\* Elon has an address, Lihi has none; both are called "kid", and the first in
\* the file is meant.
MCContacts == <<[email |-> "elon@x", names |-> {"elon", "kid"}],
                [email |-> "", names |-> {"lihi", "kid"}]>>

Guest(ref, role) == [ref |-> ref, role |-> role]

Ask0(guests) == [op |-> "create_event", title |-> TRUE, start |-> 3, end |-> NoValue,
                 duration |-> NoValue, guests |-> guests]

MCArgs ==
  {Ask0({Guest("kid", "participant"), Guest("guest@y", "fyi"), Guest("stranger", "fyi")}),
   [Ask0({Guest("lihi", "participant")}) EXCEPT !.end = 2],
   [Ask0({}) EXCEPT !.op = "contacts"]}

Init ==
  /\ subject \in {"door", "spool", "confirm", "request", "tools", "calendar"}
  /\ IF subject = "request" THEN document \in MCDocument ELSE document = NoDocument
  /\ IF subject = "tools" THEN op \in DOMAIN Tools \cup DOMAIN Plan ELSE op = "none"
  /\ DoorInit /\ SpoolInit /\ ConfirmInit /\ CalendarInit
  /\ subject # "door" => door = "invoice"
  /\ subject # "confirm" => enabled
  /\ subject # "calendar" => dry /\ tokenFile = Absent

Next ==
  /\ UNCHANGED <<subject, document, op>>
  /\ \/ /\ subject = "door" /\ DoorNext
        /\ UNCHANGED <<spoolVars, confirmVars, calendarVars>>
     \/ /\ subject = "spool" /\ SpoolNext
        /\ UNCHANGED <<doorVars, confirmVars, calendarVars>>
     \/ /\ subject = "confirm" /\ ConfirmNext
        /\ UNCHANGED <<doorVars, spoolVars, calendarVars>>
     \/ /\ subject = "calendar" /\ CalendarNext
        /\ UNCHANGED <<doorVars, spoolVars, confirmVars>>

\* DoorFairness and the fairness of CalendarFairSpec, where each is the subject.
Alone(who) ==
  /\ subject = who
  /\ UNCHANGED <<subject, document, op, spoolVars, confirmVars>>
  /\ who = "door" => UNCHANGED calendarVars
  /\ who = "calendar" => UNCHANGED doorVars

Fairness ==
  /\ \A c \in Conn : WF_vars(Alone("door") /\ DaemonStep(c))
                    /\ WF_vars(Alone("door") /\ TimePasses(c))
  /\ WF_vars(Alone("calendar") /\ Serve)
  /\ WF_vars(Alone("calendar") /\ RelayStarts)

Spec == Init /\ [][Next]_vars /\ Fairness

\* The document a draft showed is the one an issue makes (DraftIsWhatIssues).
IssuedAsDrafted == DraftIsWhatIssues(document)

\* Both doors keep the promise to their clients (SocketDaemon, CalendarRelay).
PromisesKept == DoorPromised /\ RelayPromised

\* Tools and operations are the same, and each tool fits its own (ToolFits).
ToolsFit == subject = "tools" => ToolFits(op)
=============================================================================
