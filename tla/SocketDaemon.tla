---------------------------- MODULE SocketDaemon ----------------------------
(***************************************************************************)
(* The front door of the two brokers (invoice-relay and mail-relay         *)
(* daemon.py) and the clients that knock on it (the plugins' _client.py):  *)
(* an accept loop that takes a permit before it starts a worker, workers   *)
(* that read one request under one deadline, and clients that give up.     *)
(* The two daemons run the same loop; the door says which one is open.     *)
(* What an operation does is InvoiceBroker's and MailRelay's matter: here  *)
(* it is how often it was acted on.  Before, during or after it an         *)
(* exception may end the connection instead.                               *)
(***************************************************************************)
EXTENDS Naturals, FiniteSets

CONSTANTS Conn,            \* the connections, one request each
          MAX_CONCURRENT,  \* the permits
          Backlog          \* connections that may wait for the accept loop

ASSUME DoorAssumption == MAX_CONCURRENT \in Nat \ {0} /\ Backlog \in Nat \ {0}

VARIABLES door,      \* "invoice" or "mail"
          up,        \* the daemon runs
          permits,   \* _in_flight
          request,   \* what the client asks
          client,    \* where the client is, in the end what it was told
          server,    \* where the daemon is with the connection
          sent,      \* how much of the request the open connection has carried
          unread,    \* bytes have arrived that the worker has not received
          elapsed,   \* halves of CONN_DEADLINE_SECONDS spent on reading
          reply,     \* the line the daemon wrote
          acted      \* how often the operation was acted on

doorVars == <<door, up, permits, request, client, server, sent, unread, elapsed, reply, acted>>

\* A request as it arrives: part of the text, the text without its newline,
\* the line; an upload has a body behind it, of which part or all arrives.
PartOfText == 1
WholeText  == 2
WholeLine  == 3
PartOfBody == 4
WholeBody  == 5

\* The mail daemon knows no framed body.
Request == IF door = "invoice" THEN {"call", "upload"} ELSE {"call"}

Length(c) == IF request[c] = "upload" THEN WholeBody ELSE WholeLine

\* What a client can be left with: it never got in, a protocol error, the
\* operation's own answer, or not knowing: internal_error, or no line at all.
Left == {"unconnected", "refused", "answer", "unknown"}

Reading == {"header", "body"}
Working == Reading \cup {"admitted", "handling", "acted"}
Workers == {c \in Conn : server[c] \in Working}

DoorInit ==
  /\ door \in {"invoice", "mail"}
  /\ up = TRUE
  /\ permits = MAX_CONCURRENT
  /\ request = [c \in Conn |-> "call"]
  /\ client = [c \in Conn |-> "idle"]
  /\ server = [c \in Conn |-> "none"]
  /\ sent = [c \in Conn |-> 0]
  /\ unread = [c \in Conn |-> FALSE]
  /\ elapsed = [c \in Conn |-> 0]
  /\ reply = [c \in Conn |-> "none"]
  /\ acted = [c \in Conn |-> 0]

-----------------------------------------------------------------------------
(* The clients: _connect, sendall, _recv_response.                         *)

Waiting == {c \in Conn : server[c] = "backlog"}

Connect(c) ==
  /\ client[c] = "idle"
  /\ IF up /\ Cardinality(Waiting) < Backlog
     THEN /\ client' = [client EXCEPT ![c] = "sending"]
          /\ server' = [server EXCEPT ![c] = "backlog"]
          /\ \E r \in Request : request' = [request EXCEPT ![c] = r]
     ELSE /\ client' = [client EXCEPT ![c] = "unconnected"]
          /\ UNCHANGED <<server, request>>
  /\ UNCHANGED <<door, up, permits, sent, unread, elapsed, reply, acted>>

SendPart(c) ==
  /\ client[c] = "sending" /\ server[c] # "gone"
  /\ sent' = [sent EXCEPT ![c] = @ + 1]
  /\ unread' = [unread EXCEPT ![c] = TRUE]
  /\ client' = [client EXCEPT ![c] = IF sent'[c] = Length(c) THEN "waiting" ELSE @]
  /\ UNCHANGED <<door, up, permits, request, server, elapsed, reply, acted>>

\* A client that sends its text, or its body, a few bytes at a time.
Trickle(c) ==
  /\ client[c] = "sending" /\ server[c] # "gone"
  /\ sent[c] \in {PartOfText, PartOfBody} /\ ~unread[c]
  /\ unread' = [unread EXCEPT ![c] = TRUE]
  /\ UNCHANGED <<door, up, permits, request, client, server, sent, elapsed, reply, acted>>

\* Mutant: a client whose connection broke calls again by itself.
GiveUpAndRetry(c) ==
  /\ client[c] \in {"sending", "waiting"}
  /\ client[c] = "waiting" => reply[c] = "none"
  /\ client' = [client EXCEPT ![c] = "idle"]
  /\ UNCHANGED <<door, up, permits, request, server, sent, unread, elapsed, reply, acted>>

\* The connection broke or the timeout passed while it was sending, or it
\* had sent all and the timeout passed or the end came before any line.
GiveUp(c) ==
  /\ client[c] \in {"sending", "waiting"}
  /\ client[c] = "waiting" => reply[c] = "none"
  /\ client' = [client EXCEPT ![c] = "unknown"]
  /\ UNCHANGED <<door, up, permits, request, server, sent, unread, elapsed, reply, acted>>

ReadReply(c) ==
  /\ client[c] = "waiting" /\ reply[c] # "none"
  /\ client' = [client EXCEPT ![c] = IF reply[c] = "internal_error" THEN "unknown" ELSE reply[c]]
  /\ UNCHANGED <<door, up, permits, request, server, sent, unread, elapsed, reply, acted>>

\* MailRoundtrip and InvoiceCall are the two clients; they walk the same way.
InvoiceCall(c) ==
  door = "invoice" /\ (Connect(c) \/ SendPart(c) \/ Trickle(c) \/ GiveUp(c) \/ ReadReply(c))
MailRoundtrip(c) ==
  door = "mail" /\ (Connect(c) \/ SendPart(c) \/ Trickle(c) \/ GiveUp(c) \/ ReadReply(c))

-----------------------------------------------------------------------------
(* The accept loop.                                                        *)

Admit(c) ==
  /\ up /\ server[c] = "backlog" /\ permits > 0
  /\ permits' = permits - 1
  /\ server' = [server EXCEPT ![c] = "admitted"]
  /\ UNCHANGED <<door, up, request, client, sent, unread, elapsed, reply, acted>>

Reject(c) ==
  /\ up /\ server[c] = "backlog" /\ permits = 0
  /\ server' = [server EXCEPT ![c] = "gone"]
  /\ reply' = [reply EXCEPT ![c] = "refused"]
  /\ sent' = [sent EXCEPT ![c] = 0]
  /\ unread' = [unread EXCEPT ![c] = FALSE]
  /\ UNCHANGED <<door, up, permits, request, client, elapsed, acted>>

\* A thread that cannot be started raises out of the loop and of main, with
\* the permit taken; a signal ends the loop. Either way the process ends,
\* the workers with it, in whatever they were doing.
EndOfProcess ==
  /\ up
  /\ up' = FALSE
  /\ permits' = MAX_CONCURRENT
  /\ server' = [c \in Conn |-> IF server[c] = "none" THEN "none" ELSE "gone"]
  /\ sent' = [c \in Conn |-> 0]
  /\ unread' = [c \in Conn |-> FALSE]
  /\ elapsed' = [c \in Conn |-> 0]
  /\ UNCHANGED <<door, request, client, reply, acted>>

StartAgain ==
  /\ ~up
  /\ up' = TRUE
  /\ UNCHANGED <<door, permits, request, client, server, sent, unread, elapsed, reply, acted>>

InvoiceAcceptLoop(c) == door = "invoice" /\ (Admit(c) \/ Reject(c))
MailAcceptLoop(c) == door = "mail" /\ (Admit(c) \/ Reject(c))

-----------------------------------------------------------------------------
(* A worker: _handle_connection.                                           *)

\* The line is written, the connection closed with what it still held, the
\* permit given back.
Finish(c, line) ==
  /\ server' = [server EXCEPT ![c] = "gone"]
  /\ reply' = [reply EXCEPT ![c] = line]
  /\ sent' = [sent EXCEPT ![c] = 0]
  /\ unread' = [unread EXCEPT ![c] = FALSE]
  /\ elapsed' = [elapsed EXCEPT ![c] = 0]
  /\ permits' = permits + 1

\* Mutant: a worker that refuses keeps its permit (no finally).
RefuseKeepingPermit(c) ==
  /\ server' = [server EXCEPT ![c] = "gone"]
  /\ reply' = [reply EXCEPT ![c] = "refused"]
  /\ sent' = [sent EXCEPT ![c] = 0]
  /\ unread' = [unread EXCEPT ![c] = FALSE]
  /\ elapsed' = [elapsed EXCEPT ![c] = 0]
  /\ UNCHANGED permits

Refuse(c) == Finish(c, "refused")

Moves(c, stage) ==
  /\ server' = [server EXCEPT ![c] = stage]
  /\ UNCHANGED <<reply, sent, permits>>

\* The kernel does not say who calls, or it is nobody known.
Identify(c) ==
  /\ server[c] = "admitted"
  /\ Refuse(c) \/ (Moves(c, "header") /\ UNCHANGED <<unread, elapsed>>)
  /\ UNCHANGED <<door, up, request, client, acted>>

InTime(c) == elapsed[c] < 2

\* The line is parsed. It is refused if it is no request of this daemon (another
\* version, no object, an unknown token, an upload of no valid length); else it
\* is run, or the body of an upload awaited, of which some may have come along.
Parsed(c) ==
  \/ Refuse(c)
  \/ /\ Moves(c, IF request[c] = "upload" THEN "body" ELSE "handling")
     /\ unread' = [unread EXCEPT ![c] = sent[c] > WholeLine]
     /\ UNCHANGED elapsed

\* Mutant: the deadline counts from the last bytes that came, as it did
\* before it was taken from time.monotonic() (mail-relay daemon.py:87-93).
ReadHeaderPerReceive(c) ==
  /\ server[c] = "header" /\ unread[c] /\ InTime(c)
  /\ IF sent[c] < WholeLine
     THEN /\ Moves(c, "header")
          /\ unread' = [unread EXCEPT ![c] = FALSE]
          /\ elapsed' = [elapsed EXCEPT ![c] = 0]
     ELSE Parsed(c)
  /\ UNCHANGED <<door, up, request, client, acted>>

\* Bytes arrive; up to the newline there is only more to wait for. A line
\* may be longer than max_request_bytes.
ReadHeader(c) ==
  /\ server[c] = "header" /\ unread[c] /\ InTime(c)
  /\ \/ /\ sent[c] < WholeLine
        /\ Moves(c, "header")
        /\ unread' = [unread EXCEPT ![c] = FALSE]
        /\ UNCHANGED elapsed
     \/ sent[c] >= WholeLine /\ Parsed(c)
     \/ Refuse(c)
  /\ UNCHANGED <<door, up, request, client, acted>>

\* The client is gone: nothing arrived, or text that is taken for the line
\* although its newline is missing.
HeaderEnds(c) ==
  /\ server[c] = "header" /\ ~unread[c] /\ client[c] \in Left /\ InTime(c)
  /\ IF sent[c] < WholeText THEN Refuse(c) ELSE Parsed(c)
  /\ UNCHANGED <<door, up, request, client, acted>>

ReceiveBody(c) ==
  /\ unread[c]
  /\ Moves(c, IF sent[c] = WholeBody THEN "handling" ELSE "body")
  /\ unread' = [unread EXCEPT ![c] = FALSE]
  /\ UNCHANGED elapsed

BodyEnds(c) == ~unread[c] /\ client[c] \in Left

\* Mutant: the end of the connection is taken for the end of the body.
ReadBodyShort(c) ==
  /\ server[c] = "body" /\ InTime(c)
  /\ \/ ReceiveBody(c)
     \/ (BodyEnds(c) /\ Moves(c, "handling") /\ UNCHANGED <<unread, elapsed>>)
  /\ UNCHANGED <<door, up, request, client, acted>>

\* The end comes too early (truncated_body), or there is more than was
\* announced (body_overrun).
ReadBody(c) ==
  /\ server[c] = "body" /\ InTime(c)
  /\ \/ ReceiveBody(c)
     \/ (BodyEnds(c) \/ unread[c]) /\ Refuse(c)
  /\ UNCHANGED <<door, up, request, client, acted>>

\* One deadline for all the reading: past it the worker receives no more.
Deadline(c) ==
  /\ server[c] \in Reading /\ ~InTime(c)
  /\ Refuse(c)
  /\ UNCHANGED <<door, up, request, client, acted>>

TimePasses(c) ==
  /\ server[c] \in Reading /\ InTime(c)
  /\ elapsed' = [elapsed EXCEPT ![c] = @ + 1]
  /\ UNCHANGED <<door, up, permits, request, client, server, sent, unread, reply, acted>>

\* handle, handle_send or handle_contacts runs the operation; then its answer
\* is written.
Handle(c) ==
  /\ server[c] = "handling"
  /\ acted' = [acted EXCEPT ![c] = @ + 1]
  /\ Moves(c, "acted")
  /\ UNCHANGED <<door, up, request, client, unread, elapsed>>

Answer(c) ==
  /\ server[c] = "acted"
  /\ Finish(c, "answer")
  /\ UNCHANGED <<door, up, request, client, acted>>

\* Mutant: an exception is answered like a request that was not accepted.
RaisesRefusal(c) ==
  /\ server[c] \in Working
  /\ Refuse(c)
  /\ UNCHANGED <<door, up, request, client, acted>>

\* The last-resort net of _handle_connection: an exception from the audit, a
\* receive, the operation (before or after it was acted on, see Escape in
\* MailRelay and InvoiceBroker) or the writing of its answer.  internal_error
\* stands for no line too, if the net itself raises: who reads either knows
\* nothing of its request.
Raises(c) ==
  /\ server[c] \in Working
  /\ Finish(c, "internal_error")
  /\ UNCHANGED <<door, up, request, client, acted>>

InvoiceHandleConnection(c) ==
  /\ door = "invoice"
  /\ \/ Identify(c) \/ ReadHeader(c) \/ HeaderEnds(c) \/ ReadBody(c) \/ Deadline(c)
     \/ Handle(c) \/ Answer(c)

MailHandleConnection(c) ==
  /\ door = "mail"
  /\ Identify(c) \/ ReadHeader(c) \/ HeaderEnds(c) \/ Deadline(c) \/ Handle(c) \/ Answer(c)

DaemonStep(c) ==
  \/ InvoiceAcceptLoop(c) \/ MailAcceptLoop(c)
  \/ InvoiceHandleConnection(c) \/ MailHandleConnection(c)

DoorNext ==
  \/ \E c \in Conn :
       InvoiceCall(c) \/ MailRoundtrip(c) \/ DaemonStep(c) \/ TimePasses(c) \/ Raises(c)
  \/ EndOfProcess \/ StartAgain

\* The loop and the workers are scheduled and time passes; handle ends since
\* every call it makes has a timeout. Clients owe nothing, and no exception
\* has to happen.
DoorFairness == \A c \in Conn : WF_doorVars(DaemonStep(c)) /\ WF_doorVars(TimePasses(c))

DoorSpec == DoorInit /\ [][DoorNext]_doorVars /\ DoorFairness

-----------------------------------------------------------------------------
\* A client that holds a protocol error other than internal_error, or that
\* never got in, may safely call again: its request was not acted on and never
\* will be. An answer is the operation's own, run once. internal_error says
\* nothing: the mail may be out (mail-relay daemon.py:202-209). No operation
\* runs on a part of its request, and a permit is out exactly while a worker
\* runs, also one that ends with an exception (_handle_connection, _worker).
SettledIsTrue ==
  /\ \A c \in Conn :
       /\ client[c] \in {"unconnected", "refused"} => acted[c] = 0
       /\ client[c] = "answer" => acted[c] = 1
       /\ server[c] \in {"handling", "acted"} =>
            sent[c] >= (IF request[c] = "upload" THEN WholeBody ELSE WholeText)
  /\ permits + Cardinality(Workers) = MAX_CONCURRENT

\* Whatever the clients do, and however slowly, a connection that got in is
\* closed again: no client can hold a permit for ever (_read_until_newline,
\* _read_exact, the finally of _worker).
EveryoneLeaves == \A c \in Conn : server[c] \in Working \cup {"backlog"} ~> server[c] = "gone"

\* What a client knows of its own request.
Heard(c) ==
  IF client[c] = "answer" THEN "done"
  ELSE IF client[c] \in {"unconnected", "refused"} THEN "refused"
  ELSE IF client[c] = "unknown" THEN "unknown"
  ELSE "nothing"

DoorPromise == INSTANCE ClientPromise WITH Client <- Conn, told <- [c \in Conn |-> Heard(c)]

\* Step by step the door keeps its promise: no client is told twice, none is
\* acted on twice, and one that was told it is refused (other than by
\* internal_error, which leaves it open) is never acted on afterwards, not
\* even by a worker that has its whole request.
DoorPromised == DoorPromise!Spec
=============================================================================
