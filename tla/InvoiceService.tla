--------------------------- MODULE InvoiceService ---------------------------
(***************************************************************************)
(* The invoice daemon as one program: SocketDaemon's door in front of      *)
(* InvoiceBroker's operations (_worker, _handle_connection, handle).  A    *)
(* connection has a thread of its own, which is the worker that carries    *)
(* out its request: Handle, one step of the door, is here all the steps of *)
(* the broker, and ends with the one that ends the call.  They die and     *)
(* come back together.  Requests are for gated operations.                 *)
(***************************************************************************)
EXTENDS InvoiceBroker

CONSTANTS MAX_CONCURRENT,  \* daemon.MAX_CONCURRENT
          Backlog          \* connections that may wait for the accept loop

ASSUME ServiceAssumption == MAX_CONCURRENT \in Nat \ {0} /\ Backlog \in Nat \ {0}

VARIABLES permits, request, client, server, sent, unread, elapsed,
          line,     \* the line written to each connection: the door's reply
          handled,  \* how often handle has returned: the door's acted
          rowOf,    \* the row reserved for each request, 0 without one
          answer    \* what handle returned

Door == INSTANCE SocketDaemon WITH Conn <- Worker, door <- "invoice", reply <- line,
                                   acted <- handled

doorSide == <<permits, request, client, server, sent, unread, elapsed, line, handled>>
serviceVars == <<brokerVars, doorSide, rowOf, answer>>

\* "denied" is any answer that comes before a reservation and says so: an
\* invalid argument, an operation nobody confirmed, a cap that is reached.
Answers == Replies \cup {"denied"}

ServiceInit ==
  /\ BrokerInit
  /\ Door!DoorInit
  /\ rowOf = [c \in Worker |-> 0]
  /\ answer = [c \in Worker |-> "none"]

-----------------------------------------------------------------------------
\* What happens at the door while the broker does nothing for the connection.
AtTheDoor(c) ==
  /\ \/ Door!InvoiceCall(c) \/ Door!InvoiceAcceptLoop(c)
     \/ Door!Identify(c) \/ Door!ReadHeader(c) \/ Door!HeaderEnds(c) \/ Door!ReadBody(c)
     \/ Door!Deadline(c) \/ Door!Answer(c) \/ Door!TimePasses(c)
     \/ (server[c] # "handling" /\ Door!Raises(c))
  /\ UNCHANGED <<brokerVars, rowOf, answer>>

InHandle(c) == server[c] = "handling"

\* handle returns: the answer is what the line will say.
Returns(c, word) ==
  /\ Door!Handle(c)
  /\ answer' = [answer EXCEPT ![c] = word]
  /\ UNCHANGED rowOf

\* handle raises all the same: from the audit in its own except clauses.
FallsThrough(c) ==
  /\ InHandle(c)
  /\ Door!Raises(c)
  /\ UNCHANGED <<rowOf, answer>>

\* The request is for an upload exactly when a body came with it.
Begin(c) ==
  /\ InHandle(c)
  /\ \E caller \in Caller, op \in Ops, confirm \in {"true", "other"} :
       /\ op = "upload_expense_file" <=> request[c] = "upload"
       /\ Accept(c, caller, op, confirm)
  /\ UNCHANGED <<doorSide, rowOf, answer>>

\* handle returns before _run_gated: a malformed id, an unknown operation, an
\* argument _plan_op will not have, no confirmation, or an exception.
TurnedAway(c) ==
  /\ task[c].phase = "idle"
  /\ FallsThrough(c) \/ \E word \in {"denied", "internal_error"} : Returns(c, word)
  /\ UNCHANGED brokerVars

GetsReservation(c) ==
  /\ Reserve(c)
  /\ rowOf' = [rowOf EXCEPT ![c] = Row(c)']
  /\ UNCHANGED <<doorSide, answer>>

GoesOn(c) ==
  /\ Prepare(c) \/ Send(c) \/ Resend(c) \/ GoToS3(c)
  /\ UNCHANGED <<doorSide, rowOf, answer>>

\* The three ways the call ends: over the cap, with an exception, or with
\* what _execute_reserved made of the exchange.
OverTheCap(c) == Refuse(c) /\ Returns(c, "denied")

Raises(c) == Escape(c) /\ (Returns(c, "internal_error") \/ FallsThrough(c))

Executed(c) ==
  /\ \/ \E s \in ErrorStatus : CannotSend(c, s)
     \/ TimeOut(c) \/ MalformedUrl(c) \/ Succeed(c) \/ GiveUp(c)
  /\ Returns(c, reply'[Row(c)])

Works(c) ==
  Begin(c) \/ TurnedAway(c) \/ GetsReservation(c) \/ GoesOn(c) \/ OverTheCap(c) \/ Raises(c)
  \/ Executed(c)

ProcessEnds == Door!EndOfProcess /\ Die /\ UNCHANGED <<rowOf, answer>>

ProcessStarts == Door!StartAgain /\ ComeBack /\ UNCHANGED <<rowOf, answer>>

\* The clock, and GreenInvoice.
Outside ==
  /\ \/ \E d \in ClockSteps : ClockMoves(d) /\ UNCHANGED netVars
     \/ \E q \in wire, s \in HttpStatus, applied, delivered \in BOOLEAN :
          Serve(q, s, applied, delivered)
  /\ UNCHANGED <<doorSide, rowOf, answer>>

ServiceNext ==
  \/ \E c \in Worker : AtTheDoor(c) \/ Works(c)
  \/ ProcessEnds \/ ProcessStarts \/ Outside

ServiceSpec == ServiceInit /\ [][ServiceNext]_serviceVars

-----------------------------------------------------------------------------
(* Properties                                                              *)

OneShot(c) == rowOf[c] # 0 /\ opOf[rowOf[c]] \in OneShotOps

\* How often the request of a non-idempotent operation took effect at
\* GreenInvoice.
Performed(c) == IF OneShot(c) THEN effects[rowOf[c]] ELSE 0

\* What the answer says of a request, to a client that read it.
Means(c) ==
  IF answer[c] = "denied" \/ (OneShot(c) /\ answer[c] = "upstream_failed_clean") THEN "refused"
  ELSE IF OneShot(c) /\ answer[c] = "ok" THEN "done"
  ELSE "unknown"

Learnt(c) == IF client[c] = "answer" THEN Means(c) ELSE Door!Heard(c)

Promise == INSTANCE ClientPromise WITH
             Client <- Worker,
             acted <- [c \in Worker |-> Performed(c)],
             told <- [c \in Worker |-> Learnt(c)]

\* From the socket to GreenInvoice the service keeps the promise to its
\* clients (daemon, handler, limiter and retries together): an operation that
\* must not happen twice happens at most once for a request; who was told that
\* it was done, or refused, at the door, by the limiter or after a clean
\* failure, was told so once and truly, and it stays so, whatever is still on
\* the wire and whoever has given up or died.
ServicePromised == Promise!Spec

\* A reservation is held only under a permit, by the thread of a connection
\* whose whole request was read (_accept_loop, _worker): all callers together
\* never have more than MAX_CONCURRENT calls at GreenInvoice.
HeldUnderPermit ==
  /\ \A c \in Holding : InHandle(c) /\ rowOf[c] = Row(c)
  /\ Cardinality(Holding) + permits <= MAX_CONCURRENT
=============================================================================
