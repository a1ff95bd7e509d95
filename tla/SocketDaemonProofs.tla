------------------------- MODULE SocketDaemonProofs -------------------------
(***************************************************************************)
(* Proofs about SocketDaemon, for any number of connections and permits    *)
(* and any backlog.                                                        *)
(***************************************************************************)
EXTENDS SocketDaemon, FiniteSetTheorems, TLAPS

Lines == {"none", "refused", "answer", "internal_error"}

DoorShape ==
  /\ permits \in Nat
  /\ request \in [Conn -> {"call", "upload"}]
  /\ client \in [Conn -> Left \cup {"idle", "sending", "waiting"}]
  /\ server \in [Conn -> Working \cup {"none", "backlog", "gone"}]
  /\ sent \in [Conn -> Nat]
  /\ DOMAIN unread = Conn
  /\ reply \in [Conn -> Lines]
  /\ acted \in [Conn -> Nat]

\* A whole request: what acting takes.
Whole(c) == sent[c] >= (IF request[c] = "upload" THEN WholeBody ELSE WholeText)

\* Where a connection is, on both ends, and what has become of it.
Story(c) ==
  /\ server[c] = "none" <=> client[c] \in {"idle", "unconnected"}
  /\ server[c] \in {"none", "backlog", "admitted", "header", "body", "handling"} => acted[c] = 0
  /\ server[c] = "acted" => acted[c] = 1
  /\ reply[c] # "none" => server[c] = "gone"
  /\ reply[c] = "refused" => acted[c] = 0
  /\ reply[c] = "answer" => acted[c] = 1
  /\ client[c] = "refused" => reply[c] = "refused"
  /\ client[c] = "answer" => reply[c] = "answer"
  /\ server[c] = "body" => request[c] = "upload"
  /\ server[c] \in {"handling", "acted"} => Whole(c)

\* The permits that are out are the workers', of which there are finitely many.
PermitsOut ==
  /\ IsFiniteSet(Workers)
  /\ permits + Cardinality(Workers) = MAX_CONCURRENT

DoorInv == DoorShape /\ (\A c \in Conn : Story(c)) /\ PermitsOut

LEMMA DoorGivesSettled == DoorInv => SettledIsTrue
<1> SUFFICES ASSUME DoorInv PROVE SettledIsTrue
  OBVIOUS
<1>1. ASSUME NEW c \in Conn
      PROVE  /\ client[c] \in {"unconnected", "refused"} => acted[c] = 0
             /\ client[c] = "answer" => acted[c] = 1
             /\ server[c] \in {"handling", "acted"} => Whole(c)
  BY DEF DoorInv, Story
<1>. QED BY <1>1 DEF DoorInv, PermitsOut, SettledIsTrue, Whole

LEMMA DoorStarts == DoorInit => DoorInv
<1> SUFFICES ASSUME DoorInit PROVE DoorInv
  OBVIOUS
<1>1. DoorShape /\ \A c \in Conn : Story(c)
  BY DoorAssumption DEF DoorInit, DoorShape, Story, Left, Working, Reading, Whole, Lines
<1>2. Workers = {}
  BY DEF DoorInit, Workers, Working, Reading
<1>3. PermitsOut
  BY <1>2, FS_EmptySet, DoorAssumption DEF DoorInit, PermitsOut
<1>. QED BY <1>1, <1>3 DEF DoorInv

\* The steps that move one connection: what they may do to it.
OnlyOne(c) ==
  /\ request' = [request EXCEPT ![c] = request'[c]]
  /\ client' = [client EXCEPT ![c] = client'[c]]
  /\ server' = [server EXCEPT ![c] = server'[c]]
  /\ sent' = [sent EXCEPT ![c] = sent'[c]]
  /\ DOMAIN unread' = Conn
  /\ reply' = [reply EXCEPT ![c] = reply'[c]]
  /\ acted' = [acted EXCEPT ![c] = acted'[c]]

\* How the permits move with the worker of a connection.
PermitMoves(c) ==
  \/ permits' = permits /\ (server'[c] \in Working <=> server[c] \in Working)
  \/ /\ permits > 0 /\ permits' = permits - 1
     /\ server[c] \notin Working /\ server'[c] \in Working
  \/ /\ permits' = permits + 1
     /\ server[c] \in Working /\ server'[c] \notin Working

LEMMA PermitsFollow ==
  ASSUME DoorInv, NEW c \in Conn, OnlyOne(c), PermitMoves(c)
  PROVE  PermitsOut' /\ permits' \in Nat
<1>1. /\ server \in [Conn -> Working \cup {"none", "backlog", "gone"}]
      /\ permits \in Nat
      /\ IsFiniteSet(Workers) /\ Cardinality(Workers) \in Nat
      /\ permits + Cardinality(Workers) = MAX_CONCURRENT
  BY FS_CardinalityType DEF DoorInv, DoorShape, PermitsOut
<1>2. \A d \in Conn : d # c => server'[d] = server[d]
  BY <1>1 DEF OnlyOne
<1>3. CASE permits' = permits /\ (server'[c] \in Working <=> server[c] \in Working)
  <2>1. Workers' = Workers
    BY <1>2, <1>3 DEF Workers
  <2>. QED BY <1>1, <1>3, <2>1 DEF PermitsOut
<1>4. CASE /\ permits > 0 /\ permits' = permits - 1
           /\ server[c] \notin Working /\ server'[c] \in Working
  <2>1. Workers' = Workers \cup {c} /\ c \notin Workers
    BY <1>2, <1>4 DEF Workers
  <2>2. IsFiniteSet(Workers') /\ Cardinality(Workers') = Cardinality(Workers) + 1
    BY <1>1, <2>1, FS_AddElement
  <2>. QED BY <1>1, <1>4, <2>2, DoorAssumption DEF PermitsOut
<1>5. CASE /\ permits' = permits + 1
           /\ server[c] \in Working /\ server'[c] \notin Working
  <2>1. Workers' = Workers \ {c} /\ c \in Workers
    BY <1>2, <1>5 DEF Workers
  <2>2. IsFiniteSet(Workers') /\ Cardinality(Workers') = Cardinality(Workers) - 1
    BY <1>1, <2>1, FS_RemoveElement
  <2>. QED BY <1>1, <1>5, <2>2, DoorAssumption DEF PermitsOut
<1>. QED BY <1>3, <1>4, <1>5 DEF PermitMoves

\* A step of one connection that keeps its story keeps the invariant.
LEMMA OneStep ==
  ASSUME DoorInv, NEW c \in Conn, OnlyOne(c), PermitMoves(c),
         request'[c] \in {"call", "upload"},
         client'[c] \in Left \cup {"idle", "sending", "waiting"},
         server'[c] \in Working \cup {"none", "backlog", "gone"},
         sent'[c] \in Nat,
         reply'[c] \in Lines,
         acted'[c] \in Nat,
         Story(c)'
  PROVE  DoorInv'
<1>1. DoorShape'
  BY PermitsFollow DEF DoorInv, DoorShape, OnlyOne
<1>2. ASSUME NEW d \in Conn, d # c PROVE Story(d)'
  <2>1. /\ request'[d] = request[d] /\ client'[d] = client[d] /\ server'[d] = server[d]
        /\ sent'[d] = sent[d] /\ reply'[d] = reply[d] /\ acted'[d] = acted[d]
    BY <1>2 DEF OnlyOne, DoorInv, DoorShape
  <2>2. Story(d)
    BY DEF DoorInv
  <2>. QED BY <2>1, <2>2 DEF Story, Whole
<1>3. PermitsOut'
  BY PermitsFollow
<1>. QED BY <1>1, <1>2, <1>3 DEF DoorInv

\* What a step of one connection has to show, gathered.
Keeps(c) ==
  /\ OnlyOne(c)
  /\ PermitMoves(c)
  /\ request'[c] \in {"call", "upload"}
  /\ client'[c] \in Left \cup {"idle", "sending", "waiting"}
  /\ server'[c] \in Working \cup {"none", "backlog", "gone"}
  /\ sent'[c] \in Nat
  /\ reply'[c] \in Lines
  /\ acted'[c] \in Nat
  /\ Story(c)'

LEMMA ClientKeeps ==
  ASSUME DoorInv, NEW c \in Conn,
         Connect(c) \/ SendPart(c) \/ Trickle(c) \/ GiveUp(c) \/ ReadReply(c)
  PROVE  Keeps(c)
<1> USE DEF Left, Working, Reading, Lines
<1>0. DoorShape /\ Story(c)
  BY DEF DoorInv
<1>1. CASE Connect(c)
  <2>1. CASE client' = [client EXCEPT ![c] = "unconnected"]
    BY <1>0, <1>1, <2>1 DEF Connect, DoorShape, Story, Keeps, OnlyOne, PermitMoves, Whole
  <2>2. CASE client' = [client EXCEPT ![c] = "sending"]
    <3>1. /\ server' = [server EXCEPT ![c] = "backlog"] /\ server[c] = "none"
          /\ \E r \in Request : request' = [request EXCEPT ![c] = r]
      BY <1>0, <1>1, <2>2 DEF Connect, DoorShape, Story
    <3>2. Request \subseteq {"call", "upload"}
      BY DEF Request
    <3>. QED BY <1>0, <1>1, <2>2, <3>1, <3>2
             DEF Connect, DoorShape, Story, Keeps, OnlyOne, PermitMoves, Whole
  <2>. QED BY <1>1, <2>1, <2>2 DEF Connect
<1>2. CASE SendPart(c)
  BY <1>0, <1>2 DEF SendPart, DoorShape, Story, Keeps, OnlyOne, PermitMoves, Whole, WholeText,
                    WholeBody
<1>3. CASE Trickle(c)
  BY <1>0, <1>3 DEF Trickle, DoorShape, Story, Keeps, OnlyOne, PermitMoves, Whole
<1>4. CASE GiveUp(c)
  BY <1>0, <1>4 DEF GiveUp, DoorShape, Story, Keeps, OnlyOne, PermitMoves, Whole
<1>5. CASE ReadReply(c)
  BY <1>0, <1>5 DEF ReadReply, DoorShape, Story, Keeps, OnlyOne, PermitMoves, Whole
<1>. QED BY <1>1, <1>2, <1>3, <1>4, <1>5

LEMMA LoopKeeps ==
  ASSUME DoorInv, NEW c \in Conn, Admit(c) \/ Reject(c) \/ TimePasses(c)
  PROVE  Keeps(c)
<1> USE DEF Left, Working, Reading, Lines
<1>0. DoorShape /\ Story(c)
  BY DEF DoorInv
<1>1. CASE Admit(c)
  BY <1>0, <1>1 DEF Admit, DoorShape, Story, Keeps, OnlyOne, PermitMoves, Whole
<1>2. CASE Reject(c)
  BY <1>0, <1>2 DEF Reject, DoorShape, Story, Keeps, OnlyOne, PermitMoves, Whole
<1>3. CASE TimePasses(c)
  BY <1>0, <1>3 DEF TimePasses, DoorShape, Story, Keeps, OnlyOne, PermitMoves, Whole
<1>. QED BY <1>1, <1>2, <1>3

\* A worker that ends with a line it may write.
LEMMA FinishKeeps ==
  ASSUME DoorInv, NEW c \in Conn, NEW line \in {"refused", "answer", "internal_error"},
         Finish(c, line), server[c] \in Working,
         line = "refused" => acted[c] = 0, line = "answer" => acted[c] = 1,
         UNCHANGED <<door, up, request, client, acted>>
  PROVE  Keeps(c)
<1> USE DEF Left, Working, Reading, Lines
<1>0. DoorShape /\ Story(c)
  BY DEF DoorInv
<1>. QED BY <1>0 DEF Finish, DoorShape, Story, Keeps, OnlyOne, PermitMoves, Whole

\* A worker that goes on to a stage its request has come to.
LEMMA MoveKeeps ==
  ASSUME DoorInv, NEW c \in Conn, NEW next \in {"header", "body", "handling"},
         Moves(c, next), server[c] \in {"admitted", "header", "body"},
         DOMAIN unread' = Conn,
         next = "body" => request[c] = "upload",
         next = "handling" => Whole(c),
         UNCHANGED <<door, up, request, client, acted>>
  PROVE  Keeps(c)
<1> USE DEF Left, Working, Reading, Lines
<1>0. DoorShape /\ Story(c)
  BY DEF DoorInv
<1>. QED BY <1>0 DEF Moves, DoorShape, Story, Keeps, OnlyOne, PermitMoves, Whole

LEMMA ParsedKeeps ==
  ASSUME DoorInv, NEW c \in Conn, Parsed(c), server[c] = "header", sent[c] >= WholeText,
         UNCHANGED <<door, up, request, client, acted>>
  PROVE  Keeps(c)
<1>0. DoorShape /\ Story(c)
  BY DEF DoorInv
<1>1. CASE Refuse(c)
  BY <1>0, <1>1, FinishKeeps DEF Refuse, Story, Working, Reading
<1>2. CASE Moves(c, "body") /\ request[c] = "upload" /\ DOMAIN unread' = Conn
  BY <1>2, MoveKeeps
<1>3. CASE Moves(c, "handling") /\ request[c] # "upload" /\ DOMAIN unread' = Conn
  BY <1>3, MoveKeeps DEF Whole
<1>. QED BY <1>0, <1>1, <1>2, <1>3 DEF Parsed, DoorShape

LEMMA WorkerKeeps ==
  ASSUME DoorInv, NEW c \in Conn,
         \/ Identify(c) \/ ReadHeader(c) \/ HeaderEnds(c) \/ ReadBody(c) \/ Deadline(c)
         \/ Handle(c) \/ Answer(c) \/ Raises(c)
  PROVE  Keeps(c)
<1>0. DoorShape /\ Story(c)
  BY DEF DoorInv
<1>1. CASE Identify(c)
  <2>1. CASE Refuse(c)
    BY <1>0, <1>1, <2>1, FinishKeeps DEF Identify, Refuse, Story, Working, Reading
  <2>2. CASE Moves(c, "header") /\ UNCHANGED unread
    BY <1>0, <1>1, <2>2, MoveKeeps DEF Identify, DoorShape
  <2>. QED BY <1>1, <2>1, <2>2 DEF Identify
<1>2. CASE ReadHeader(c)
  <2>1. CASE Refuse(c)
    BY <1>0, <1>2, <2>1, FinishKeeps DEF ReadHeader, Refuse, Story, Working, Reading
  <2>2. CASE Moves(c, "header") /\ unread' = [unread EXCEPT ![c] = FALSE]
    BY <1>0, <1>2, <2>2, MoveKeeps DEF ReadHeader, DoorShape
  <2>3. CASE sent[c] >= WholeLine /\ Parsed(c)
    BY <1>0, <1>2, <2>3, ParsedKeeps DEF ReadHeader, WholeLine, WholeText, DoorShape
  <2>. QED BY <1>2, <2>1, <2>2, <2>3 DEF ReadHeader
<1>3. CASE HeaderEnds(c)
  <2>1. CASE Refuse(c)
    BY <1>0, <1>3, <2>1, FinishKeeps DEF HeaderEnds, Refuse, Story, Working, Reading
  <2>2. CASE ~(sent[c] < WholeText) /\ Parsed(c)
    BY <1>0, <1>3, <2>2, ParsedKeeps DEF HeaderEnds, WholeText, DoorShape
  <2>. QED BY <1>3, <2>1, <2>2 DEF HeaderEnds
<1>4. CASE ReadBody(c)
  <2>1. CASE Refuse(c)
    BY <1>0, <1>4, <2>1, FinishKeeps DEF ReadBody, Refuse, Story, Working, Reading
  <2>2. CASE Moves(c, "body") /\ unread' = [unread EXCEPT ![c] = FALSE]
    BY <1>0, <1>4, <2>2, MoveKeeps DEF ReadBody, Story, DoorShape
  <2>3. CASE Moves(c, "handling") /\ sent[c] = WholeBody /\ unread' = [unread EXCEPT ![c] = FALSE]
    BY <1>0, <1>4, <2>3, MoveKeeps DEF ReadBody, Whole, WholeBody, DoorShape, Story
  <2>. QED BY <1>4, <2>1, <2>2, <2>3 DEF ReadBody, ReceiveBody
<1>5. CASE Deadline(c)
  BY <1>0, <1>5, FinishKeeps DEF Deadline, Refuse, Story, Working, Reading
<1>6. CASE Handle(c)
  BY <1>0, <1>6 DEF Handle, Moves, DoorShape, Story, Keeps, OnlyOne, PermitMoves, Whole, Left,
                    Working, Reading
<1>7. CASE Answer(c)
  BY <1>0, <1>7, FinishKeeps DEF Answer, Story, Working, Reading
<1>8. CASE Raises(c)
  BY <1>0, <1>8, FinishKeeps DEF Raises
<1>. QED BY <1>1, <1>2, <1>3, <1>4, <1>5, <1>6, <1>7, <1>8

LEMMA DoorStep == DoorInv /\ [DoorNext]_doorVars => DoorInv'
<1> SUFFICES ASSUME DoorInv, [DoorNext]_doorVars PROVE DoorInv'
  OBVIOUS
<1>1. ASSUME NEW c \in Conn, Keeps(c) PROVE DoorInv'
  BY <1>1, OneStep DEF Keeps
<1>2. ASSUME NEW c \in Conn,
             InvoiceCall(c) \/ MailRoundtrip(c) \/ DaemonStep(c) \/ TimePasses(c) \/ Raises(c)
      PROVE  Keeps(c)
  BY <1>2, ClientKeeps, LoopKeeps, WorkerKeeps
     DEF InvoiceCall, MailRoundtrip, DaemonStep, InvoiceAcceptLoop, MailAcceptLoop,
         InvoiceHandleConnection, MailHandleConnection
<1>3. CASE EndOfProcess
  <2>1. Workers' = {}
    BY <1>3 DEF EndOfProcess, Workers, Working, Reading
  <2>2. PermitsOut'
    BY <1>3, <2>1, FS_EmptySet, DoorAssumption DEF EndOfProcess, PermitsOut
  <2>3. DoorShape'
    BY <1>3, DoorAssumption DEF EndOfProcess, DoorInv, DoorShape
  <2>4. \A c \in Conn : Story(c)'
    BY <1>3 DEF EndOfProcess, DoorInv, DoorShape, Story, Whole
  <2>. QED BY <2>2, <2>3, <2>4 DEF DoorInv
<1>4. CASE StartAgain \/ UNCHANGED doorVars
  <2>1. UNCHANGED <<permits, request, client, server, sent, unread, reply, acted>>
    BY <1>4 DEF StartAgain, doorVars
  <2>2. Workers' = Workers
    BY <2>1 DEF Workers
  <2>3. DoorShape' /\ PermitsOut'
    BY <2>1, <2>2 DEF DoorInv, DoorShape, PermitsOut
  <2>4. \A c \in Conn : Story(c)'
    BY <2>1 DEF DoorInv, Story, Whole
  <2>. QED BY <2>3, <2>4 DEF DoorInv
<1>. QED BY <1>1, <1>2, <1>3, <1>4 DEF DoorNext

\* For any number of connections and permits, however requests come in, stop
\* half-way and are given up, wherever a worker raises and wherever the daemon
\* dies: a refusal was not acted on, an answer was, once, nothing is acted on in
\* part, and the permits that are out are exactly the workers'.
THEOREM DoorIsTrue == DoorSpec => []SettledIsTrue
<1>. QED BY DoorStarts, DoorStep, DoorGivesSettled, PTL DEF DoorSpec

\* A client is told once, by its own step; only a worker that handles acts.
LEMMA ToldOnce ==
  ASSUME DoorInv, [DoorNext]_doorVars
  PROVE  \/ acted' = acted /\ \A c \in Conn : client[c] \in Left => client'[c] = client[c]
         \/ client' = client /\ \E c \in Conn : server[c] = "handling"
                                             /\ acted' = [acted EXCEPT ![c] = @ + 1]
<1> DEFINE Holds == \A c \in Conn : client[c] \in Left => client'[c] = client[c]
<1>0. client \in [Conn -> Left \cup {"idle", "sending", "waiting"}]
  BY DEF DoorInv, DoorShape
<1>1. ASSUME NEW c \in Conn,
             Connect(c) \/ SendPart(c) \/ Trickle(c) \/ GiveUp(c) \/ ReadReply(c)
      PROVE  acted' = acted /\ Holds
  <2>1. acted' = acted /\ client[c] \in {"idle", "sending", "waiting"}
    BY <1>1 DEF Connect, SendPart, Trickle, GiveUp, ReadReply
  <2>2. \A d \in Conn : d # c => client'[d] = client[d]
    BY <1>0, <1>1 DEF Connect, SendPart, Trickle, GiveUp, ReadReply
  <2>. QED BY <2>1, <2>2 DEF Left
<1>2. ASSUME NEW c \in Conn, Handle(c)
      PROVE  client' = client /\ server[c] = "handling" /\ acted' = [acted EXCEPT ![c] = @ + 1]
  BY <1>2 DEF Handle
<1>3. ASSUME NEW c \in Conn,
             \/ Admit(c) \/ Reject(c) \/ TimePasses(c) \/ Answer(c) \/ Raises(c)
             \/ Identify(c) \/ ReadHeader(c) \/ HeaderEnds(c) \/ ReadBody(c) \/ Deadline(c)
      PROVE  acted' = acted /\ client' = client
  BY <1>3 DEF Admit, Reject, TimePasses, Answer, Raises, Identify, ReadHeader, HeaderEnds, ReadBody,
              Deadline
<1>4. CASE EndOfProcess \/ StartAgain \/ UNCHANGED doorVars
  BY <1>4 DEF EndOfProcess, StartAgain, doorVars
<1>. QED
  BY <1>1, <1>2, <1>3, <1>4
     DEF DoorNext, InvoiceCall, MailRoundtrip, DaemonStep, InvoiceAcceptLoop, MailAcceptLoop,
         InvoiceHandleConnection, MailHandleConnection

LEMMA DoorMaps ==
  ASSUME DoorInv, DoorInv', [DoorNext]_doorVars
  PROVE  DoorPromise!Next
<1>1. acted \in [Conn -> Nat] /\ \A c \in Conn : Story(c) /\ Story(c)'
  BY DEF DoorInv, DoorShape
<1> DEFINE heard == [c \in Conn |-> Heard(c)]
<1>2. CASE acted' = acted /\ \A c \in Conn : client[c] \in Left => client'[c] = client[c]
  <2>1. ASSUME NEW c \in Conn, Heard(c)' # Heard(c)
        PROVE  /\ Heard(c) = "nothing"
               /\ Heard(c)' = "done" => acted[c] = 1
               /\ Heard(c)' = "refused" => acted[c] = 0
    <3>1. Heard(c) = "nothing"
      BY <1>2, <2>1 DEF Heard, Left
    <3>2. Heard(c)' = "done" => acted[c] = 1
      BY <1>1, <1>2 DEF Heard, Story
    <3>3. Heard(c)' = "refused" => acted[c] = 0
      BY <1>1, <1>2 DEF Heard, Story
    <3>. QED BY <3>1, <3>2, <3>3
  <2>2. heard' \in [Conn -> DoorPromise!Word]
    BY DEF Heard, DoorPromise!Word
  <2>3. \A c \in Conn : heard'[c] = Heard(c)' /\ heard[c] = Heard(c)
    OBVIOUS
  <2>. QED BY <1>2, <2>1, <2>2, <2>3 DEF DoorPromise!Next, DoorPromise!Tell, DoorPromise!MaySay
<1>3. ASSUME client' = client,
             NEW c \in Conn, server[c] = "handling", acted' = [acted EXCEPT ![c] = @ + 1]
      PROVE  DoorPromise!Next
  <2>1. acted[c] = 0 /\ Heard(c) \in {"nothing", "unknown"}
    BY <1>1, <1>3 DEF Story, Heard
  <2>2. heard' = heard
    BY <1>3 DEF Heard
  <2>3. acted' = [acted EXCEPT ![c] = 1]
    BY <1>1, <1>3, <2>1
  <2>. QED BY <2>1, <2>2, <2>3 DEF DoorPromise!Next, DoorPromise!Act
<1>. QED BY <1>2, <1>3, ToldOnce

\* The door implements the promise to its clients.
LEMMA DoorPromises == DoorInit /\ [][DoorNext]_doorVars => DoorPromised
<1>1. DoorInit => DoorPromise!Init
  BY DEF DoorInit, DoorPromise!Init, Heard
<1>2. DoorInv /\ DoorInv' /\ [DoorNext]_doorVars
        => [DoorPromise!Next]_<<acted, [c \in Conn |-> Heard(c)]>>
  BY DoorMaps
<1>. QED BY <1>1, <1>2, DoorStarts, DoorStep, PTL DEF DoorPromised, DoorPromise!Spec

-----------------------------------------------------------------------------
(* What a program may rely on whose handler is more than one step.         *)

\* Where no worker has handled the request yet.
Early == {"none", "backlog", "admitted", "header", "body"}

\* Everything that befalls a connection but what its handler does, and the end of
\* the process.
Apart(c) ==
  \/ Connect(c) \/ SendPart(c) \/ Trickle(c) \/ GiveUp(c) \/ ReadReply(c)
  \/ Admit(c) \/ Reject(c) \/ TimePasses(c)
  \/ Identify(c) \/ ReadHeader(c) \/ HeaderEnds(c) \/ ReadBody(c) \/ Deadline(c) \/ Answer(c)
  \/ server[c] # "handling" /\ Raises(c)

\* A connection goes one way: it is refused before it is handled or not at
\* all, and only Handle takes it out of handling.
OneWay(c) ==
  /\ server'[c] \in Early => server[c] \in Early
  /\ server'[c] = "handling" => server[c] \in Early \cup {"handling"}
  /\ server[c] = "handling" => server'[c] = "handling"
  /\ reply'[c] = "refused" => reply[c] = "refused" \/ server[c] \in Early
  /\ acted'[c] = acted[c]

LEMMA ApartIsOneWay ==
  ASSUME DoorInv, NEW c \in Conn, Apart(c)
  PROVE  \A d \in Conn : OneWay(d)
<1>0. DoorShape /\ Story(c)
  BY DEF DoorInv
<1>1. Keeps(c)
  BY ClientKeeps, LoopKeeps, WorkerKeeps DEF Apart
<1>2. ASSUME NEW d \in Conn, d # c PROVE OneWay(d)
  BY <1>0, <1>1, <1>2 DEF Keeps, OnlyOne, DoorShape, OneWay
<1>3. OneWay(c)
  <2>1. CASE Connect(c) \/ SendPart(c) \/ Trickle(c) \/ GiveUp(c) \/ ReadReply(c)
             \/ Admit(c) \/ Reject(c) \/ TimePasses(c)
    BY <1>0, <2>1 DEF DoorShape, Story, Connect, SendPart, Trickle, GiveUp, ReadReply, Admit,
                      Reject, TimePasses, OneWay, Early
  <2>2. CASE Identify(c) \/ ReadHeader(c) \/ HeaderEnds(c) \/ ReadBody(c) \/ Deadline(c)
    <3>1. server[c] \in {"admitted", "header", "body"} /\ acted' = acted
      BY <2>2 DEF Identify, ReadHeader, HeaderEnds, ReadBody, Deadline, Reading
    <3>. QED BY <3>1 DEF OneWay, Early
  <2>3. CASE Answer(c) \/ (server[c] # "handling" /\ Raises(c))
    BY <1>0, <2>3 DEF DoorShape, Answer, Raises, Finish, OneWay, Early
  <2>. QED BY <2>1, <2>2, <2>3 DEF Apart
<1>. QED BY <1>2, <1>3

=============================================================================
