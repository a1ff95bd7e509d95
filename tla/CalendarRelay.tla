--------------------------- MODULE CalendarRelay ---------------------------
(***************************************************************************)
(* The calendar relay (hermes_calendar/server.py and transport.py) and the *)
(* plugin that calls it (plugins/familycal): one thread that takes one     *)
(* connection at a time, a daily quota in a file that is rewritten in      *)
(* place, Google's token in another, and clients that stop waiting while   *)
(* their request still lies in the socket.                                 *)
(*                                                                         *)
(* A failing call of the file system, a Google that does not answer, and   *)
(* the death of the process are steps of their own.                        *)
(***************************************************************************)
EXTENDS EventPlan

CONSTANTS Call,         \* the tool calls of the agent
          Args,         \* bound: what they may be called with
          CalendarBacklog,      \* listen(16)
          DailyLimit,   \* CALENDAR_DAILY_LIMIT
          MaxDay        \* bound: days

ASSUME RelayAssumption ==
  /\ CalendarBacklog \in Nat
  /\ DailyLimit \in Nat
  /\ MaxDay \in Nat

\* The plugin passes only integers on: times, or what stands for none.
ASSUME ArgsAssumption ==
  \A args \in Args : args.start \in Int /\ args.end \in Int /\ args.duration \in Int

Day == 0 .. MaxDay
Torn == "torn"       \* a token file that was truncated and not written again
Absent == "absent"
NoCount == [date |-> -1, count |-> 0]   \* no quota file, or a truncated one
NoCall == "nobody"

ASSUME NoCallAssumption == NoCall \notin Call

VARIABLES dry,        \* CALENDAR_DRY_RUN, as the relay was started
          day,        \* today
          call,       \* what became of each tool call
          backlog,    \* the connections the relay has not accepted, in order
          relay,      \* the one thread of the relay
          quotaFile,  \* ratelimit.json
          tokenFile,  \* what CALENDAR_GOOGLE_TOKEN names
          events,     \* Google's calendar: the events made, in order
          charged,    \* history: slots taken on each day
          lost        \* history: those of each day that no count held

calendarFiles == <<quotaFile, tokenFile>>
chargeHistory == <<charged, lost>>
calendarVars == <<dry, day, call, backlog, relay, calendarFiles, events, chargeHistory>>

\* service: a transport with credentials is cached; label, count: what is
\* about to be written to the quota file; blind: that file could not be read;
\* resp: what is about to be answered,
\* one of the plugin's error kinds or of the three ways a call succeeds.
Stopped == [at |-> "down", conn |-> NoCall, service |-> FALSE,
            label |-> 0, count |-> 0, blind |-> FALSE, resp |-> "ok"]

Unasked == [phase |-> "new", args |-> CHOOSE a \in Args : TRUE, reply |-> "ok"]

Asked == call[relay.conn].args

Goes(place) == relay' = [relay EXCEPT !.at = place]
Answers(resp) == relay' = [relay EXCEPT !.at = "reply", !.resp = resp]

Ended(c, resp) == [call EXCEPT ![c].phase = "done", ![c].reply = resp]

-----------------------------------------------------------------------------
\* load_config: a rehearsal unless the environment says otherwise.
CalendarInit ==
  /\ dry \in BOOLEAN
  /\ day = 0
  /\ call = [c \in Call |-> Unasked]
  /\ backlog = <<>>
  /\ relay = Stopped
  /\ quotaFile = NoCount
  /\ tokenFile \in {Absent, "valid"}
  /\ events = <<>>
  /\ charged = [d \in Day |-> 0]
  /\ lost = [d \in Day |-> 0]

\* handler.create_event or list_contacts up to the end of sendall: the checks,
\* connect, and the request in the socket.
Ask(c, args) ==
  /\ call[c].phase = "new"
  /\ LET asked(phase, resp) == [call EXCEPT ![c] = [phase |-> phase, args |-> args, reply |-> resp]]
     IN  IF ~WellFormed(args)
         THEN call' = asked("done", "invalid_input") /\ UNCHANGED backlog
         ELSE IF relay.at = "down" \/ Len(backlog) >= CalendarBacklog
         THEN call' = asked("done", "unreachable") /\ UNCHANGED backlog
         ELSE call' = asked("waiting", "ok") /\ backlog' = Append(backlog, c)
  /\ UNCHANGED <<dry, day, relay, calendarFiles, events, chargeHistory>>

\* _roundtrip's 30 seconds are over (read_timeout); the request stays where
\* it is.
StopsWaiting(c) ==
  /\ call[c].phase = "waiting"
  /\ call' = Ended(c, "unreachable")
  /\ UNCHANGED <<dry, day, backlog, relay, calendarFiles, events, chargeHistory>>

Accept ==
  /\ relay.at = "listen"
  /\ backlog # <<>>
  /\ relay' = [relay EXCEPT !.at = "read", !.conn = Head(backlog)]
  /\ backlog' = Tail(backlog)
  /\ UNCHANGED <<dry, day, call, calendarFiles, events, chargeHistory>>

\* make_transport fails when there is no token file; a rehearsal needs none.
NoTransport == ~dry /\ ~relay.service /\ tokenFile = Absent

\* _read_line and handle_request up to the quota: nothing is charged yet.
Read ==
  /\ relay.at = "read"
  /\ IF Asked.op = "contacts" THEN Answers("contacts")
     ELSE IF ~Plannable(Asked) THEN Answers("invalid_input")
     ELSE IF NoTransport THEN Answers("transport_failed")
     ELSE Goes(IF dry THEN "rehearse" ELSE "quota")
  /\ UNCHANGED <<dry, day, call, backlog, calendarFiles, events, chargeHistory>>

\* DryRunTransport.execute and the answer after it.
Rehearse ==
  /\ relay.at = "rehearse"
  /\ Answers("rehearsed")
  /\ UNCHANGED <<dry, day, call, backlog, calendarFiles, events, chargeHistory>>

\* The count of a day, by a file that may be missing, torn, or of another day.
CountOf(file, d) == IF file.date = d THEN file.count ELSE 0

\* Mutant: the limit is the first count that is too many.
AtLimitLate(count) == count > DailyLimit

AtLimit(count) == count >= DailyLimit

\* _ratelimit_check_and_consume up to its write: from here on the slot is
\* taken, whatever happens.  A file that cannot be read counts as empty: this
\* slot is granted in any case.
TakeSlot ==
  /\ relay.at = "quota"
  /\ \E blind \in BOOLEAN :
       LET count == IF blind THEN 0 ELSE CountOf(quotaFile, day)
       IN  IF AtLimit(count)
           THEN Answers("not_allowed") /\ UNCHANGED chargeHistory
           ELSE /\ relay' = [relay EXCEPT !.at = "open", !.label = day,
                                          !.count = count + 1, !.blind = blind]
                /\ charged' = [charged EXCEPT ![day] = @ + 1]
                /\ lost' = IF blind THEN [lost EXCEPT ![day] = @ + 1] ELSE lost
  /\ UNCHANGED <<dry, day, call, backlog, calendarFiles, events>>

\* This slot is not counted; it may be one that was not held to the count.
OneLost == IF relay.blind THEN lost ELSE [lost EXCEPT ![relay.label] = @ + 1]

\* All that was counted of the day is forgotten.
AllLost == [lost EXCEPT ![relay.label] = charged[relay.label]]

\* _ratelimit_check_and_consume returns: its locals are gone.
Granted == relay' = [relay EXCEPT !.at = "auth", !.label = 0, !.count = 0, !.blind = FALSE]

\* write_text: opening truncates; that the file cannot be opened, or written,
\* is ignored (`except OSError: pass').
QuotaOpened ==
  /\ relay.at = "open"
  /\ quotaFile' = NoCount
  /\ Goes("write")
  /\ UNCHANGED <<dry, day, call, backlog, tokenFile, events, chargeHistory>>

QuotaNotOpened ==
  /\ relay.at = "open"
  /\ Granted
  /\ lost' = OneLost
  /\ UNCHANGED <<dry, day, call, backlog, calendarFiles, events, charged>>

\* After a failing read the file holds this slot, and those before it are gone.
QuotaWritten ==
  /\ relay.at = "write"
  /\ quotaFile' = [date |-> relay.label, count |-> relay.count]
  /\ Granted
  /\ lost' = IF relay.blind THEN [lost EXCEPT ![relay.label] = charged[relay.label] - 1] ELSE lost
  /\ UNCHANGED <<dry, day, call, backlog, tokenFile, events, charged>>

QuotaNotWritten ==
  /\ relay.at = "write"
  /\ Granted
  /\ lost' = AllLost
  /\ UNCHANGED <<dry, day, call, backlog, calendarFiles, events, charged>>

\* GoogleTransport._svc: a cached service, or one built from the token file,
\* which may have to be refreshed and is then written again.
Authorised ==
  /\ relay.at = "auth"
  /\ relay.service \/ tokenFile = "valid"
  /\ relay' = [relay EXCEPT !.at = "insert", !.service = TRUE]
  /\ UNCHANGED <<dry, day, call, backlog, calendarFiles, events, chargeHistory>>

Refreshed ==
  /\ relay.at = "auth"
  /\ ~relay.service /\ tokenFile = "expired"
  /\ Goes("storeOpen")
  /\ UNCHANGED <<dry, day, call, backlog, calendarFiles, events, chargeHistory>>

\* No sound token, a refresh that fails, a file that cannot be read, no network.
NotAuthorised ==
  /\ relay.at = "auth"
  /\ ~relay.service
  /\ Answers("transport_failed")
  /\ UNCHANGED <<dry, day, call, backlog, calendarFiles, events, chargeHistory>>

TokenOpened ==
  /\ relay.at = "storeOpen"
  /\ tokenFile' = Torn
  /\ Goes("storeWrite")
  /\ UNCHANGED <<dry, day, call, backlog, quotaFile, events, chargeHistory>>

TokenWritten ==
  /\ relay.at = "storeWrite"
  /\ tokenFile' = "valid"
  /\ relay' = [relay EXCEPT !.at = "insert", !.service = TRUE]
  /\ UNCHANGED <<dry, day, call, backlog, quotaFile, events, chargeHistory>>

\* An OSError on either side of it is google_auth_failed, like any other.
TokenNotStored ==
  /\ relay.at \in {"storeOpen", "storeWrite"}
  /\ Answers("transport_failed")
  /\ UNCHANGED <<dry, day, call, backlog, calendarFiles, events, chargeHistory>>

\* GoogleTransport.execute: the event is made, or it is not.
Insert ==
  /\ relay.at = "insert"
  /\ events' = Append(events, [call |-> relay.conn, plan |-> EventOf(Asked)])
  /\ Goes("answer")
  /\ UNCHANGED <<dry, day, call, backlog, calendarFiles, chargeHistory>>

InsertFails ==
  /\ relay.at = "insert"
  /\ Answers("transport_failed")
  /\ UNCHANGED <<dry, day, call, backlog, calendarFiles, events, chargeHistory>>

\* Mutant: an answer that was lost counts as a refusal.
OutcomeHasty == {"ok", "not_allowed"}

\* Google's answer, or none although the event is there; then the audit line,
\* whose failing changes nothing.
Outcome == {"ok", "transport_failed"}

InsertAnswered ==
  /\ relay.at = "answer"
  /\ \E resp \in Outcome : Answers(resp)
  /\ UNCHANGED <<dry, day, call, backlog, calendarFiles, events, chargeHistory>>

\* Mutant: a client that has gone away takes the accept loop with it.
ReplyOrDie ==
  /\ relay.at = "reply"
  /\ call[relay.conn].phase = "waiting"
  /\ call' = Ended(relay.conn, relay.resp)
  /\ relay' = [relay EXCEPT !.at = "listen", !.conn = NoCall]
  /\ UNCHANGED <<dry, day, backlog, calendarFiles, events, chargeHistory>>

\* Mutant: the answer to a client that stopped waiting reaches it after all.
SendReplyLate ==
  /\ relay.at = "reply"
  /\ call' = Ended(relay.conn, relay.resp)
  /\ relay' = [relay EXCEPT !.at = "listen", !.conn = NoCall]
  /\ UNCHANGED <<dry, day, backlog, calendarFiles, events, chargeHistory>>

\* sendall, to a client that may have gone: `except Exception: pass'.
SendReply ==
  /\ relay.at = "reply"
  /\ call' = IF call[relay.conn].phase = "waiting" THEN Ended(relay.conn, relay.resp) ELSE call
  /\ relay' = [relay EXCEPT !.at = "listen", !.conn = NoCall]
  /\ UNCHANGED <<dry, day, backlog, calendarFiles, events, chargeHistory>>

\* The process dies.  A client whose request was not read gets a reset, which
\* the plugin calls internal_error, an invalid_input; one whose request was
\* read finds the connection closed.
RelayDies ==
  /\ relay.at # "down"
  /\ LET unread == {backlog[i] : i \in DOMAIN backlog}
                     \cup (IF relay.at = "read" THEN {relay.conn} ELSE {})
         resp(c) == IF c \in unread THEN "invalid_input" ELSE "unreachable"
     IN  call' = [c \in Call |-> IF call[c].phase = "waiting"
                                 THEN [call[c] EXCEPT !.phase = "done", !.reply = resp(c)]
                                 ELSE call[c]]
  /\ backlog' = <<>>
  /\ relay' = Stopped
  /\ lost' = IF relay.at = "write" THEN AllLost ELSE IF relay.at = "open" THEN OneLost ELSE lost
  /\ UNCHANGED <<dry, day, calendarFiles, events, charged>>

\* make_server_socket removes the socket the dead process has left.
RelayStarts ==
  /\ relay.at = "down"
  /\ Goes("listen")
  /\ UNCHANGED <<dry, day, call, backlog, calendarFiles, events, chargeHistory>>

Midnight ==
  /\ day < MaxDay
  /\ day' = day + 1
  /\ UNCHANGED <<dry, call, backlog, relay, calendarFiles, events, chargeHistory>>

TokenExpires ==
  /\ tokenFile = "valid"
  /\ tokenFile' = "expired"
  /\ UNCHANGED <<dry, day, call, backlog, relay, quotaFile, events, chargeHistory>>

\* setup-google-auth.py, run by hand.
Authorize ==
  /\ tokenFile # "valid"
  /\ tokenFile' = "valid"
  /\ UNCHANGED <<dry, day, call, backlog, relay, quotaFile, events, chargeHistory>>

Serve ==
  \/ Accept \/ Read \/ Rehearse
  \/ TakeSlot \/ QuotaOpened \/ QuotaNotOpened \/ QuotaWritten \/ QuotaNotWritten
  \/ Authorised \/ Refreshed \/ NotAuthorised
  \/ TokenOpened \/ TokenWritten \/ TokenNotStored
  \/ Insert \/ InsertFails \/ InsertAnswered \/ SendReply

CalendarNext ==
  \/ Serve \/ RelayStarts \/ RelayDies
  \/ \E c \in Call : StopsWaiting(c) \/ \E args \in Args : Ask(c, args)
  \/ Midnight \/ TokenExpires \/ Authorize

CalendarSpec == CalendarInit /\ [][CalendarNext]_calendarVars

\* The one thread runs on: recv and Google's client have timeouts; systemd
\* starts the relay again.
CalendarFairSpec == CalendarSpec /\ WF_calendarVars(Serve) /\ WF_calendarVars(RelayStarts)

-----------------------------------------------------------------------------
\* However calls, midnights, crashes, failing reads and failing writes fall, the
\* slots taken on a day exceed the daily limit by no more than those that no
\* count held: one for a file that cannot be opened; all that was counted that
\* day for a crash or a full disk between truncation and write; and for a read
\* that fails, which the code takes for an empty file, this slot, and with the
\* write after it all that was counted before (server.py:48-61).
QuotaKept == \A d \in Day : charged[d] <= DailyLimit + lost[d]

\* An event is in the calendar at most once per request, even one whose caller
\* has long gone; never in a rehearsal; and with the guests its request meant,
\* attending or only informed, and nobody else.
EventsJustified ==
  /\ dry => events = <<>>
  /\ \A i, j \in DOMAIN events : events[i].call = events[j].call => i = j
  /\ \A i \in DOMAIN events : PlanRight(call[events[i].call].args, events[i].plan)

\* The relay's one thread comes back to each client: no earlier request, and no
\* client that has gone, keeps a later one from being answered, although none
\* is ever forced to give up.
NobodyWaits == \A c \in Call : call[c].phase = "waiting" ~> call[c].phase = "done"

Made(c) == \E i \in DOMAIN events : events[i].call = c
TimesMade(c) == Cardinality({i \in DOMAIN events : events[i].call = c})
Refusal == {"invalid_input", "not_allowed", "rehearsed", "contacts"}

\* What a call of the agent was told of its event: only transport_failed and
\* unreachable leave it open.
Learnt(c) ==
  IF call[c].phase # "done" THEN "nothing"
  ELSE IF call[c].reply = "ok" THEN "done"
  ELSE IF call[c].reply \in Refusal THEN "refused"
  ELSE "unknown"

RelayPromise == INSTANCE ClientPromise WITH
  Client <- Call,
  acted <- [c \in Call |-> TimesMade(c)],
  told <- [c \in Call |-> Learnt(c)]

\* Step by step the relay keeps the promise of the doors: `ok' means the event
\* is there; a call that was refused (not_allowed, invalid_input, also the reset
\* of a relay that died) has none and will have none, wherever its request still
\* lies; and nothing is said twice, whoever comes late.
RelayPromised == RelayPromise!Spec
=============================================================================
