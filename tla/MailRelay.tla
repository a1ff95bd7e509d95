------------------------------ MODULE MailRelay ------------------------------
(***************************************************************************)
(* The mail relay (mail-relay/hermes_mailer): the worker threads of the    *)
(* daemon that send mail for one caller, the table of sends that caps the  *)
(* mails of a recipient in a day, the operator's allowlist with its last   *)
(* good version in memory, and the provider (Resend or an SMTP server),    *)
(* which may accept a mail the daemon has given up waiting for.            *)
(*                                                                         *)
(* Callers share nothing, so one is modelled; validation, attachments and  *)
(* the dry-run transport, which is never counted, are left out.            *)
(***************************************************************************)
EXTENDS Integers, Sequences, FiniteSets

CONSTANTS Recipient,   \* the addresses the caller asks to write to
          Worker,      \* the worker threads
          MaxLimit,    \* the highest daily_limit an allowlist may have (100)
          Limits,      \* the limits the operator writes into the allowlist
          Ttl,         \* reservation_ttl_seconds
          DayOf,       \* the local day of an instant
          ClockSteps,  \* how far the wall clock may move at once
          MaxClock,    \* bound: the instants are 0 .. MaxClock
          MaxSends,    \* bound: calls that come to the table
          MaxEdits     \* bound: good versions of the allowlist

Instant == 0 .. MaxClock

ASSUME MailAssumption ==
  /\ MaxLimit \in Nat
  /\ Limits \subseteq 1 .. MaxLimit
  /\ Ttl \in Nat
  /\ MaxClock \in Nat
  /\ MaxSends \in Nat
  /\ MaxEdits \in Nat
  /\ ClockSteps \subseteq Int

VARIABLES
  clock,     \* the wall clock
  editions,  \* the good versions of the allowlist so far
  file,      \* the one that lies on disk, 0 if what lies there is unreadable
  cache,     \* the last good one this daemon has read, 0 if none
  sends,     \* the table; a row's id is its position
  task,      \* what each worker is doing
  wire,      \* the mails that left and the provider has not dealt with
  accepted,  \* the mails the provider has accepted
  reply,     \* what the caller of each row was told
  served     \* the edition used last by any call (not in the code)

lists == <<editions, file, cache, served>>
outside == <<wire, accepted>>
vars == <<clock, lists, sends, task, outside, reply>>

Edition == [Recipient -> {0} \cup Limits]  \* 0: not on the list
RowId == 1 .. MaxSends
Day == {DayOf[t] : t \in Instant}

\* limit is not a column: it is what the call had read (Reservation.limit).
Row == [to : Recipient, at : Instant, day : Day, limit : 1 .. MaxLimit,
        status : {"reserved", "sent", "failed_pre_send", "unknown_post_send"}]

\* _COUNTED_STATUSES
Counted == {"reserved", "sent", "unknown_post_send"}

\* Where a worker is in handle_send and _send_under_reservation.
After == {"connect", "wait", "settle", "count"}

Idle == [at |-> "idle"]
Task == {Idle}
          \cup [at : {"label"}, to : Recipient, limit : 1 .. MaxLimit]
          \cup [at : {"reap", "insert"}, to : Recipient, limit : 1 .. MaxLimit, day : Day]
          \cup [at : {"connect", "wait", "count"}, row : RowId]
          \cup [at : {"settle"}, row : RowId,
                status : {"sent", "failed_pre_send", "unknown_post_send"}]

Init ==
  /\ clock = 0
  /\ editions = <<>>
  /\ file = 0
  /\ cache = 0
  /\ sends = <<>>
  /\ task = [w \in Worker |-> Idle]
  /\ wire = {}
  /\ accepted = {}
  /\ reply = [n \in RowId |-> "none"]
  /\ served = 0

Becomes(w, t) == task' = [task EXCEPT ![w] = t]

-----------------------------------------------------------------------------
(* The allowlist                                                           *)

\* The operator writes a new version, or breaks or removes the file.
Edits ==
  \/ /\ Len(editions) < MaxEdits
     /\ \E e \in Edition : editions' = Append(editions, e)
     /\ file' = Len(editions')
     /\ UNCHANGED <<clock, cache, served, sends, task, outside, reply>>
  \/ /\ file # 0
     /\ file' = 0
     /\ UNCHANGED <<clock, editions, cache, served, sends, task, outside, reply>>

\* Mutant: once there is a last good version it is kept.
LoadOnce(w, r) ==
  LET edition == IF file # 0 THEN file ELSE cache
      limit == IF edition # 0 THEN editions[edition][r] ELSE 0
  IN /\ task[w] = Idle
     /\ Len(sends) < MaxSends
     /\ cache' = IF cache # 0 THEN cache ELSE edition
     /\ served' = IF edition # 0 THEN edition ELSE served
     /\ IF limit = 0 THEN UNCHANGED task
                     ELSE Becomes(w, [at |-> "label", to |-> r, limit |-> limit])
     /\ UNCHANGED <<clock, editions, file, sends, outside, reply>>

\* load_for_caller, under its lock, and lookup: a file that cannot be read
\* leaves the last good version in force.
Load(w, r) ==
  LET edition == IF file # 0 THEN file ELSE cache
      limit == IF edition # 0 THEN editions[edition][r] ELSE 0
  IN /\ task[w] = Idle
     /\ Len(sends) < MaxSends
     /\ cache' = edition
     /\ served' = IF edition # 0 THEN edition ELSE served
     /\ IF limit = 0 THEN UNCHANGED task  \* not_in_allowlist
                     ELSE Becomes(w, [at |-> "label", to |-> r, limit |-> limit])
     /\ UNCHANGED <<clock, editions, file, sends, outside, reply>>

-----------------------------------------------------------------------------
(* The reservation                                                         *)

Label(w) ==
  /\ task[w].at = "label"
  /\ Becomes(w, [at |-> "reap", to |-> task[w].to, limit |-> task[w].limit,
                 day |-> DayOf[clock]])
  /\ UNCHANGED <<clock, lists, sends, outside, reply>>

\* Mutant: what was reserved too long ago is given back.
ReapedAsFailed ==
  [n \in DOMAIN sends |->
     IF sends[n].status = "reserved" /\ sends[n].at < clock - Ttl
     THEN [sends[n] EXCEPT !.status = "failed_pre_send"] ELSE sends[n]]

\* reap_stale_reservations: what was reserved too long ago is settled as a
\* mail that may have gone out.
Reaped ==
  [n \in DOMAIN sends |->
     IF sends[n].status = "reserved" /\ sends[n].at < clock - Ttl
     THEN [sends[n] EXCEPT !.status = "unknown_post_send"] ELSE sends[n]]

Reap(w) ==
  /\ task[w].at = "reap"
  /\ sends' = Reaped
  /\ Becomes(w, [task[w] EXCEPT !.at = "insert"])
  /\ UNCHANGED <<clock, lists, outside, reply>>

\* The rows, of the first n, that count against a recipient's day.
Against(r, d, n) ==
  {m \in 1 .. n : /\ sends[m].to = r
                  /\ sends[m].day = d
                  /\ sends[m].status \in Counted}

\* Mutant: off by one.
FullPast(t) == Cardinality(Against(t.to, t.day, Len(sends))) > t.limit

Full(t) == Cardinality(Against(t.to, t.day, Len(sends))) >= t.limit

\* BEGIN IMMEDIATE ... COMMIT
Insert(w) ==
  LET t == task[w]
  IN /\ t.at = "insert"
     /\ Len(sends) < MaxSends
     /\ ~Full(t)
     /\ sends' = Append(sends, [to |-> t.to, at |-> clock, day |-> t.day,
                                limit |-> t.limit, status |-> "reserved"])
     /\ Becomes(w, [at |-> "connect", row |-> Len(sends) + 1])
     /\ UNCHANGED <<clock, lists, outside, reply>>

\* ROLLBACK, rate_limit_exceeded.
Deny(w) ==
  /\ task[w].at = "insert"
  /\ Full(task[w])
  /\ Becomes(w, Idle)
  /\ UNCHANGED <<clock, lists, sends, outside, reply>>

-----------------------------------------------------------------------------
(* The transport                                                           *)

Settles(w, status) ==
  Becomes(w, [at |-> "settle", row |-> task[w].row, status |-> status])

\* make_transport or send raises PreSendError: a missing key or host, no
\* connection, no TLS, no login.
CannotSend(w) ==
  /\ task[w].at = "connect"
  /\ Settles(w, "failed_pre_send")
  /\ UNCHANGED <<clock, lists, sends, outside, reply>>

\* The mail is handed to the provider.
HandOver(w) ==
  /\ task[w].at = "connect"
  /\ wire' = wire \cup {task[w].row}
  /\ Becomes(w, [task[w] EXCEPT !.at = "wait"])
  /\ UNCHANGED <<clock, lists, sends, accepted, reply>>

\* The provider accepts a mail, or drops it, whether or not anyone waits.
Accept(n) ==
  /\ n \in wire
  /\ wire' = wire \ {n}
  /\ accepted' = accepted \cup {n}
  /\ UNCHANGED <<clock, lists, sends, task, reply>>

Drop(n) ==
  /\ n \in wire
  /\ wire' = wire \ {n}
  /\ UNCHANGED <<clock, lists, sends, task, accepted, reply>>

\* send returns a message id.
Answered(w) ==
  /\ task[w].at = "wait"
  /\ task[w].row \in accepted
  /\ Settles(w, "sent")
  /\ UNCHANGED <<clock, lists, sends, outside, reply>>

\* Resend answers 4xx: PreSendError.
Rejected(w) ==
  /\ task[w].at = "wait"
  /\ task[w].row \notin wire \cup accepted
  /\ Settles(w, "failed_pre_send")
  /\ UNCHANGED <<clock, lists, sends, outside, reply>>

\* Mutant: no answer is taken for a refusal.
FailsAsPreSend(w) ==
  /\ task[w].at \in {"connect", "wait"}
  /\ Settles(w, "failed_pre_send")
  /\ UNCHANGED <<clock, lists, sends, outside, reply>>

\* Any other exception, before or after the mail left: a timeout, a 5xx, a
\* connection that breaks.
Fails(w) ==
  /\ task[w].at \in {"connect", "wait"}
  /\ Settles(w, "unknown_post_send")
  /\ UNCHANGED <<clock, lists, sends, outside, reply>>

-----------------------------------------------------------------------------
(* Settling the row and answering                                          *)

Answers(n, what) == reply' = [reply EXCEPT ![n] = what]

AnswerOf(status) == IF status = "failed_pre_send" THEN "pre_send" ELSE "post_send_unknown"

\* Mutant: the status the row has by now is not looked at.
FinalizeAlways(w) ==
  LET n == task[w].row
      s == task[w].status
  IN /\ task[w].at = "settle"
     /\ sends' = [sends EXCEPT ![n].status = s]
     /\ IF s = "sent" THEN /\ Becomes(w, [at |-> "count", row |-> n])
                           /\ UNCHANGED reply
                      ELSE /\ Becomes(w, Idle)
                           /\ \E a \in {AnswerOf(s), "internal_error"} : Answers(n, a)
     /\ UNCHANGED <<clock, lists, outside>>

\* _finalize_or_warn: a row the reaper was faster on is left alone.  The
\* audit log, written before the answer, may fail.
Finalize(w) ==
  LET n == task[w].row
      s == task[w].status
  IN /\ task[w].at = "settle"
     /\ sends' = IF sends[n].status = "reserved"
                 THEN [sends EXCEPT ![n].status = s] ELSE sends
     /\ IF s = "sent" THEN /\ Becomes(w, [at |-> "count", row |-> n])
                           /\ UNCHANGED reply
                      ELSE /\ Becomes(w, Idle)
                           /\ \E a \in {AnswerOf(s), "internal_error"} : Answers(n, a)
     /\ UNCHANGED <<clock, lists, outside>>

\* count_today, audit and the answer.
CountToday(w) ==
  /\ task[w].at = "count"
  /\ Becomes(w, Idle)
  /\ Answers(task[w].row, "ok")
  /\ UNCHANGED <<clock, lists, sends, outside>>

\* sqlite raises (a locked or full database) in the reaper, the reservation,
\* finalize or count_today: the daemon's safety net answers.
Escape(w) ==
  /\ task[w].at \in {"reap", "insert", "settle", "count"}
  /\ Becomes(w, Idle)
  /\ IF task[w].at \in After THEN Answers(task[w].row, "internal_error")
                             ELSE UNCHANGED reply
  /\ UNCHANGED <<clock, lists, sends, outside>>

-----------------------------------------------------------------------------
(* The daemon and the clock                                                *)

\* The daemon dies, at any point, and comes up again: main reaps before it
\* listens.
Restart ==
  /\ cache' = 0
  /\ task' = [w \in Worker |-> Idle]
  /\ sends' = Reaped
  /\ UNCHANGED <<clock, editions, file, served, outside, reply>>

ClockMoves(d) ==
  /\ clock + d \in Instant
  /\ clock' = clock + d
  /\ UNCHANGED <<lists, sends, task, outside, reply>>

Next ==
  \/ \E w \in Worker :
       \/ \E r \in Recipient : Load(w, r)
       \/ Label(w) \/ Reap(w) \/ Insert(w) \/ Deny(w)
       \/ CannotSend(w) \/ HandOver(w) \/ Answered(w) \/ Rejected(w) \/ Fails(w)
       \/ Finalize(w) \/ CountToday(w) \/ Escape(w)
  \/ \E n \in RowId : Accept(n) \/ Drop(n)
  \/ Edits
  \/ Restart
  \/ \E d \in ClockSteps : ClockMoves(d)

Spec == Init /\ [][Next]_vars

-----------------------------------------------------------------------------
(* Properties                                                              *)

\* Type invariant; a worker past the reservation has a row of its own, and
\* that row is reserved unless the reaper was faster.
TypeOK ==
  /\ clock \in Instant
  /\ editions \in Seq(Edition) /\ Len(editions) <= MaxEdits
  /\ file \in 0 .. Len(editions)
  /\ cache \in 0 .. Len(editions)
  /\ served \in 0 .. Len(editions)
  /\ sends \in Seq(Row)
  /\ task \in [Worker -> Task]
  /\ wire \subseteq DOMAIN sends
  /\ accepted \subseteq DOMAIN sends
  /\ reply \in [RowId -> {"none", "ok", "pre_send", "post_send_unknown", "internal_error"}]
  /\ \A w \in Worker : task[w].at \in After =>
       /\ task[w].row \in DOMAIN sends
       /\ \A v \in Worker \ {w} : task[v].at \in After => task[v].row # task[w].row

\* What may have reached the provider counts against the recipient's day,
\* through lost answers, expired reservations, escapes and restarts: only a
\* mail that never went out is given back (transport.py, ratelimit.py 23).
MailCharged ==
  \A n \in wire \cup accepted : sends[n].status \in Counted

\* Every mail stayed within the limit its call had read, counting all that
\* may have gone out to the recipient that day before it, whatever the
\* operator has made of the limit since and whoever raced for the slot.
MailsWithinLimit ==
  \A n \in wire \cup accepted :
    Cardinality({m \in (wire \cup accepted) \cap 1 .. n :
                   sends[m].to = sends[n].to /\ sends[m].day = sends[n].day})
      <= sends[n].limit

\* "ok" means the provider has the mail, "pre_send" that it has not and will
\* not (errors.py: rejected before bytes left the host).
ReplyTrue ==
  \A n \in RowId :
    /\ reply[n] = "ok" => n \in accepted
    /\ reply[n] = "pre_send" => n \notin wire \cup accepted

\* A broken file brings no older allowlist back: no call is ever served an
\* edition older than one a call has been served before, restarts included.
NewestServed == [][served' > served]_served

\* The table implements the quota ledger, with the highest limit as the cap
\* of a day and none for an hour.

StateOf(status) ==
  IF status = "reserved" THEN "held" ELSE IF status = "failed_pre_send" THEN "freed" ELSE "spent"

Slots ==
  [n \in DOMAIN sends |->
     [key |-> sends[n].to, epoch |-> sends[n].at, day |-> sends[n].day,
      state |-> StateOf(sends[n].status)]]

Ledger == INSTANCE QuotaLedger WITH
  Key <- Recipient,
  PerHour <- [r \in Recipient |-> MaxSends],
  PerDay <- [r \in Recipient |-> MaxLimit],
  HourSeconds <- 1,
  slots <- Slots

LedgerSpec == Ledger!Spec
=============================================================================
