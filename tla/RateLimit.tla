----------------------------- MODULE RateLimit -----------------------------
(***************************************************************************)
(* The broker's rate limiter (hermes_greeninvoice/ratelimit.py) and the    *)
(* worker threads that use it through _run_gated (handler.py).             *)
(*                                                                         *)
(* A gated call labels itself with the local day, then enters reserve:     *)
(* reap stale rows (one transaction), read the clock, and, in a second     *)
(* transaction, count and insert a row.  The call to GreenInvoice follows, *)
(* outside any transaction, and finalize closes the row.  Between any two  *)
(* of these steps other workers, the clock and a crash may intervene, so   *)
(* the label and the epoch a row is counted and stored with are stale.     *)
(***************************************************************************)
EXTENDS Integers, Sequences, FiniteSets

CONSTANTS Key,          \* the (caller, action_class) pairs
          Worker,       \* the worker threads: daemon.MAX_CONCURRENT of them
          PerHour,      \* cfg.limits: cap of each key in a rolling hour
          PerDay,       \* cfg.limits: cap of each key in a calendar day
          HourSeconds,  \* the rolling window
          Ttl,          \* cfg.reservation_ttl_seconds
          DayOf,        \* the local day of every instant (time zone, DST)
          ClockSteps,   \* how far the wall clock may move at once: 1 as it runs,
                        \* any other displacement when NTP or an operator sets it
          MaxClock,     \* bound: the instants are 0..MaxClock
          MaxCalls      \* bound: rows ever inserted

Instant == 0 .. MaxClock

ASSUME LimiterAssumption ==
  /\ Key # {}
  /\ PerHour \in [Key -> Nat]
  /\ PerDay \in [Key -> Nat]
  /\ HourSeconds \in Nat
  /\ Ttl \in Nat
  /\ ClockSteps \subseteq Int
  /\ MaxClock \in Nat
  /\ MaxCalls \in Nat
  /\ DayOf \in [Instant -> Nat]

VARIABLES calls,   \* the calls table; a row's id is its position
          clock,   \* the wall clock
          up,      \* is the daemon running
          task     \* what each worker is doing

vars == <<calls, clock, up, task>>

Status == {"reserved", "committed", "unknown", "failed_pre_send"}
CountedStatuses == {"reserved", "committed", "unknown"}
FinalStatus == {"committed", "failed_pre_send", "unknown"}

\* local_day_str: the labels a call can be given.
Day == {DayOf[t] : t \in Instant}

Call == [key: Key, at: Instant, epoch: Instant, day: Day, status: Status]

\* Where a worker is: idle, or about to reap, to read the clock, to run the
\* admission transaction, or holding a reservation.
Phase == {"idle", "labelled", "reaped", "timed", "holding"}

Task == [phase: Phase, key: Key, day: Day, epoch: Instant, row: Nat]

NoTask == [phase |-> "idle", key |-> CHOOSE k \in Key : TRUE,
           day |-> DayOf[0], epoch |-> 0, row |-> 0]

Busy == {w \in Worker : task[w].phase # "idle"}
Holding == {w \in Worker : task[w].phase = "holding"}

-----------------------------------------------------------------------------
(* The two queries of _counts, over the rows whose status counts.          *)

Counted(i) == calls[i].status \in CountedStatuses

UsedHour(k, cutoff) ==
  {i \in DOMAIN calls : calls[i].key = k /\ calls[i].epoch > cutoff /\ Counted(i)}

UsedDay(k, d) ==
  {i \in DOMAIN calls : calls[i].key = k /\ calls[i].day = d /\ Counted(i)}

\* Mutant: "between the cutoff and now", which misses rows stamped later.
HourFullUpToNow(w) ==
  LET k == task[w].key
      e == task[w].epoch
  IN  Cardinality({i \in UsedHour(k, e - HourSeconds) : calls[i].epoch <= e}) >= PerHour[k]

HourFull(w) ==
  Cardinality(UsedHour(task[w].key, task[w].epoch - HourSeconds)) >= PerHour[task[w].key]

\* Mutant: the day is worked out again when it is counted.
DayFullToday(w) ==
  Cardinality(UsedDay(task[w].key, DayOf[clock])) >= PerDay[task[w].key]

DayFull(w) ==
  Cardinality(UsedDay(task[w].key, task[w].day)) >= PerDay[task[w].key]

\* reap_stale_reservations: the table after it, at the present clock.
Stale(r) == r.status = "reserved" /\ r.at < clock - Ttl

\* Mutant: an abandoned reservation is given back.
ReapedToFree ==
  [i \in DOMAIN calls |->
     IF Stale(calls[i]) THEN [calls[i] EXCEPT !.status = "failed_pre_send"] ELSE calls[i]]

Reaped ==
  [i \in DOMAIN calls |->
     IF Stale(calls[i]) THEN [calls[i] EXCEPT !.status = "unknown"] ELSE calls[i]]

-----------------------------------------------------------------------------
Init ==
  /\ calls = <<>>
  /\ clock = 0
  /\ up = TRUE
  /\ task = [w \in Worker |-> NoTask]

\* _run_gated: a worker takes a gated request of key k and labels it with
\* the local day before it enters reserve.
Label(w, k) ==
  /\ up
  /\ task[w].phase = "idle"
  /\ task' = [task EXCEPT ![w] = [NoTask EXCEPT !.phase = "labelled", !.key = k,
                                                !.day = DayOf[clock]]]
  /\ UNCHANGED <<calls, clock, up>>

\* reserve: the reaper runs first, in a transaction of its own.
ReapFirst(w) ==
  /\ task[w].phase = "labelled"
  /\ calls' = Reaped
  /\ task' = [task EXCEPT ![w].phase = "reaped"]
  /\ UNCHANGED <<clock, up>>

\* reserve: now_epoch is read before BEGIN IMMEDIATE.
ReadEpoch(w) ==
  /\ task[w].phase = "reaped"
  /\ task' = [task EXCEPT ![w].phase = "timed", ![w].epoch = clock]
  /\ UNCHANGED <<calls, clock, up>>

\* Mutant: the daily cap is not looked at.
AdmitAnyDay(w) ==
  /\ task[w].phase = "timed"
  /\ Len(calls) < MaxCalls
  /\ ~HourFull(w)
  /\ calls' = Append(calls, [key |-> task[w].key, at |-> clock, epoch |-> task[w].epoch,
                             day |-> task[w].day, status |-> "reserved"])
  /\ task' = [task EXCEPT ![w] = [NoTask EXCEPT !.phase = "holding", !.key = task[w].key,
                                                !.row = Len(calls) + 1]]
  /\ UNCHANGED <<clock, up>>

\* reserve: BEGIN IMMEDIATE, count, insert, COMMIT.  reserved_at_utc is read
\* inside the transaction, reserved_epoch and local_day before it.
Admit(w) ==
  /\ task[w].phase = "timed"
  /\ Len(calls) < MaxCalls
  /\ ~HourFull(w)
  /\ ~DayFull(w)
  /\ calls' = Append(calls, [key |-> task[w].key, at |-> clock, epoch |-> task[w].epoch,
                             day |-> task[w].day, status |-> "reserved"])
  /\ task' = [task EXCEPT ![w] = [NoTask EXCEPT !.phase = "holding", !.key = task[w].key,
                                                !.row = Len(calls) + 1]]
  /\ UNCHANGED <<clock, up>>

\* reserve: ROLLBACK and RateLimitExceeded.
Deny(w) ==
  /\ task[w].phase = "timed"
  /\ HourFull(w) \/ DayFull(w)
  /\ task' = [task EXCEPT ![w] = NoTask]
  /\ UNCHANGED <<calls, clock, up>>

\* Mutant: no "AND status='reserved'" in the UPDATE.
FinalizeAlways(w, s) ==
  /\ task[w].phase = "holding"
  /\ calls' = [calls EXCEPT ![task[w].row].status = s]
  /\ task' = [task EXCEPT ![w] = NoTask]
  /\ UNCHANGED <<clock, up>>

\* finalize: the UPDATE touches the row only while it is still reserved; on
\* a row the reaper has closed it changes nothing.
Finalize(w, s) ==
  /\ task[w].phase = "holding"
  /\ calls' = IF calls[task[w].row].status = "reserved"
              THEN [calls EXCEPT ![task[w].row].status = s]
              ELSE calls
  /\ task' = [task EXCEPT ![w] = NoTask]
  /\ UNCHANGED <<clock, up>>

\* An sqlite3 error (the database stays locked past the busy timeout, the
\* disk is full) in the reaper, in the admission transaction or in finalize,
\* or any other exception during the call: handle answers internal_error and
\* the worker leaves, the row as it was.
Abandon(w) ==
  /\ task[w].phase \in {"labelled", "timed", "holding"}
  /\ task' = [task EXCEPT ![w] = NoTask]
  /\ UNCHANGED <<calls, clock, up>>

\* The daemon dies, by a crash or by SIGTERM: the workers are daemon threads
\* and die with it wherever they are.
Crash ==
  /\ up
  /\ up' = FALSE
  /\ task' = [w \in Worker |-> NoTask]
  /\ UNCHANGED <<calls, clock>>

\* main: init_schema leaves an existing table alone, then the reaper runs.
Restart ==
  /\ ~up
  /\ up' = TRUE
  /\ calls' = Reaped
  /\ UNCHANGED <<clock, task>>

\* The wall clock moves: it runs, or it is set.
ClockMoves(d) ==
  /\ clock + d \in Instant
  /\ clock' = clock + d
  /\ UNCHANGED <<calls, up, task>>

Step(w) ==
  \/ \E k \in Key : Label(w, k)
  \/ ReapFirst(w)
  \/ ReadEpoch(w)
  \/ Admit(w)
  \/ Deny(w)
  \/ \E s \in FinalStatus : Finalize(w, s)
  \/ Abandon(w)

Next ==
  \/ \E w \in Worker : Step(w)
  \/ Crash
  \/ Restart
  \/ \E d \in ClockSteps : ClockMoves(d)

Spec == Init /\ [][Next]_vars

-----------------------------------------------------------------------------
(* Properties                                                              *)

\* Type invariant: rows and tasks are what the table's columns and the
\* locals of reserve can hold, and a worker is busy only in a live daemon.
TypeOK ==
  /\ calls \in Seq(Call)
  /\ clock \in Instant
  /\ up \in BOOLEAN
  /\ task \in [Worker -> Task]
  /\ \A w \in Busy : up

\* The rolling cap: no hour, ending at any instant whatever, holds more
\* counted rows of a key than its hourly cap, although each row is counted
\* and stored with an epoch read before its transaction (ratelimit.py 201).
HourCap ==
  \A k \in Key, t \in Instant :
    Cardinality({i \in UsedHour(k, t - HourSeconds) : calls[i].epoch <= t}) <= PerHour[k]

\* The daily cap: no day label is carried by more counted rows of a key than
\* its daily cap, although the label was read before reserve (handler.py 347).
DayCap ==
  \A k \in Key, d \in Day :
    Cardinality(UsedDay(k, d)) <= PerDay[k]

\* The limiter keeps both caps, under every interleaving of workers, reaper,
\* restarts and settings of the clock.
WithinCaps == HourCap /\ DayCap

\* While a worker may be calling GreenInvoice its slot counts, reaped or
\* not, and no other worker shares the row.
HeldRowCounted ==
  \A w \in Holding :
    /\ task[w].row \in DOMAIN calls
    /\ calls[task[w].row].status \in {"reserved", "unknown"}
    /\ calls[task[w].row].key = task[w].key
    /\ \A v \in Holding : task[v].row = task[w].row => v = w

\* A row is never deleted, and once it is finalized or reaped its status
\* never changes again: a worker that outlives its reservation's TTL cannot
\* free the slot the reaper has settled.
SettledStays ==
  [][\A i \in DOMAIN calls :
       /\ i \in DOMAIN calls'
       /\ calls[i].status # "reserved" => calls'[i] = calls[i]]_vars

\* The refinement mapping: reserved rows are the held slots of the ledger,
\* committed and unknown ones its spent slots.
SlotState(s) ==
  IF s = "reserved" THEN "held" ELSE IF s = "failed_pre_send" THEN "freed" ELSE "spent"

Slots ==
  [i \in DOMAIN calls |->
     [key |-> calls[i].key, epoch |-> calls[i].epoch, day |-> calls[i].day,
      state |-> SlotState(calls[i].status)]]

Ledger == INSTANCE QuotaLedger WITH slots <- Slots

\* Every step of the limiter is a step of the ledger or none: in particular
\* every insertion keeps every window within its cap.
LedgerSpec == Ledger!Spec
=============================================================================
