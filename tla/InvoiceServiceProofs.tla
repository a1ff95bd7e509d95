------------------------ MODULE InvoiceServiceProofs ------------------------
(***************************************************************************)
(* Proofs about the invoice service, for every set of callers, workers and *)
(* operations, every cap, window, TTL, calendar and clock behaviour, every *)
(* bound on the retries, and any number of permits: first its limiter,     *)
(* then the operations under it, then the daemon as a whole.               *)
(***************************************************************************)
EXTENDS InvoiceService, FiniteSetTheorems, SequenceTheorems, TLAPS

(* THE LIMITER (RateLimit).                                               *)

\* The inductive invariant: the type invariant needs to know that a holding
\* worker's row exists, or finalize could write outside the table.
IInv == TypeOK /\ HeldRowCounted

-----------------------------------------------------------------------------
(* Facts about the constants and the helpers.                              *)

\* The idle task is a task.
LEMMA NoTaskType == NoTask \in Task /\ NoTask.phase = "idle"
<1>1. (CHOOSE k \in Key : TRUE) \in Key
  BY LimiterAssumption
<1>2. DayOf[0] \in Day /\ 0 \in Instant
  BY LimiterAssumption DEF Day, Instant
<1>. QED BY <1>1, <1>2 DEF NoTask, Task, Phase

\* A row with another status is still a row.
LEMMA RowUpdate ==
  ASSUME NEW r \in Call, NEW s \in Status
  PROVE  LET u == [r EXCEPT !.status = s]
         IN  /\ u \in Call
             /\ u.status = s
             /\ u.key = r.key /\ u.at = r.at /\ u.epoch = r.epoch /\ u.day = r.day
BY DEF Call

\* The rows of a table are rows.
LEMMA Rows ==
  ASSUME calls \in Seq(Call)
  PROVE  /\ Len(calls) \in Nat
         /\ DOMAIN calls = 1 .. Len(calls)
         /\ \A i \in DOMAIN calls : calls[i] \in Call
BY LenProperties, ElementOfSeq

\* The reaper keeps the table a table of the same length, and touches
\* nothing but the status of rows that were reserved.
LEMMA ReapedFacts ==
  ASSUME calls \in Seq(Call)
  PROVE  /\ Reaped \in Seq(Call)
         /\ Len(Reaped) = Len(calls)
         /\ DOMAIN Reaped = DOMAIN calls
         /\ \A i \in DOMAIN calls :
              \/ Reaped[i] = calls[i]
              \/ /\ calls[i].status = "reserved"
                 /\ Reaped[i] = [calls[i] EXCEPT !.status = "unknown"]
<1>1. \A i \in DOMAIN calls : Reaped[i] \in Call
  <2>. TAKE i \in DOMAIN calls
  <2>1. calls[i] \in Call
    BY Rows
  <2>2. [calls[i] EXCEPT !.status = "unknown"] \in Call
    BY <2>1, RowUpdate DEF Status
  <2>. QED BY <2>1, <2>2 DEF Reaped
<1>2. Reaped \in [1 .. Len(calls) -> Call] /\ Len(calls) \in Nat
  BY <1>1, Rows DEF Reaped
<1>3. Reaped \in Seq(Call) /\ Len(Reaped) = Len(calls)
  BY <1>2, SeqDef
<1>. QED BY <1>3 DEF Reaped, Stale

\* Likewise for an update of one row's status.
LEMMA StatusUpdateFacts ==
  ASSUME calls \in Seq(Call), NEW r \in DOMAIN calls, NEW s \in Status
  PROVE  LET t == [calls EXCEPT ![r].status = s]
         IN  /\ t \in Seq(Call)
             /\ Len(t) = Len(calls)
             /\ DOMAIN t = DOMAIN calls
             /\ t[r] = [calls[r] EXCEPT !.status = s]
             /\ \A i \in DOMAIN calls : i # r => t[i] = calls[i]
<1>. DEFINE u == [calls[r] EXCEPT !.status = s]
            t == [calls EXCEPT ![r] = u]
<1>1. u \in Call
  BY Rows, RowUpdate
<1>2. t \in Seq(Call) /\ Len(t) = Len(calls)
  BY <1>1, Rows, ExceptSeq
<1>. QED BY <1>2

-----------------------------------------------------------------------------
(* Type correctness and the reservation of a call in flight.               *)

LEMMA InitIInv == Init => IInv
BY NoTaskType, LimiterAssumption DEF Init, IInv, TypeOK, HeldRowCounted, Busy, Holding, Instant

\* Every step preserves it, one case per action.
LEMMA StepIInv == IInv /\ [Next]_vars => IInv'
<1> SUFFICES ASSUME IInv, [Next]_vars PROVE IInv'
  OBVIOUS
<1>. USE DEF IInv, TypeOK, HeldRowCounted, Busy, Holding
<1>1. ASSUME NEW w \in Worker, NEW k \in Key, Label(w, k) PROVE IInv'
  <2>. DEFINE t == [NoTask EXCEPT !.phase = "labelled", !.key = k, !.day = DayOf[clock]]
  <2>1. task' = [task EXCEPT ![w] = t] /\ task[w].phase = "idle" /\ up
        /\ UNCHANGED <<calls, clock, up>>
    BY <1>1 DEF Label
  <2>2. DayOf[clock] \in Day
    BY DEF Day
  <2>3. t \in Task /\ t.phase = "labelled"
    BY <2>2, NoTaskType DEF Task, Phase
  <2>. HIDE DEF t
  <2>. QED BY <2>1, <2>3
<1>2. ASSUME NEW w \in Worker, ReapFirst(w) PROVE IInv'
  <2>. DEFINE t == [task[w] EXCEPT !.phase = "reaped"]
  <2>1. task' = [task EXCEPT ![w] = t] /\ task[w].phase = "labelled" /\ up' = up
    BY <1>2 DEF ReapFirst
  <2>2. t \in Task /\ t.phase = "reaped"
    BY DEF Task, Phase
  <2>. HIDE DEF t
  <2>3. task' \in [Worker -> Task] /\ Holding' = Holding /\ (\A v \in Busy' : up')
    BY <2>1, <2>2
  <2>4. \A v \in Holding : task'[v] = task[v]
    BY <2>1
  <2>5. calls' = Reaped /\ clock' = clock
    BY <1>2 DEF ReapFirst
  <2>6. \A i \in DOMAIN calls :
           /\ Reaped[i].key = calls[i].key
           /\ \/ Reaped[i].status = calls[i].status
              \/ Reaped[i].status = "unknown"
    BY ReapedFacts, Rows DEF Call
  <2>. QED BY <2>1, <2>3, <2>4, <2>5, <2>6, ReapedFacts
<1>3. ASSUME NEW w \in Worker, ReadEpoch(w) PROVE IInv'
  <2>. DEFINE t == [task[w] EXCEPT !.phase = "timed", !.epoch = clock]
  <2>1. task' = [task EXCEPT ![w] = t] /\ task[w].phase = "reaped" /\ UNCHANGED <<calls, clock, up>>
    BY <1>3 DEF ReadEpoch
  <2>2. t \in Task /\ t.phase = "timed"
    <3>1. task[w] \in Task /\ clock \in Instant
      OBVIOUS
    <3>. QED BY <3>1 DEF Task, Phase
  <2>. HIDE DEF t
  <2>. QED BY <2>1, <2>2
<1>4. ASSUME NEW w \in Worker, Admit(w) PROVE IInv'
  <2>. DEFINE r == [key |-> task[w].key, at |-> clock, epoch |-> task[w].epoch,
                    day |-> task[w].day, status |-> "reserved"]
              t == [NoTask EXCEPT !.phase = "holding", !.key = task[w].key,
                                  !.row = Len(calls) + 1]
  <2>1. calls' = Append(calls, r) /\ task' = [task EXCEPT ![w] = t] /\ task[w].phase = "timed"
        /\ UNCHANGED <<clock, up>>
    BY <1>4 DEF Admit
  <2>2. r \in Call /\ r.status = "reserved" /\ r.key = task[w].key
    BY DEF Task, Call, Status
  <2>3. t \in Task /\ t.phase = "holding" /\ t.key = task[w].key /\ t.row = Len(calls) + 1
    <3>1. task[w].key \in Key /\ Len(calls) + 1 \in Nat
      BY Rows DEF Task
    <3>. QED BY <3>1, NoTaskType DEF Task, Phase
  <2>. HIDE DEF r, t
  <2>4. /\ calls' \in Seq(Call)
        /\ DOMAIN calls' = 1 .. Len(calls) + 1
        /\ calls'[Len(calls) + 1] = r
        /\ \A i \in DOMAIN calls : calls'[i] = calls[i]
    BY <2>1, <2>2
  <2>5. \A v \in Holding : v # w /\ task'[v] = task[v] /\ task[v].row # Len(calls) + 1
                             /\ task[v].row \in DOMAIN calls'
    BY <2>1, <2>4, Rows
  <2>6. Holding' = Holding \cup {w}
    BY <2>1, <2>3
  <2>7. TypeOK'
    BY <2>1, <2>3, <2>4
  <2>8. HeldRowCounted'
    BY <2>1, <2>2, <2>3, <2>4, <2>5, <2>6, Rows
  <2>. QED BY <2>7, <2>8
<1>5. ASSUME NEW w \in Worker, Deny(w) PROVE IInv'
  BY <1>5, NoTaskType DEF Deny
<1>6. ASSUME NEW w \in Worker, NEW s \in FinalStatus, Finalize(w, s) PROVE IInv'
  <2>1. task' = [task EXCEPT ![w] = NoTask] /\ UNCHANGED <<clock, up>> /\ w \in Holding
    BY <1>6 DEF Finalize
  <2>2. task' \in [Worker -> Task] /\ Holding' = Holding \ {w} /\ (\A v \in Busy' : up')
    BY <2>1, NoTaskType
  <2>3. CASE calls' = calls
    BY <2>1, <2>2, <2>3
  <2>4. CASE calls' = [calls EXCEPT ![task[w].row].status = s]
    <3>1. task[w].row \in DOMAIN calls /\ s \in Status
      BY <2>1 DEF FinalStatus, Status
    <3>2. /\ calls' \in Seq(Call)
          /\ DOMAIN calls' = DOMAIN calls
          /\ \A i \in DOMAIN calls : i # task[w].row => calls'[i] = calls[i]
      BY <2>4, <3>1, StatusUpdateFacts
    <3>3. \A v \in Holding' : task'[v] = task[v] /\ task[v].row # task[w].row
      BY <2>1, <2>2
    <3>. QED BY <2>1, <2>2, <3>2, <3>3
  <2>. QED BY <1>6, <2>3, <2>4 DEF Finalize
<1>7. ASSUME NEW w \in Worker, Abandon(w) PROVE IInv'
  BY <1>7, NoTaskType DEF Abandon
<1>8. CASE Crash
  BY <1>8, NoTaskType DEF Crash
<1>9. CASE Restart
  BY <1>9, ReapedFacts DEF Restart, Call
<1>10. ASSUME NEW d \in ClockSteps, ClockMoves(d) PROVE IInv'
  BY <1>10 DEF ClockMoves
<1>11. CASE UNCHANGED vars
  BY <1>11 DEF vars
<1>. QED
  BY <1>1, <1>2, <1>3, <1>4, <1>5, <1>6, <1>7, <1>8, <1>9, <1>10, <1>11 DEF Next, Step

\* The limiter's state keeps its type, and a call that may be in flight
\* keeps a counted row of its own.
THEOREM TypeAndReservation == Spec => [](TypeOK /\ HeldRowCounted)
<1>1. IInv <=> TypeOK /\ HeldRowCounted
  BY DEF IInv
<1>. QED BY <1>1, InitIInv, StepIInv, PTL DEF Spec

-----------------------------------------------------------------------------
(* The caps.                                                               *)

\* The sets the two queries count are finite, so their sizes are numbers.
LEMMA CountsAreNumbers ==
  ASSUME calls \in Seq(Call), NEW k, NEW x
  PROVE  /\ IsFiniteSet(UsedHour(k, x)) /\ Cardinality(UsedHour(k, x)) \in Nat
         /\ IsFiniteSet(UsedDay(k, x)) /\ Cardinality(UsedDay(k, x)) \in Nat
<1>1. IsFiniteSet(DOMAIN calls)
  BY Rows, FS_Interval
<1>2. UsedHour(k, x) \subseteq DOMAIN calls /\ UsedDay(k, x) \subseteq DOMAIN calls
  BY DEF UsedHour, UsedDay
<1>. QED BY <1>1, <1>2, FS_Subset, FS_CardinalityType

\* What every step but an admission does to the table: no row comes or goes,
\* no stamp changes, and no uncounted row becomes counted.
Shrinks ==
  /\ DOMAIN calls' = DOMAIN calls
  /\ \A i \in DOMAIN calls :
       /\ calls'[i].key = calls[i].key
       /\ calls'[i].epoch = calls[i].epoch
       /\ calls'[i].day = calls[i].day
       /\ Counted(i)' => Counted(i)

\* The reaper shrinks.
LEMMA ReapShrinks ==
  ASSUME calls \in Seq(Call), calls' = Reaped
  PROVE  Shrinks
<1>1. ASSUME NEW i \in DOMAIN calls
      PROVE  /\ Reaped[i].key = calls[i].key
             /\ Reaped[i].epoch = calls[i].epoch
             /\ Reaped[i].day = calls[i].day
             /\ Reaped[i].status \in CountedStatuses => calls[i].status \in CountedStatuses
  <2>1. calls[i] \in Call
    BY Rows
  <2>2. CASE Reaped[i] = calls[i]
    BY <2>2
  <2>3. CASE /\ calls[i].status = "reserved"
             /\ Reaped[i] = [calls[i] EXCEPT !.status = "unknown"]
    <3>1. "unknown" \in Status
      BY DEF Status
    <3>. QED BY <2>1, <2>3, <3>1, RowUpdate DEF CountedStatuses
  <2>. QED BY <2>2, <2>3, ReapedFacts
<1>. QED BY <1>1, ReapedFacts DEF Shrinks, Counted

\* So does finalize: it touches a row that is reserved, hence counted.
LEMMA FinalizeShrinks ==
  ASSUME IInv, NEW w \in Worker, NEW s \in FinalStatus, Finalize(w, s)
  PROVE  Shrinks
<1>. DEFINE r == task[w].row
<1>1. calls \in Seq(Call) /\ r \in DOMAIN calls /\ s \in Status
  BY DEF IInv, TypeOK, HeldRowCounted, Holding, Finalize, FinalStatus, Status
<1>2. CASE calls' = calls
  BY <1>2 DEF Shrinks, Counted
<1>3. CASE calls[r].status = "reserved" /\ calls' = [calls EXCEPT ![r].status = s]
  <2>1. calls[r] \in Call
    BY <1>1, Rows
  <2>. QED BY <1>1, <1>3, <2>1, StatusUpdateFacts, RowUpdate
       DEF Shrinks, Counted, CountedStatuses
<1>. QED BY <1>2, <1>3 DEF Finalize

\* Only an admission adds a row.
LEMMA OtherStepsShrink ==
  ASSUME IInv, [Next]_vars, \A w \in Worker : ~Admit(w)
  PROVE  Shrinks
<1>1. calls \in Seq(Call)
  BY DEF IInv, TypeOK
<1>2. CASE UNCHANGED calls
  BY <1>2 DEF Shrinks, Counted
<1>. QED
  BY <1>1, <1>2, ReapShrinks, FinalizeShrinks
  DEF Next, Step, Label, ReapFirst, ReadEpoch, Deny, Abandon, Crash, Restart, ClockMoves, vars

\* What an admission does to it, and what it has checked.
LEMMA AdmitFacts ==
  ASSUME IInv, NEW w \in Worker, Admit(w)
  PROVE  /\ DOMAIN calls' = DOMAIN calls \cup {Len(calls) + 1}
         /\ Len(calls) + 1 \notin DOMAIN calls
         /\ \A i \in DOMAIN calls : calls'[i] = calls[i]
         /\ calls'[Len(calls) + 1].key = task[w].key
         /\ calls'[Len(calls) + 1].epoch = task[w].epoch
         /\ calls'[Len(calls) + 1].day = task[w].day
         /\ calls'[Len(calls) + 1].status = "reserved"
         /\ task[w].key \in Key /\ task[w].epoch \in Instant /\ task[w].day \in Day
         /\ Cardinality(UsedHour(task[w].key, task[w].epoch - HourSeconds))
              < PerHour[task[w].key]
         /\ Cardinality(UsedDay(task[w].key, task[w].day)) < PerDay[task[w].key]
<1>1. calls \in Seq(Call) /\ task[w] \in Task
  BY DEF IInv, TypeOK
<1>. DEFINE row == [key |-> task[w].key, at |-> clock, epoch |-> task[w].epoch,
                    day |-> task[w].day, status |-> "reserved"]
<1>2. calls' = Append(calls, row)
  BY DEF Admit
<1>3. /\ DOMAIN calls' = 1 .. Len(calls) + 1
      /\ \A i \in DOMAIN calls : calls'[i] = calls[i]
      /\ calls'[Len(calls) + 1] = row
  <2>. HIDE DEF row
  <2>. QED BY <1>1, <1>2
<1>4. task[w].key \in Key /\ task[w].epoch \in Instant /\ task[w].day \in Day
  BY <1>1 DEF Task
<1>5. PerHour[task[w].key] \in Nat /\ PerDay[task[w].key] \in Nat
  BY <1>4, LimiterAssumption
<1>6. Cardinality(UsedHour(task[w].key, task[w].epoch - HourSeconds)) < PerHour[task[w].key]
  BY <1>1, <1>5, CountsAreNumbers DEF Admit, HourFull
<1>7. Cardinality(UsedDay(task[w].key, task[w].day)) < PerDay[task[w].key]
  BY <1>1, <1>5, CountsAreNumbers DEF Admit, DayFull
<1>8. DOMAIN calls = 1 .. Len(calls) /\ Len(calls) \in Nat
  BY <1>1, Rows
<1>. QED BY <1>3, <1>4, <1>6, <1>7, <1>8

\* At most one more than a set that is below a cap is within the cap.
LEMMA OneMore ==
  ASSUME NEW S, NEW T, NEW n, NEW cap \in Nat,
         IsFiniteSet(S), T \subseteq S \cup {n}, Cardinality(S) < cap
  PROVE  Cardinality(T) <= cap
<1>1. IsFiniteSet(S \cup {n}) /\ Cardinality(S \cup {n}) <= Cardinality(S) + 1
  <2>1. Cardinality(S) \in Nat
    BY FS_CardinalityType
  <2>2. IsFiniteSet(S \cup {n})
        /\ Cardinality(S \cup {n}) = IF n \in S THEN Cardinality(S) ELSE Cardinality(S) + 1
    BY FS_AddElement
  <2>. QED BY <2>1, <2>2
<1>2. Cardinality(T) <= Cardinality(S \cup {n}) /\ IsFiniteSet(T)
  BY <1>1, FS_Subset
<1>. QED BY <1>1, <1>2, FS_CardinalityType

\* The rows in the hour that ends at t.
HourAt(k, t) == {i \in UsedHour(k, t - HourSeconds) : calls[i].epoch <= t}

\* No hour goes over its cap.  The admission counted every row younger than
\* an hour before its own epoch, with no upper limit: it counted at least
\* the rows of any hour the new row can belong to, even if the clock went
\* back since those rows were stamped.
LEMMA HourCapStep == IInv /\ HourCap /\ [Next]_vars => HourCap'
<1> SUFFICES ASSUME IInv, HourCap, [Next]_vars, NEW k \in Key, NEW t \in Instant
             PROVE  Cardinality(HourAt(k, t)') <= PerHour[k]
  BY DEF HourCap, HourAt
<1>1. calls \in Seq(Call) /\ PerHour[k] \in Nat /\ HourSeconds \in Nat
  BY LimiterAssumption DEF IInv, TypeOK
<1>2. IsFiniteSet(HourAt(k, t)) /\ Cardinality(HourAt(k, t)) <= PerHour[k]
  <2>1. IsFiniteSet(UsedHour(k, t - HourSeconds))
    BY <1>1, CountsAreNumbers
  <2>. QED BY <2>1, FS_Subset DEF HourCap, HourAt
<1>3. CASE HourAt(k, t)' \subseteq HourAt(k, t)
  BY <1>1, <1>2, <1>3, FS_Subset, FS_CardinalityType
<1>4. CASE \A w \in Worker : ~Admit(w)
  <2>1. HourAt(k, t)' \subseteq HourAt(k, t)
    BY <1>4, OtherStepsShrink DEF Shrinks, HourAt, UsedHour
  <2>. QED BY <1>3, <2>1
<1>5. ASSUME NEW w \in Worker, Admit(w) PROVE Cardinality(HourAt(k, t)') <= PerHour[k]
  <2>. DEFINE n == Len(calls) + 1
              e == task[w].epoch
              S == UsedHour(k, e - HourSeconds)
  <2>1. CASE n \in HourAt(k, t)'
    <3>1. task[w].key = k /\ e <= t
      BY <1>5, <2>1, AdmitFacts DEF HourAt, UsedHour
    <3>2. e \in Int /\ t \in Int /\ \A i \in DOMAIN calls : calls[i].epoch \in Int
      <4>1. e \in Instant /\ \A i \in DOMAIN calls : calls[i].epoch \in Instant
        BY <1>1, <1>5, AdmitFacts, Rows DEF Call
      <4>. QED BY <4>1, LimiterAssumption DEF Instant
    <3>3. HourAt(k, t)' \subseteq S \cup {n}
      <4>. SUFFICES ASSUME NEW i \in HourAt(k, t)', i # n PROVE i \in S
        OBVIOUS
      <4>1. /\ i \in DOMAIN calls /\ calls'[i] = calls[i]
            /\ calls[i].key = k /\ calls[i].epoch > t - HourSeconds /\ Counted(i)
        BY <1>5, AdmitFacts DEF HourAt, UsedHour, Counted
      <4>2. calls[i].epoch > e - HourSeconds
        BY <1>1, <3>1, <3>2, <4>1
      <4>. QED BY <3>1, <4>1, <4>2 DEF UsedHour
    <3>4. IsFiniteSet(S) /\ Cardinality(S) < PerHour[k]
      BY <1>1, <1>5, <3>1, AdmitFacts, CountsAreNumbers
    <3>. QED BY <1>1, <3>3, <3>4, OneMore
  <2>2. CASE n \notin HourAt(k, t)'
    <3>1. HourAt(k, t)' \subseteq HourAt(k, t)
      <4>. SUFFICES ASSUME NEW i \in HourAt(k, t)' PROVE i \in HourAt(k, t)
        OBVIOUS
      <4>1. i \in DOMAIN calls' /\ i # n
        BY <2>2 DEF HourAt, UsedHour
      <4>2. i \in DOMAIN calls /\ calls'[i] = calls[i]
        BY <1>5, <4>1, AdmitFacts
      <4>. QED BY <4>2 DEF HourAt, UsedHour, Counted
    <3>. QED BY <1>3, <3>1
  <2>. QED BY <2>1, <2>2
<1>. QED BY <1>4, <1>5

\* No day goes over its cap: the label a row is stored with is the label it
\* was counted with, however old it is.
LEMMA DayCapStep == IInv /\ DayCap /\ [Next]_vars => DayCap'
<1> SUFFICES ASSUME IInv, DayCap, [Next]_vars, NEW k \in Key, NEW d \in Day
             PROVE  Cardinality(UsedDay(k, d)') <= PerDay[k]
  BY DEF DayCap
<1>1. calls \in Seq(Call) /\ PerDay[k] \in Nat
  BY LimiterAssumption DEF IInv, TypeOK
<1>2. IsFiniteSet(UsedDay(k, d)) /\ Cardinality(UsedDay(k, d)) <= PerDay[k]
  BY <1>1, CountsAreNumbers DEF DayCap
<1>3. CASE UsedDay(k, d)' \subseteq UsedDay(k, d)
  BY <1>1, <1>2, <1>3, FS_Subset, FS_CardinalityType
<1>4. CASE \A w \in Worker : ~Admit(w)
  <2>1. UsedDay(k, d)' \subseteq UsedDay(k, d)
    BY <1>4, OtherStepsShrink DEF Shrinks, UsedDay
  <2>. QED BY <1>3, <2>1
<1>5. ASSUME NEW w \in Worker, Admit(w) PROVE Cardinality(UsedDay(k, d)') <= PerDay[k]
  <2>. DEFINE n == Len(calls) + 1
  <2>1. UsedDay(k, d)' \subseteq UsedDay(k, d) \cup {n}
    BY <1>5, AdmitFacts DEF UsedDay, Counted
  <2>2. CASE n \in UsedDay(k, d)'
    <3>1. task[w].key = k /\ task[w].day = d
      BY <1>5, <2>2, AdmitFacts DEF UsedDay
    <3>. QED BY <1>1, <1>2, <1>5, <2>1, <3>1, AdmitFacts, OneMore
  <2>3. CASE n \notin UsedDay(k, d)'
    BY <1>3, <2>1, <2>3
  <2>. QED BY <2>2, <2>3
<1>. QED BY <1>4, <1>5

\* An empty table is within every cap.
LEMMA InitCaps == Init => HourCap /\ DayCap
<1> SUFFICES ASSUME Init PROVE HourCap /\ DayCap
  OBVIOUS
<1>1. \A k \in Key : 0 <= PerHour[k] /\ 0 <= PerDay[k]
  BY LimiterAssumption
<1>2. \A k, x : UsedHour(k, x) = {} /\ UsedDay(k, x) = {}
  BY DEF Init, UsedHour, UsedDay
<1>. QED BY <1>1, <1>2, FS_EmptySet DEF HourCap, DayCap

\* Neither cap is ever exceeded.
THEOREM CapsHold == Spec => []WithinCaps
<1>1. Init => IInv /\ HourCap /\ DayCap
  BY InitIInv, InitCaps
<1>2. IInv /\ HourCap /\ DayCap /\ [Next]_vars => (IInv /\ HourCap /\ DayCap)'
  BY StepIInv, HourCapStep, DayCapStep
<1>. QED BY <1>1, <1>2, PTL DEF Spec, WithinCaps

-----------------------------------------------------------------------------
(* Finality.                                                               *)

\* A row that is no longer reserved stays as it is: the reaper passes it by,
\* finalize's WHERE clause does too, and nothing deletes rows.
THEOREM SettledForGood == Spec => SettledStays
<1>1. ASSUME IInv, [Next]_vars, NEW i \in DOMAIN calls
      PROVE  i \in DOMAIN calls' /\ (calls[i].status # "reserved" => calls'[i] = calls[i])
  <2>1. calls \in Seq(Call)
    BY <1>1 DEF IInv, TypeOK
  <2>2. CASE UNCHANGED calls
    BY <2>2
  <2>3. CASE calls' = Reaped
    BY <2>1, <2>3, ReapedFacts
  <2>4. ASSUME NEW w \in Worker, Admit(w)
        PROVE  i \in DOMAIN calls' /\ calls'[i] = calls[i]
    BY <1>1, <2>4, AdmitFacts
  <2>5. ASSUME NEW w \in Worker, NEW s \in FinalStatus, Finalize(w, s)
        PROVE  i \in DOMAIN calls' /\ (calls[i].status # "reserved" => calls'[i] = calls[i])
    BY <2>5 DEF Finalize
  <2>. QED
    BY <1>1, <2>2, <2>3, <2>4, <2>5
    DEF Next, Step, Label, ReapFirst, ReadEpoch, Deny, Abandon, Crash, Restart, ClockMoves, vars
<1>2. IInv /\ [Next]_vars =>
        [\A i \in DOMAIN calls :
           /\ i \in DOMAIN calls'
           /\ calls[i].status # "reserved" => calls'[i] = calls[i]]_vars
  BY <1>1
<1>. QED BY <1>2, InitIInv, StepIInv, PTL DEF Spec, SettledStays

-----------------------------------------------------------------------------
(* The limiter implements the ledger.                                      *)

\* The ledger's notion of cardinality is the limiter's.
LEMMA SameCardinality == \A S : Ledger!Cardinality(S) = Cardinality(S)
BY DEF Ledger!Cardinality, Cardinality

\* The mapped table is a sequence of slots, as long as the table.
LEMMA SlotsType ==
  TypeOK => /\ Slots \in Seq(Ledger!Slot)
            /\ Len(Slots) = Len(calls)
            /\ DOMAIN Slots = DOMAIN calls
<1> SUFFICES ASSUME TypeOK
             PROVE  Slots \in Seq(Ledger!Slot) /\ Len(Slots) = Len(calls)
  BY DEF Slots
<1>1. \A i \in DOMAIN calls : Slots[i] \in Ledger!Slot
  BY Rows DEF TypeOK, Call, Slots, SlotState, Ledger!Slot
<1>2. Slots \in [1 .. Len(calls) -> Ledger!Slot] /\ Len(calls) \in Nat
  BY <1>1, Rows DEF TypeOK, Slots
<1>. QED BY <1>2, SeqDef

\* Under the mapping the ledger's windows are the limiter's.
LEMMA SameCaps == TypeOK => (Ledger!WithinCaps <=> HourCap /\ DayCap)
<1> SUFFICES ASSUME TypeOK PROVE Ledger!WithinCaps <=> HourCap /\ DayCap
  OBVIOUS
<1>1. \A i \in DOMAIN calls : Counted(i) <=> Slots[i].state # "freed"
  <2>. TAKE i \in DOMAIN calls
  <2>1. calls[i].status \in Status
    BY Rows DEF TypeOK, Call
  <2>. QED BY <2>1 DEF Counted, CountedStatuses, Status, Slots, SlotState
<1>2. DOMAIN Slots = DOMAIN calls
      /\ \A i \in DOMAIN calls : /\ Slots[i].key = calls[i].key
                                 /\ Slots[i].epoch = calls[i].epoch
                                 /\ Slots[i].day = calls[i].day
  BY DEF Slots
<1>3. ASSUME NEW k \in Key, NEW t \in Instant
      PROVE  Ledger!InHour(k, t) = {i \in UsedHour(k, t - HourSeconds) : calls[i].epoch <= t}
  <2>1. \A i \in DOMAIN calls : calls[i].epoch \in Int /\ t \in Int /\ HourSeconds \in Int
    <3>1. \A i \in DOMAIN calls : calls[i].epoch \in Instant
      BY Rows DEF TypeOK, Call
    <3>. QED BY <3>1, LimiterAssumption DEF Instant
  <2>2. \A i \in DOMAIN calls : t - HourSeconds < calls[i].epoch <=> calls[i].epoch > t - HourSeconds
    BY <2>1
  <2>. QED BY <1>1, <1>2, <2>2 DEF Ledger!InHour, UsedHour
<1>4. ASSUME NEW k \in Key, NEW d \in Day
      PROVE  Ledger!InDay(k, d) = UsedDay(k, d)
  BY <1>1, <1>2 DEF Ledger!InDay, UsedDay
<1>. QED BY <1>3, <1>4, SameCardinality DEF Ledger!WithinCaps, HourCap, DayCap

\* An admission takes a slot.
LEMMA AdmitTakes ==
  ASSUME IInv, IInv', (HourCap /\ DayCap)', NEW w \in Worker, Admit(w)
  PROVE  Ledger!Take(task[w].key, task[w].epoch, task[w].day)
<1>. DEFINE n == Len(calls) + 1
            new == [key |-> task[w].key, epoch |-> task[w].epoch, day |-> task[w].day,
                    state |-> "held"]
<1>1. calls \in Seq(Call) /\ Len(calls) \in Nat /\ DOMAIN calls = 1 .. Len(calls)
  BY Rows DEF IInv, TypeOK
<1>2. DOMAIN calls' = 1 .. n
  <2>1. DOMAIN calls' = (1 .. Len(calls)) \cup {n}
    BY <1>1, AdmitFacts
  <2>2. (1 .. Len(calls)) \cup {n} = 1 .. n
    BY <1>1
  <2>. QED BY <2>1, <2>2
<1>3. /\ Slots \in Seq(Ledger!Slot) /\ Len(Slots) = Len(calls)
      /\ Slots' \in Seq(Ledger!Slot) /\ Len(Slots') = n
  <2>1. (TypeOK => /\ Slots \in Seq(Ledger!Slot)
                   /\ Len(Slots) = Len(calls)
                   /\ DOMAIN Slots = DOMAIN calls)'
    BY SlotsType, PTL
  <2>2. calls' \in Seq(Call)
    BY DEF IInv, TypeOK
  <2>3. Len(calls') = n
    BY <1>1, <1>2, <2>2
  <2>. QED BY <2>1, <2>3, SlotsType DEF IInv
<1>4. Slots' = Append(Slots, new)
  <2>1. new \in Ledger!Slot
    BY AdmitFacts DEF Ledger!Slot
  <2>2. Slots'[n] = new
    BY <1>1, <1>2, AdmitFacts DEF Slots, SlotState
  <2>3. \A i \in 1 .. Len(calls) : Slots'[i] = Slots[i]
    BY <1>1, <1>2, AdmitFacts DEF Slots, SlotState
  <2>. HIDE DEF new
  <2>4. /\ Append(Slots, new) \in Seq(Ledger!Slot)
        /\ Len(Append(Slots, new)) = n
        /\ \A i \in 1 .. n : Append(Slots, new)[i] = IF i = n THEN new ELSE Slots[i]
    BY <1>1, <1>3, <2>1
  <2>5. \A i \in 1 .. n : Slots'[i] = Append(Slots, new)[i]
    BY <1>1, <2>2, <2>3, <2>4
  <2>. QED BY <1>3, <2>4, <2>5, SeqEqual
<1>5. (TypeOK => (Ledger!WithinCaps <=> HourCap /\ DayCap))'
  BY SameCaps, PTL
<1>6. (Ledger!WithinCaps)'
  BY <1>5 DEF IInv
<1>. QED BY <1>4, <1>6 DEF Ledger!Take

\* A reaping settles the slots of the stale rows.
LEMMA ReapSettles ==
  ASSUME IInv, calls' = Reaped
  PROVE  \E S \in SUBSET Ledger!Held : Ledger!Settle(S)
<1>. DEFINE S == {i \in DOMAIN calls : Stale(calls[i])}
<1>1. calls \in Seq(Call)
  BY DEF IInv, TypeOK
<1>2. S \in SUBSET Ledger!Held
  BY DEF Ledger!Held, Stale, Slots, SlotState
<1>3. Slots' = [i \in DOMAIN Slots |->
                  IF i \in S THEN [Slots[i] EXCEPT !.state = "spent"] ELSE Slots[i]]
  <2>1. DOMAIN calls' = DOMAIN calls
    BY <1>1, ReapedFacts
  <2>2. ASSUME NEW i \in DOMAIN calls, Stale(calls[i])
        PROVE  Slots'[i] = [Slots[i] EXCEPT !.state = "spent"]
    <3>1. calls[i] \in Call /\ "unknown" \in Status
      BY <1>1, Rows DEF Status
    <3>2. calls'[i] = [calls[i] EXCEPT !.status = "unknown"]
      BY <2>2 DEF Reaped
    <3>3. /\ calls'[i].key = calls[i].key /\ calls'[i].epoch = calls[i].epoch
          /\ calls'[i].day = calls[i].day /\ calls'[i].status = "unknown"
      BY <3>1, <3>2, RowUpdate
    <3>. QED BY <2>1, <3>3 DEF Slots, SlotState
  <2>3. ASSUME NEW i \in DOMAIN calls, ~Stale(calls[i])
        PROVE  Slots'[i] = Slots[i]
    <3>1. calls'[i] = calls[i]
      BY <2>3 DEF Reaped
    <3>. QED BY <2>1, <3>1 DEF Slots
  <2>4. DOMAIN Slots' = DOMAIN calls /\ DOMAIN Slots = DOMAIN calls
        /\ Slots' = [i \in DOMAIN Slots' |-> Slots'[i]]
    BY <2>1 DEF Slots
  <2>. QED BY <2>2, <2>3, <2>4
<1>. QED BY <1>2, <1>3 DEF Ledger!Settle

\* finalize frees the slot, settles it, or finds it settled.
LEMMA FinalizeMaps ==
  ASSUME IInv, NEW w \in Worker, NEW s \in FinalStatus, Finalize(w, s)
  PROVE  \/ UNCHANGED Slots
         \/ \E i \in Ledger!Held : Ledger!Free(i)
         \/ \E S \in SUBSET Ledger!Held : Ledger!Settle(S)
<1>. DEFINE r == task[w].row
<1>1. calls \in Seq(Call) /\ r \in DOMAIN calls /\ s \in Status
  BY DEF IInv, TypeOK, HeldRowCounted, Holding, Finalize, FinalStatus, Status
<1>2. CASE calls' = calls
  BY <1>2 DEF Slots
<1>3. CASE calls[r].status = "reserved" /\ calls' = [calls EXCEPT ![r].status = s]
  <2>1. calls[r] \in Call
    BY <1>1, Rows
  <2>2. /\ DOMAIN calls' = DOMAIN calls
        /\ \A i \in DOMAIN calls : i # r => calls'[i] = calls[i]
        /\ calls'[r] = [calls[r] EXCEPT !.status = s]
    BY <1>1, <1>3, StatusUpdateFacts
  <2>3. LET u == [calls[r] EXCEPT !.status = s]
        IN  u.key = calls[r].key /\ u.epoch = calls[r].epoch
              /\ u.day = calls[r].day /\ u.status = s
    BY <1>1, <2>1 DEF Call
  <2>4. /\ calls'[r].key = calls[r].key /\ calls'[r].epoch = calls[r].epoch
        /\ calls'[r].day = calls[r].day /\ calls'[r].status = s
    BY <2>2, <2>3
  <2>5. Slots' = [Slots EXCEPT ![r].state = SlotState(s)]
    BY <1>1, <2>2, <2>4 DEF Slots
  <2>6. r \in Ledger!Held /\ Slots[r].state = "held"
    BY <1>1, <1>3 DEF Ledger!Held, Slots, SlotState
  <2>7. CASE s = "failed_pre_send"
    <3>1. Ledger!Free(r)
      BY <2>5, <2>6, <2>7 DEF Ledger!Free, SlotState
    <3>. QED BY <2>6, <3>1
  <2>8. CASE s # "failed_pre_send"
    <3>1. SlotState(s) = "spent"
      BY <2>8 DEF SlotState, FinalStatus
    <3>2. Ledger!Settle({r})
      BY <1>1, <2>5, <3>1 DEF Ledger!Settle, Slots
    <3>. QED BY <2>6, <3>2
  <2>. QED BY <2>7, <2>8
<1>. QED BY <1>2, <1>3 DEF Finalize

\* Every step of the limiter is a step of the ledger or leaves it alone.
LEMMA StepRefines ==
  ASSUME IInv, IInv', (HourCap /\ DayCap)', [Next]_vars
  PROVE  [Ledger!Next]_Slots
<1>1. CASE UNCHANGED calls
  BY <1>1 DEF Slots
<1>2. CASE calls' = Reaped
  BY <1>2, ReapSettles DEF Ledger!Next
<1>3. ASSUME NEW w \in Worker, Admit(w) PROVE Ledger!Next
  <2>1. task[w].key \in Key /\ task[w].epoch \in Instant /\ task[w].day \in Day
    BY <1>3, AdmitFacts
  <2>. QED BY <1>3, <2>1, AdmitTakes DEF Ledger!Next
<1>4. ASSUME NEW w \in Worker, NEW s \in FinalStatus, Finalize(w, s)
      PROVE  [Ledger!Next]_Slots
  BY <1>4, FinalizeMaps DEF Ledger!Next
<1>. QED
  BY <1>1, <1>2, <1>3, <1>4
  DEF Next, Step, Label, ReapFirst, ReadEpoch, Deny, Abandon, Crash, Restart, ClockMoves, vars

\* The rate limiter implements the quota ledger: with stale clocks, crashes,
\* reaping and late finalizes, its table is at every moment a ledger within
\* its caps, and changes only as a ledger may.
THEOREM ImplementsLedger == Spec => LedgerSpec
<1>1. Init => Ledger!Init
  <2>. SUFFICES ASSUME Init PROVE Slots = <<>>
    BY DEF Ledger!Init
  <2>1. TypeOK /\ Len(calls) = 0
    BY InitIInv DEF IInv, Init
  <2>. QED BY <2>1, SlotsType, EmptySeq
<1>2. IInv /\ HourCap /\ DayCap /\ [Next]_vars => (IInv /\ HourCap /\ DayCap)'
  BY StepIInv, HourCapStep, DayCapStep
<1>3. IInv /\ HourCap /\ DayCap /\ [Next]_vars => [Ledger!Next]_Slots
  BY <1>2, StepRefines
<1>. QED
  BY <1>1, <1>2, <1>3, InitIInv, InitCaps, PTL DEF Spec, LedgerSpec, Ledger!Spec

-----------------------------------------------------------------------------
(* THE GATED OPERATIONS (InvoiceBroker).                                   *)

OnWire(r) == \E leg \in Leg : <<r, leg>> \in wire

\* A row that does not exist has left no trace.
FreshRows ==
  \A r \in RowId :
    r \notin DOMAIN calls => opOf[r] = "none" /\ effects[r] = 0 /\ reply[r] = "none" /\ ~OnWire(r)

\* A row has at most one request on the wire.
OneRequest ==
  \A r \in RowId, l, m \in Leg : <<r, l>> \in wire /\ <<r, m>> \in wire => l = m

\* What the stage of an exchange tells of the row it is held for: nothing is
\* on the wire before a request and after its answer, and an answer that lets
\* the client try again, or give up cleanly, is an answer that nothing
\* happened.
HeldRow(w) ==
  LET n == net[w]
      r == Row(w)
  IN  /\ n.op = opOf[r]
      /\ reply[r] = "none"
      /\ n.stage \in {"ready", "answered"} => ~OnWire(r)
      /\ n.stage = "sent" => \A leg \in Leg : <<r, leg>> \in wire => leg = n.leg
      /\ n.op \in OneShotOps =>
           /\ n.stage = "ready" \/ n.leg = "url" => effects[r] = 0
           /\ n.stage = "answered" /\ n.status \in {"401", "429", "4xx"} => effects[r] = 0
           /\ n.stage = "answered" /\ n.status = "2xx" /\ n.leg # "url" => effects[r] = 1

\* What the table, the service and the answer say of a row agree.
OneShotRow(r) ==
  /\ effects[r] <= 1
  /\ InFlight(r) => effects[r] = 0
  /\ calls[r].status = "failed_pre_send" => effects[r] = 0 /\ ~InFlight(r)
  /\ reply[r] = "ok" => effects[r] = 1
  /\ reply[r] = "upstream_failed_clean" => effects[r] = 0 /\ ~InFlight(r)

Types == BrokerTypeOK /\ HeldRowCounted /\ Len(calls) <= MaxCalls

Agreement ==
  /\ FreshRows
  /\ OneRequest
  /\ \A w \in Holding : HeldRow(w)
  /\ \A r \in DOMAIN calls : opOf[r] \in OneShotOps => OneShotRow(r)

\* The inductive invariant.
BInv == Types /\ Agreement

-----------------------------------------------------------------------------
(* The broker uses its limiter as the limiter allows.                      *)

\* A worker finalizes with a status that finalize accepts.
LEMMA ConcludeFinalizes ==
  ASSUME NEW w \in Worker, NEW s, Failed(w, s) \/ Conclude(w, "committed", "ok")
  PROVE  \E t \in FinalStatus : Finalize(w, t)
BY DEF Failed, Conclude, FinalStatus

\* Every step of a worker is a step of the limiter, or leaves it alone.
LEMMA ExchangesAreSteps ==
  ASSUME NEW w \in Worker, Exchanges(w)
  PROVE  Step(w) \/ UNCHANGED vars
<1>1. CASE Send(w) \/ Resend(w) \/ GoToS3(w)
  BY <1>1 DEF Send, Resend, GoToS3
<1>2. CASE (\E s \in ErrorStatus : CannotSend(w, s)) \/ TimeOut(w) \/ MalformedUrl(w)
           \/ Succeed(w) \/ GiveUp(w)
  <2>1. \E s : Failed(w, s) \/ Conclude(w, "committed", "ok")
    BY <1>2 DEF CannotSend, TimeOut, MalformedUrl, Succeed, GiveUp
  <2>. QED BY <2>1, ConcludeFinalizes DEF Step
<1>. QED BY <1>1, <1>2 DEF Exchanges

LEMMA BrokerStepsAreSteps == [BrokerNext]_brokerVars => [Next]_vars
<1> SUFFICES ASSUME [BrokerNext]_brokerVars PROVE [Next]_vars
  OBVIOUS
<1>1. CASE UNCHANGED brokerVars
  BY <1>1 DEF brokerVars
<1>2. CASE Environment
  BY <1>2 DEF Environment, Die, ComeBack, Serve, Next
<1>3. ASSUME NEW w \in Worker, WorkerStep(w) PROVE [Next]_vars
  <2>1. CASE \E c \in Caller, op \in Ops, confirm \in {"true", "other"} : Accept(w, c, op, confirm)
    <3>1. PICK c \in Caller, op \in Ops : Label(w, <<c, ActionClass[op]>>)
      BY <2>1 DEF Accept
    <3>2. <<c, ActionClass[op]>> \in Key
      BY BrokerAssumption
    <3>. QED BY <3>1, <3>2 DEF Next, Step
  <2>2. CASE Prepare(w) \/ Reserve(w) \/ Refuse(w) \/ Escape(w)
    BY <2>2 DEF Prepare, Reserve, Refuse, Escape, Next, Step
  <2>3. CASE Exchanges(w)
    BY <2>3, ExchangesAreSteps DEF Next
  <2>. QED BY <1>3, <2>1, <2>2, <2>3 DEF WorkerStep
<1>. QED BY <1>1, <1>2, <1>3 DEF BrokerNext

\* The broker implements the limiter: whatever is proved of the limiter holds
\* of it.
THEOREM UsesLimiter == BrokerSpec => LimiterSpec
<1>1. BrokerInit => Init
  BY DEF BrokerInit
<1>. QED BY <1>1, BrokerStepsAreSteps, PTL DEF BrokerSpec, LimiterSpec, Spec

-----------------------------------------------------------------------------
(* What each operation of the limiter leaves alone.                        *)

LEMMA NoExchangeType == NoExchange \in Exchange /\ NoExchange.stage = "off"
BY DEF NoExchange, Exchange, Stage, Leg, HttpStatus

\* The row of a holding worker is a row of the table.
LEMMA HolderHasRow ==
  ASSUME Types, NEW w \in Holding
  PROVE  Row(w) \in DOMAIN calls /\ Row(w) \in RowId
<1>1. Row(w) \in DOMAIN calls
  BY DEF Types, HeldRowCounted, Row
<1>2. Len(calls) \in Nat /\ DOMAIN calls = 1 .. Len(calls) /\ Len(calls) <= MaxCalls /\ MaxCalls \in Nat
  BY Rows, LimiterAssumption DEF Types, BrokerTypeOK, TypeOK
<1>. QED BY <1>1, <1>2 DEF RowId

\* The workers that hold a reservation afterwards held it before.
HoldersRemain == \A v \in Worker : task'[v].phase = "holding" => v \in Holding /\ task'[v] = task[v]

\* No row appears, and none is freed.
NothingFreed ==
  /\ Len(calls') = Len(calls)
  /\ DOMAIN calls' = DOMAIN calls
  /\ \A i \in DOMAIN calls : calls'[i].status = "failed_pre_send" => calls[i].status = "failed_pre_send"

LEMMA ReapFreesNothing ==
  ASSUME calls \in Seq(Call), calls' = Reaped
  PROVE  NothingFreed
<1>1. ASSUME NEW i \in DOMAIN calls, Reaped[i].status = "failed_pre_send"
      PROVE  calls[i].status = "failed_pre_send"
  <2>1. calls[i] \in Call
    BY Rows
  <2>2. CASE /\ calls[i].status = "reserved"
             /\ Reaped[i] = [calls[i] EXCEPT !.status = "unknown"]
    <3>1. "unknown" \in Status
      BY DEF Status
    <3>2. Reaped[i].status = "unknown"
      BY <2>1, <2>2, <3>1, RowUpdate
    <3>. QED BY <1>1, <3>2
  <2>. QED BY <1>1, <2>2, ReapedFacts
<1>. QED BY <1>1, ReapedFacts DEF NothingFreed

\* The operations of the limiter that neither take nor settle a reservation.
QuietStep(w) == \/ \E k \in Key : Label(w, k)
                \/ ReapFirst(w) \/ ReadEpoch(w) \/ Deny(w) \/ Abandon(w)

LEMMA QuietStepFacts ==
  ASSUME Types, NEW w \in Worker, QuietStep(w)
  PROVE  /\ NothingFreed
         /\ HoldersRemain
         /\ \A v \in Worker \ {w} : task'[v] = task[v]
<1>. USE DEF QuietStep, Label, ReapFirst, ReadEpoch, Deny, Abandon
<1>1. calls \in Seq(Call) /\ task \in [Worker -> Task]
  BY DEF Types, BrokerTypeOK, TypeOK
<1>2. NothingFreed
  <2>1. CASE calls' = calls
    BY <2>1 DEF NothingFreed
  <2>2. CASE calls' = Reaped
    BY <1>1, <2>2, ReapFreesNothing
  <2>. QED BY <2>1, <2>2
<1>3. \A v \in Worker \ {w} : task'[v] = task[v]
  BY <1>1
<1>4. task'[w].phase # "holding"
  <2>1. NoTask \in Task /\ NoTask.phase = "idle" /\ task[w] \in Task
    BY <1>1, NoTaskType
  <2>2. CASE \E k \in Key : Label(w, k)
    <3>. HIDE DEF Label
    <3>1. PICK k \in Key : Label(w, k)
      BY <2>2
    <3>. DEFINE t == [NoTask EXCEPT !.phase = "labelled", !.key = k, !.day = DayOf[clock]]
    <3>2. task' = [task EXCEPT ![w] = t]
      BY <3>1 DEF Label
    <3>3. t.phase = "labelled"
      BY <2>1 DEF Task
    <3>. HIDE DEF t
    <3>. QED BY <1>1, <3>2, <3>3
  <2>3. CASE ReapFirst(w) \/ ReadEpoch(w)
    BY <1>1, <2>1, <2>3 DEF Task
  <2>4. CASE Deny(w) \/ Abandon(w)
    BY <1>1, <2>1, <2>4
  <2>. QED BY <2>2, <2>3, <2>4
<1>. QED BY <1>2, <1>3, <1>4 DEF HoldersRemain, Holding

LEMMA OutsideFacts ==
  ASSUME Types, Crash \/ Restart \/ \E d \in ClockSteps : ClockMoves(d)
  PROVE  NothingFreed /\ HoldersRemain
<1>1. calls \in Seq(Call) /\ task \in [Worker -> Task]
  BY DEF Types, BrokerTypeOK, TypeOK
<1>2. CASE Crash
  BY <1>2, NoTaskType DEF Crash, NothingFreed, HoldersRemain, Holding
<1>3. CASE Restart
  BY <1>1, <1>3, ReapFreesNothing DEF Restart, HoldersRemain, Holding
<1>4. CASE \E d \in ClockSteps : ClockMoves(d)
  BY <1>4 DEF ClockMoves, NothingFreed, HoldersRemain, Holding
<1>. QED BY <1>2, <1>3, <1>4

\* Finalize settles one row, the worker's own, and leaves that worker idle.
LEMMA FinalizeFacts ==
  ASSUME Types, NEW w \in Worker, NEW s \in FinalStatus, Finalize(w, s)
  PROVE  /\ w \in Holding
         /\ Len(calls') = Len(calls)
         /\ DOMAIN calls' = DOMAIN calls
         /\ \A i \in DOMAIN calls : i # Row(w) => calls'[i] = calls[i]
         /\ calls'[Row(w)].status = "failed_pre_send" => s = "failed_pre_send"
         /\ HoldersRemain
         /\ \A v \in Worker \ {w} : task'[v] = task[v]
         /\ task'[w].phase = "idle"
<1>1. /\ calls \in Seq(Call) /\ task \in [Worker -> Task] /\ w \in Holding
      /\ Row(w) \in DOMAIN calls /\ s \in Status
      /\ calls[Row(w)].status \in {"reserved", "unknown"}
  BY DEF Types, BrokerTypeOK, TypeOK, HeldRowCounted, Holding, Finalize, FinalStatus, Status, Row
<1>2. task' = [task EXCEPT ![w] = NoTask] /\ NoTask.phase = "idle"
  BY NoTaskType DEF Finalize
<1>3. CASE calls' = calls
  BY <1>1, <1>2, <1>3 DEF HoldersRemain, Holding
<1>4. CASE calls[Row(w)].status = "reserved" /\ calls' = [calls EXCEPT ![Row(w)].status = s]
  <2>. DEFINE r == Row(w)
  <2>1. calls[r] \in Call /\ r \in DOMAIN calls
    BY <1>1, Rows
  <2>. HIDE DEF r
  <2>2. [calls[r] EXCEPT !.status = s].status = s
    BY <1>1, <2>1, RowUpdate
  <2>3. /\ Len(calls') = Len(calls)
        /\ DOMAIN calls' = DOMAIN calls
        /\ calls'[r].status = s
        /\ \A i \in DOMAIN calls : i # r => calls'[i] = calls[i]
    BY <1>1, <1>4, <2>1, <2>2, StatusUpdateFacts DEF r
  <2>. QED BY <1>1, <1>2, <2>3 DEF r, HoldersRemain, Holding
<1>. QED BY <1>3, <1>4 DEF Finalize, Row

\* Admit adds a row and gives it to the worker.
LEMMA AdmitGives ==
  ASSUME Types, NEW w \in Worker, Admit(w)
  PROVE  /\ w \notin Holding
         /\ Len(calls) \in Nat /\ DOMAIN calls = 1 .. Len(calls)
         /\ Len(calls') = Len(calls) + 1 /\ Len(calls') <= MaxCalls
         /\ DOMAIN calls' = 1 .. Len(calls) + 1
         /\ \A i \in DOMAIN calls : calls'[i] = calls[i]
         /\ calls'[Len(calls) + 1].status = "reserved"
         /\ \A v \in Worker \ {w} : task'[v] = task[v]
         /\ task'[w].phase = "holding"
         /\ task'[w].row = Len(calls) + 1
<1>1. calls \in Seq(Call) /\ task \in [Worker -> Task] /\ Len(calls) \in Nat /\ MaxCalls \in Nat
  BY Rows, LimiterAssumption DEF Types, BrokerTypeOK, TypeOK
<1>. DEFINE row == [key |-> task[w].key, at |-> clock, epoch |-> task[w].epoch,
                    day |-> task[w].day, status |-> "reserved"]
            t == [NoTask EXCEPT !.phase = "holding", !.key = task[w].key, !.row = Len(calls) + 1]
<1>2. calls' = Append(calls, row) /\ task' = [task EXCEPT ![w] = t]
      /\ task[w].phase = "timed" /\ Len(calls) < MaxCalls
  BY DEF Admit
<1>3. row.status = "reserved" /\ t.phase = "holding" /\ t.row = Len(calls) + 1
  BY NoTaskType DEF Task
<1>. HIDE DEF row, t
<1>4. /\ Len(calls') = Len(calls) + 1
      /\ DOMAIN calls' = 1 .. Len(calls) + 1
      /\ calls'[Len(calls) + 1] = row
      /\ \A i \in DOMAIN calls : calls'[i] = calls[i]
  BY <1>1, <1>2
<1>. QED BY <1>1, <1>2, <1>3, <1>4, Rows DEF Holding

-----------------------------------------------------------------------------
(* The invariant is preserved: steps that no exchange takes.               *)

\* The limiter's own invariant comes with the steps of the broker.
LEMMA LimiterTypes ==
  ASSUME Types, [BrokerNext]_brokerVars
  PROVE  TypeOK' /\ HeldRowCounted'
BY BrokerStepsAreSteps, StepIInv DEF Types, BrokerTypeOK, IInv

\* What changes in a step that makes no row, frees none, and gives no worker
\* a reservation: rows whose worker has left may be answered internal_error.
LEMMA NothingNew ==
  ASSUME BInv, [BrokerNext]_brokerVars,
         NothingFreed, HoldersRemain, UNCHANGED <<opOf, wire, effects>>,
         net' \in [Worker -> Exchange],
         \A v \in Worker : net'[v].stage # "off" <=> task'[v].phase = "holding",
         \A v \in Worker : task'[v].phase = "holding" => net'[v] = net[v],
         reply' \in [RowId -> Replies],
         \A r \in RowId : \/ reply'[r] = reply[r]
                          \/ /\ reply'[r] = "internal_error" /\ r \in DOMAIN calls
                             /\ \A v \in Worker : task'[v].phase = "holding" => Row(v) # r
  PROVE  BInv'
<1>1. Types'
  BY LimiterTypes DEF BInv, Types, BrokerTypeOK, NothingFreed, Holding, RowId
<1>2. FreshRows'
  BY DEF BInv, Agreement, FreshRows, NothingFreed, OnWire, RowId
<1>3. OneRequest'
  BY DEF BInv, Agreement, OneRequest, RowId
<1>4. ASSUME NEW w \in Holding' PROVE HeldRow(w)'
  <2>1. w \in Holding /\ task'[w] = task[w] /\ net'[w] = net[w] /\ Row(w)' = Row(w)
        /\ task'[w].phase = "holding"
    BY <1>4 DEF Holding, HoldersRemain, Row
  <2>2. HeldRow(w) /\ Row(w) \in RowId
    BY <2>1, HolderHasRow DEF BInv, Agreement
  <2>3. reply'[Row(w)] = reply[Row(w)]
    BY <2>1, <2>2 DEF Holding
  <2>. QED BY <2>1, <2>2, <2>3 DEF HeldRow, OnWire, OneShotOps
<1>5. ASSUME NEW r \in (DOMAIN calls)', opOf'[r] \in OneShotOps PROVE OneShotRow(r)'
  <2>1. r \in DOMAIN calls /\ OneShotRow(r)
    BY <1>5 DEF NothingFreed, BInv, Agreement
  <2>2. r \in RowId
    BY <2>1, Rows, LimiterAssumption DEF BInv, Types, BrokerTypeOK, TypeOK, RowId
  <2>. QED BY <2>1, <2>2 DEF OneShotRow, InFlight, NothingFreed
<1>6. OneShotOps' = OneShotOps
  BY DEF OneShotOps
<1>. QED BY <1>1, <1>2, <1>3, <1>4, <1>5, <1>6 DEF BInv, Agreement

LEMMA QuietBrokerStep ==
  ASSUME BInv, [BrokerNext]_brokerVars, NEW w \in Worker,
         \/ \E c \in Caller, op \in Ops, confirm \in {"true", "other"} : Accept(w, c, op, confirm)
         \/ Prepare(w) \/ Refuse(w) \/ Escape(w)
  PROVE  BInv'
<1>0. /\ Types /\ net \in [Worker -> Exchange] /\ reply \in [RowId -> Replies]
      /\ task \in [Worker -> Task]
      /\ \A v \in Worker : net[v].stage # "off" <=> v \in Holding
  BY DEF BInv, Types, BrokerTypeOK, TypeOK
<1>1. QuietStep(w)
  <2>1. ASSUME NEW c \in Caller, NEW op \in Ops, NEW confirm, Accept(w, c, op, confirm)
        PROVE  QuietStep(w)
    <3>1. <<c, ActionClass[op]>> \in Key
      BY BrokerAssumption
    <3>. QED BY <2>1, <3>1 DEF Accept, QuietStep
  <2>. QED BY <2>1 DEF Prepare, Refuse, Escape, QuietStep
<1>2. NothingFreed /\ HoldersRemain /\ \A v \in Worker \ {w} : task'[v] = task[v]
  BY <1>0, <1>1, QuietStepFacts
<1>3. UNCHANGED <<opOf, wire, effects>>
  BY DEF Accept, Prepare, Refuse, Escape, netVars
<1>4. task'[w].phase # "holding"
  <2>1. NoTask \in Task /\ NoTask.phase = "idle" /\ task[w] \in Task
    BY <1>0, NoTaskType
  <2>2. CASE \E c \in Caller, op \in Ops, confirm \in {"true", "other"} : Accept(w, c, op, confirm)
    <3>1. PICK k : Label(w, k)
      BY <2>2 DEF Accept
    <3>. DEFINE t == [NoTask EXCEPT !.phase = "labelled", !.key = k, !.day = DayOf[clock]]
    <3>2. task' = [task EXCEPT ![w] = t]
      BY <3>1 DEF Label
    <3>3. t.phase = "labelled"
      BY <2>1 DEF Task
    <3>. HIDE DEF t
    <3>. QED BY <1>0, <3>2, <3>3
  <2>3. CASE Prepare(w)
    BY <1>0, <2>1, <2>3 DEF Prepare, ReapFirst, ReadEpoch, Task
  <2>4. CASE Refuse(w) \/ Escape(w)
    BY <1>0, <2>1, <2>4 DEF Refuse, Escape, Deny, Abandon
  <2>. QED BY <2>2, <2>3, <2>4
<1>5. net' \in [Worker -> Exchange] /\ net'[w].stage = "off"
      /\ \A v \in Worker \ {w} : net'[v] = net[v]
  <2>1. ASSUME NEW op \in Ops
        PROVE  [NoExchange EXCEPT !.op = op] \in Exchange /\ [NoExchange EXCEPT !.op = op].stage = "off"
    BY NoExchangeType DEF Exchange
  <2>2. CASE \E c \in Caller, op \in Ops, confirm \in {"true", "other"} : Accept(w, c, op, confirm)
    <3>1. PICK op \in Ops : net' = [net EXCEPT ![w] = [NoExchange EXCEPT !.op = op]]
      BY <2>2 DEF Accept
    <3>. DEFINE x == [NoExchange EXCEPT !.op = op]
    <3>2. x \in Exchange /\ x.stage = "off" /\ net' = [net EXCEPT ![w] = x]
      BY <2>1, <3>1
    <3>. HIDE DEF x
    <3>. QED BY <1>0, <3>2
  <2>3. CASE Prepare(w)
    <3>1. w \notin Holding /\ net' = net
      BY <2>3 DEF Prepare, ReapFirst, ReadEpoch, Holding, netVars
    <3>. QED BY <1>0, <3>1
  <2>4. CASE Refuse(w) \/ Escape(w)
    BY <1>0, <2>4, NoExchangeType DEF Refuse, Escape
  <2>. QED BY <2>2, <2>3, <2>4
<1>6. \A v \in Worker : net'[v].stage # "off" <=> task'[v].phase = "holding"
  BY <1>0, <1>2, <1>4, <1>5 DEF Holding
<1>7. \A v \in Worker : task'[v].phase = "holding" => net'[v] = net[v]
  BY <1>4, <1>5
<1>8. /\ reply' \in [RowId -> Replies]
      /\ \A r \in RowId : \/ reply'[r] = reply[r]
                          \/ /\ reply'[r] = "internal_error" /\ r \in DOMAIN calls
                             /\ \A v \in Worker : task'[v].phase = "holding" => Row(v) # r
  <2>1. CASE Escape(w) /\ w \in Holding
    <3>1. reply' = [reply EXCEPT ![Row(w)] = "internal_error"]
      BY <2>1 DEF Escape
    <3>2. Row(w) \in DOMAIN calls /\ Row(w) \in RowId
      BY <1>0, <2>1, HolderHasRow
    <3>3. \A v \in Worker : task'[v].phase = "holding" => Row(v) # Row(w)
      BY <1>0, <1>2, <1>4, <2>1 DEF HoldersRemain, Types, HeldRowCounted, Row
    <3>4. "internal_error" \in Replies
      BY DEF Replies
    <3>. QED BY <1>0, <3>1, <3>2, <3>3, <3>4
  <2>2. CASE reply' = reply
    BY <1>0, <2>2
  <2>. QED BY <2>1, <2>2 DEF Accept, Prepare, Refuse, Escape, netVars
<1>. QED BY <1>2, <1>3, <1>5, <1>6, <1>7, <1>8, NothingNew

LEMMA OutsideStep ==
  ASSUME BInv, [BrokerNext]_brokerVars,
         Die \/ ComeBack \/ \E d \in ClockSteps : ClockMoves(d) /\ UNCHANGED netVars
  PROVE  BInv'
<1>0. /\ Types /\ net \in [Worker -> Exchange] /\ reply \in [RowId -> Replies]
      /\ \A v \in Worker : net[v].stage # "off" <=> v \in Holding
  BY DEF BInv, Types, BrokerTypeOK
<1>1. NothingFreed /\ HoldersRemain
  BY <1>0, OutsideFacts DEF Die, ComeBack
<1>2. CASE Die
  BY <1>0, <1>1, <1>2, NothingNew, NoTaskType, NoExchangeType DEF Die, Crash
<1>3. CASE ComeBack \/ \E d \in ClockSteps : ClockMoves(d) /\ UNCHANGED netVars
  <2>1. UNCHANGED <<opOf, net, wire, effects, reply, task>>
    BY <1>3 DEF ComeBack, Restart, ClockMoves, netVars
  <2>. QED BY <1>0, <1>1, <2>1, NothingNew DEF Holding
<1>. QED BY <1>2, <1>3

-----------------------------------------------------------------------------
(* The invariant is preserved: a reservation is taken.                     *)

LEMMA ReserveStep ==
  ASSUME BInv, [BrokerNext]_brokerVars, NEW w \in Worker, Reserve(w)
  PROVE  BInv'
<1>. DEFINE n == Len(calls) + 1
<1>0. /\ Types /\ Agreement
      /\ net \in [Worker -> Exchange] /\ opOf \in [RowId -> Ops \cup {"none"}]
      /\ \A v \in Worker : net[v].stage # "off" <=> v \in Holding
      /\ Admit(w)
  BY DEF BInv, Types, BrokerTypeOK, Reserve
<1>1. /\ w \notin Holding
      /\ Len(calls) \in Nat /\ DOMAIN calls = 1 .. Len(calls)
      /\ Len(calls') = n /\ Len(calls') <= MaxCalls
      /\ DOMAIN calls' = 1 .. n
      /\ \A i \in DOMAIN calls : calls'[i] = calls[i]
      /\ calls'[n].status = "reserved"
      /\ \A v \in Worker \ {w} : task'[v] = task[v]
      /\ task'[w].phase = "holding"
      /\ task'[w].row = n
  BY <1>0, AdmitGives
<1>2. n \in RowId /\ n \notin DOMAIN calls /\ DOMAIN calls \subseteq RowId
      /\ DOMAIN calls' = DOMAIN calls \cup {n}
  BY <1>1, LimiterAssumption DEF RowId
<1>3. Row(w)' = n
  BY <1>1 DEF Row
<1>4. UNCHANGED <<wire, effects, reply>>
  BY DEF Reserve
<1>. HIDE DEF n
<1>5. opOf' = [opOf EXCEPT ![n] = net[w].op]
  BY <1>3 DEF Reserve
<1>. DEFINE x == [net[w] EXCEPT !.stage = "ready", !.leg = FirstLeg(net[w].op)]
<1>6. net' = [net EXCEPT ![w] = x]
  BY <1>0 DEF Reserve
<1>7. x \in Exchange /\ x.stage = "ready" /\ x.op = net[w].op
  <2>1. FirstLeg(net[w].op) \in Leg
    BY DEF FirstLeg, Leg
  <2>2. net[w] \in Exchange
    BY <1>0
  <2>. QED BY <2>1, <2>2 DEF Exchange, Stage
<1>. HIDE DEF x
<1>8. Holding' = Holding \cup {w}
  BY <1>1 DEF Holding
<1>9. \A v \in Holding : v # w /\ Row(v)' = Row(v) /\ Row(v) \in DOMAIN calls /\ Row(v) # n
                         /\ net'[v] = net[v]
  BY <1>0, <1>1, <1>2, <1>6, HolderHasRow DEF Row, Holding
<1>10. net[w].op \in Ops \cup {"none"}
  BY <1>0 DEF Exchange
<1>11. Types'
  BY <1>0, <1>1, <1>2, <1>4, <1>5, <1>6, <1>7, <1>8, <1>10, LimiterTypes
     DEF Types, BrokerTypeOK, RowId
<1>12. opOf[n] = "none" /\ effects[n] = 0 /\ reply[n] = "none" /\ ~OnWire(n)
  BY <1>0, <1>2 DEF Agreement, FreshRows
<1>13. FreshRows'
  BY <1>0, <1>2, <1>4, <1>5 DEF Types, BrokerTypeOK, Agreement, FreshRows, OnWire, RowId
<1>14. OneRequest'
  BY <1>0, <1>4 DEF Agreement, OneRequest, RowId
<1>15. ~InFlight(n)
  <2>. SUFFICES ASSUME NEW q \in wire, q[1] = n PROVE FALSE
    BY DEF InFlight
  <2>1. q \in RowId \X Leg
    BY <1>0 DEF Types, BrokerTypeOK
  <2>2. q = <<q[1], q[2]>> /\ q[2] \in Leg
    BY <2>1
  <2>. QED BY <1>12, <2>2 DEF OnWire
<1>16. ASSUME NEW v \in Holding' PROVE HeldRow(v)'
  <2>1. CASE v = w
    BY <1>0, <1>2, <1>3, <1>4, <1>5, <1>6, <1>7, <1>12, <2>1 DEF HeldRow, OnWire
  <2>2. CASE v \in Holding
    <3>1. HeldRow(v) /\ opOf'[Row(v)] = opOf[Row(v)]
      BY <1>0, <1>2, <1>5, <1>9, <2>2 DEF Agreement
    <3>. QED BY <1>4, <1>9, <2>2, <3>1 DEF HeldRow, OnWire, OneShotOps
  <2>. QED BY <1>8, <1>16, <2>1, <2>2
<1>17. ASSUME NEW r \in (DOMAIN calls)', opOf'[r] \in OneShotOps PROVE OneShotRow(r)'
  <2>1. CASE r = n
    BY <1>1, <1>4, <1>12, <1>15, <2>1 DEF n, OneShotRow, InFlight
  <2>2. CASE r # n
    <3>1. r \in DOMAIN calls /\ opOf'[r] = opOf[r] /\ calls'[r] = calls[r] /\ OneShotRow(r)
      BY <1>0, <1>1, <1>2, <1>5, <1>17, <2>2 DEF Agreement
    <3>. QED BY <1>4, <3>1 DEF OneShotRow, InFlight
  <2>. QED BY <2>1, <2>2
<1>18. OneShotOps' = OneShotOps
  BY DEF OneShotOps
<1>. QED BY <1>11, <1>13, <1>14, <1>16, <1>17, <1>18 DEF BInv, Agreement

-----------------------------------------------------------------------------
(* The invariant is preserved: a reservation is settled.                   *)

\* What settling a row must respect: a clean failure means no effect, now or
\* later, and a success means one.
Justified(r, s, word) ==
  opOf[r] \in OneShotOps =>
    /\ s = "failed_pre_send" \/ word = "upstream_failed_clean" =>
         effects[r] = 0 /\ ~InFlight(r)
    /\ word = "ok" => effects[r] = 1

LEMMA ConcludeStep ==
  ASSUME BInv, [BrokerNext]_brokerVars, NEW w \in Worker, NEW s \in FinalStatus,
         NEW word \in Replies, Conclude(w, s, word), Justified(Row(w), s, word)
  PROVE  BInv'
<1>. DEFINE r == Row(w)
<1>0. /\ Types /\ Agreement
      /\ net \in [Worker -> Exchange] /\ reply \in [RowId -> Replies]
      /\ \A v \in Worker : net[v].stage # "off" <=> v \in Holding
      /\ Finalize(w, s)
  BY DEF BInv, Types, BrokerTypeOK, Conclude
<1>1. /\ w \in Holding
      /\ Len(calls') = Len(calls)
      /\ DOMAIN calls' = DOMAIN calls
      /\ \A i \in DOMAIN calls : i # r => calls'[i] = calls[i]
      /\ calls'[r].status = "failed_pre_send" => s = "failed_pre_send"
      /\ HoldersRemain
      /\ \A v \in Worker \ {w} : task'[v] = task[v]
      /\ task'[w].phase = "idle"
  BY <1>0, FinalizeFacts
<1>2. UNCHANGED <<opOf, wire, effects>> /\ net' = [net EXCEPT ![w] = NoExchange]
  BY DEF Conclude
<1>3. PICK a \in {word, "internal_error"} : reply' = [reply EXCEPT ![r] = a]
  BY DEF Conclude
<1>4. r \in DOMAIN calls /\ r \in RowId
  BY <1>0, <1>1, HolderHasRow
<1>5. \A v \in Holding : v # w => Row(v) # r
  BY <1>0, <1>1 DEF Types, HeldRowCounted, Row
<1>. HIDE DEF r
<1>6. Holding' = Holding \ {w}
  BY <1>1 DEF Holding
<1>7. Types'
  BY <1>0, <1>1, <1>2, <1>3, <1>4, <1>6, NoExchangeType, LimiterTypes
     DEF Types, BrokerTypeOK, RowId, Replies
<1>8. FreshRows' /\ OneRequest'
  BY <1>0, <1>1, <1>2, <1>3, <1>4 DEF Types, BrokerTypeOK, Agreement, FreshRows, OneRequest, OnWire, RowId
<1>9. ASSUME NEW v \in Holding' PROVE HeldRow(v)'
  <2>1. v \in Holding /\ v # w /\ Row(v)' = Row(v) /\ Row(v) # r /\ Row(v) \in RowId
        /\ net'[v] = net[v] /\ HeldRow(v)
    BY <1>0, <1>1, <1>2, <1>5, <1>6, <1>9, HolderHasRow DEF Row, Holding, Agreement
  <2>2. reply'[Row(v)] = reply[Row(v)]
    BY <1>0, <1>3, <2>1
  <2>. QED BY <1>2, <2>1, <2>2 DEF HeldRow, OnWire, OneShotOps
<1>10. ASSUME NEW q \in (DOMAIN calls)', opOf'[q] \in OneShotOps PROVE OneShotRow(q)'
  <2>1. q \in DOMAIN calls /\ OneShotRow(q) /\ q \in RowId /\ opOf[q] \in OneShotOps
    <3>1. q \in RowId
      BY <1>0, <1>1, <1>10, Rows, LimiterAssumption DEF Types, BrokerTypeOK, TypeOK, RowId
    <3>. QED BY <1>0, <1>1, <1>2, <1>10, <3>1 DEF Agreement
  <2>2. CASE q = r
    <3>1. reply'[q] = a
      BY <1>0, <1>3, <1>4, <2>2
    <3>. QED BY <1>1, <1>2, <1>3, <2>1, <2>2, <3>1 DEF r, Justified, OneShotRow, InFlight
  <2>3. CASE q # r
    BY <1>0, <1>1, <1>2, <1>3, <2>1, <2>3 DEF OneShotRow, InFlight
  <2>. QED BY <2>2, <2>3
<1>11. OneShotOps' = OneShotOps
  BY DEF OneShotOps
<1>. QED BY <1>7, <1>8, <1>9, <1>10, <1>11 DEF BInv, Agreement


\* A failure is settled as clean only when nothing happened.
LEMMA FailedStep ==
  ASSUME BInv, [BrokerNext]_brokerVars, NEW w \in Worker, NEW s, Failed(w, s),
         ~Ambiguous(s) => (opOf[Row(w)] \in OneShotOps => effects[Row(w)] = 0 /\ ~InFlight(Row(w)))
  PROVE  BInv'
<1>. DEFINE t == IF Ambiguous(s) THEN "unknown" ELSE "failed_pre_send"
            a == IF Ambiguous(s) THEN "upstream_failed_ambiguous" ELSE "upstream_failed_clean"
<1>1. t \in FinalStatus /\ a \in Replies
  BY DEF FinalStatus, Replies
<1>2. Conclude(w, t, a)
  BY DEF Failed
<1>3. Justified(Row(w), t, a)
  BY DEF Justified
<1>. HIDE DEF t, a
<1>. QED BY <1>1, <1>2, <1>3, ConcludeStep

\* A worker with an exchange holds a row, and knows what its stage tells.
LEMMA OnExchange ==
  ASSUME BInv, NEW w \in Worker, net[w].stage # "off"
  PROVE  /\ w \in Holding
         /\ HeldRow(w)
         /\ Row(w) \in DOMAIN calls /\ Row(w) \in RowId
         /\ net[w] \in Exchange
         /\ ~OnWire(Row(w)) => ~InFlight(Row(w))
<1>1. w \in Holding /\ net[w] \in Exchange /\ Types /\ wire \subseteq RowId \X Leg
  BY DEF BInv, Types, BrokerTypeOK
<1>. QED BY <1>1, HolderHasRow DEF BInv, Agreement, OnWire, InFlight

LEMMA EndOfExchange ==
  ASSUME BInv, [BrokerNext]_brokerVars, NEW w \in Worker,
         \/ \E s \in ErrorStatus : CannotSend(w, s)
         \/ TimeOut(w) \/ MalformedUrl(w) \/ Succeed(w) \/ GiveUp(w)
  PROVE  BInv'
<1>1. ASSUME NEW s \in ErrorStatus, CannotSend(w, s) PROVE BInv'
  <2>1. Failed(w, s) /\ net[w].stage = "ready"
    BY <1>1 DEF CannotSend
  <2>2. opOf[Row(w)] \in OneShotOps => effects[Row(w)] = 0 /\ ~InFlight(Row(w))
    BY <2>1, OnExchange DEF HeldRow
  <2>. QED BY <2>1, <2>2, FailedStep
<1>2. CASE TimeOut(w) \/ MalformedUrl(w)
  <2>1. Failed(w, "none") /\ Ambiguous("none")
    BY <1>2 DEF TimeOut, MalformedUrl, Ambiguous
  <2>. QED BY <2>1, FailedStep
<1>3. CASE Succeed(w)
  <2>1. Conclude(w, "committed", "ok") /\ net[w].stage = "answered"
        /\ net[w].status = "2xx" /\ net[w].leg # "url"
    BY <1>3 DEF Succeed
  <2>2. Justified(Row(w), "committed", "ok")
    BY <2>1, OnExchange DEF HeldRow, Justified
  <2>. QED BY <2>1, <2>2, ConcludeStep DEF FinalStatus, Replies
<1>4. CASE GiveUp(w)
  <2>1. Failed(w, net[w].status) /\ net[w].stage = "answered" /\ net[w].status # "2xx"
    BY <1>4 DEF GiveUp
  <2>2. ~Ambiguous(net[w].status) => net[w].status \in {"401", "429", "4xx"}
    BY <2>1, OnExchange DEF Ambiguous, Exchange, HttpStatus
  <2>3. ~Ambiguous(net[w].status) =>
          (opOf[Row(w)] \in OneShotOps => effects[Row(w)] = 0 /\ ~InFlight(Row(w)))
    BY <2>1, <2>2, OnExchange DEF HeldRow
  <2>. QED BY <2>1, <2>3, FailedStep
<1>. QED BY <1>1, <1>2, <1>3, <1>4

-----------------------------------------------------------------------------
(* The invariant is preserved: an exchange goes on.                        *)

\* The steps of one worker's exchange that leave the table alone.
LEMMA ExchangeGoesOn ==
  ASSUME BInv, [BrokerNext]_brokerVars, NEW w \in Worker, NEW x \in Exchange,
         UNCHANGED <<vars, opOf, effects, reply>>,
         net' = [net EXCEPT ![w] = x],
         net[w].stage # "off", x.stage # "off",
         \/ wire' = wire
         \/ wire' = wire \cup {<<Row(w), x.leg>>} /\ net[w].stage = "ready",
         opOf[Row(w)] \in OneShotOps /\ wire' # wire => effects[Row(w)] = 0,
         HeldRow(w)'
  PROVE  BInv'
<1>. DEFINE r == Row(w)
<1>0. /\ Types /\ Agreement
      /\ net \in [Worker -> Exchange] /\ wire \subseteq RowId \X Leg
      /\ \A v \in Worker : net[v].stage # "off" <=> v \in Holding
      /\ x.leg \in Leg
  BY DEF BInv, Types, BrokerTypeOK, Exchange
<1>1. w \in Holding /\ HeldRow(w) /\ r \in DOMAIN calls /\ r \in RowId
      /\ (net[w].stage = "ready" => ~OnWire(r))
  BY OnExchange DEF HeldRow
<1>2. \A v \in Holding : v # w => Row(v) # r
  BY <1>0, <1>1 DEF Types, HeldRowCounted, Row
<1>3. UNCHANGED <<calls, task, clock, up, opOf, effects, reply>> /\ Holding' = Holding
      /\ \A v \in Worker : Row(v)' = Row(v)
  BY DEF vars, Holding, Row
<1>4. \A q \in RowId, leg \in Leg : q # r => (<<q, leg>> \in wire' <=> <<q, leg>> \in wire)
  OBVIOUS
<1>5. wire' = wire \/ \A leg \in Leg : <<r, leg>> \in wire' <=> leg = x.leg
  BY <1>1 DEF OnWire
<1>6. calls[r].status # "failed_pre_send" /\ reply[r] = "none"
  BY <1>0, <1>1 DEF Types, HeldRowCounted, HeldRow, Row
<1>. HIDE DEF r
<1>7. Types'
  <2>1. wire' \subseteq RowId \X Leg
    BY <1>0, <1>1 DEF r
  <2>. QED BY <1>0, <1>1, <1>3, <2>1, LimiterTypes DEF Types, BrokerTypeOK, RowId
<1>8. FreshRows'
  BY <1>0, <1>1, <1>3, <1>4 DEF Agreement, FreshRows, OnWire, RowId
<1>9. OneRequest'
  <2>. SUFFICES ASSUME NEW q \in RowId, NEW l \in Leg, NEW m \in Leg,
                       <<q, l>> \in wire', <<q, m>> \in wire'
                PROVE  l = m
    BY DEF OneRequest, RowId
  <2>1. <<q, l>> \in wire /\ <<q, m>> \in wire => l = m
    BY <1>0 DEF Agreement, OneRequest
  <2>. QED BY <1>4, <1>5, <2>1
<1>10. ASSUME NEW v \in Holding' PROVE HeldRow(v)'
  <2>1. CASE v = w
    BY <2>1
  <2>2. CASE v # w
    <3>1. HeldRow(v) /\ Row(v) # r /\ Row(v) \in RowId /\ net'[v] = net[v]
      BY <1>0, <1>2, <1>3, <1>10, <2>2, HolderHasRow DEF Agreement, Holding
    <3>2. v \in Worker /\ Row(v)' = Row(v)
      BY <1>3, <1>10 DEF Holding
    <3>3. \A leg \in Leg : <<Row(v), leg>> \in wire' <=> <<Row(v), leg>> \in wire
      BY <1>4, <3>1
    <3>. QED BY <1>3, <3>1, <3>2, <3>3 DEF HeldRow, OnWire, OneShotOps
  <2>. QED BY <2>1, <2>2
<1>11. ASSUME NEW q \in (DOMAIN calls)', opOf'[q] \in OneShotOps PROVE OneShotRow(q)'
  <2>1. q \in DOMAIN calls /\ OneShotRow(q) /\ q \in RowId /\ opOf[q] \in OneShotOps
    <3>1. q \in RowId
      BY <1>0, <1>3, <1>11, Rows, LimiterAssumption DEF Types, BrokerTypeOK, TypeOK, RowId
    <3>. QED BY <1>0, <1>3, <1>11, <3>1 DEF Agreement
  <2>2. CASE wire' = wire
    BY <1>3, <2>1, <2>2 DEF OneShotRow, InFlight
  <2>3. CASE q = r /\ wire' # wire
    <3>1. effects[r] = 0
      BY <2>1, <2>3 DEF r
    <3>. QED BY <1>3, <1>6, <2>3, <3>1 DEF OneShotRow
  <2>4. CASE q # r
    <3>1. InFlight(q)' => InFlight(q)
      BY <2>4 DEF InFlight, r
    <3>. QED BY <1>3, <2>1, <3>1 DEF OneShotRow
  <2>. QED BY <2>2, <2>3, <2>4
<1>12. OneShotOps' = OneShotOps
  BY DEF OneShotOps
<1>. QED BY <1>7, <1>8, <1>9, <1>10, <1>11, <1>12 DEF BInv, Agreement


\* An exchange that is tried again is an exchange.
LEMMA AgainReady ==
  ASSUME NEW m \in Exchange, NEW again \in BOOLEAN
  PROVE  LET x == [m EXCEPT !.stage = "ready", !.attempt = @ + 1, !.reauthed = again]
         IN  x \in Exchange /\ x.stage = "ready" /\ x.leg = m.leg /\ x.op = m.op
<1>1. m.attempt + 1 \in Nat /\ m.stage \in Stage /\ "ready" \in Stage
  BY DEF Exchange, Stage
<1>. DEFINE k == m.attempt + 1
<1>2. k \in Nat
  BY <1>1
<1>. HIDE DEF k
<1>3. LET x == [m EXCEPT !.stage = "ready", !.attempt = k, !.reauthed = again]
      IN  x \in Exchange /\ x.stage = "ready" /\ x.leg = m.leg /\ x.op = m.op
  BY <1>1, <1>2 DEF Exchange
<1>. QED BY <1>3 DEF k

LEMMA ExchangeStep ==
  ASSUME BInv, [BrokerNext]_brokerVars, NEW w \in Worker, Send(w) \/ Resend(w) \/ GoToS3(w)
  PROVE  BInv'
<1>. DEFINE n == net[w]
            r == Row(w)
<1>0. /\ net[w].stage # "off" /\ net \in [Worker -> Exchange]
      /\ UNCHANGED <<vars, opOf, effects, reply>> /\ Row(w)' = r
  BY DEF BInv, Types, BrokerTypeOK, Send, Resend, GoToS3, vars, Row
<1>1. HeldRow(w) /\ n \in Exchange /\ r \in RowId
  BY <1>0, OnExchange
<1>2. CASE Send(w)
  <2>. DEFINE x == [net[w] EXCEPT !.stage = "sent"]
  <2>1. net' = [net EXCEPT ![w] = x] /\ wire' = wire \cup {<<r, n.leg>>} /\ n.stage = "ready"
    BY <1>2 DEF Send
  <2>2. x \in Exchange /\ x.stage = "sent" /\ x.leg = n.leg /\ x.op = n.op /\ x.status = n.status
    BY <1>1 DEF Exchange, Stage
  <2>. HIDE DEF x
  <2>3. net'[w] = x
    BY <1>0, <2>1
  <2>4. HeldRow(w)'
    BY <1>0, <1>1, <2>1, <2>2, <2>3 DEF HeldRow, OnWire, OneShotOps
  <2>5. opOf[r] \in OneShotOps => effects[r] = 0
    BY <1>1, <2>1 DEF HeldRow
  <2>. QED BY <1>0, <2>1, <2>2, <2>4, <2>5, ExchangeGoesOn
<1>3. CASE Resend(w)
  <2>. DEFINE b == net[w].reauthed \/ net[w].status = "401"
              x == [net[w] EXCEPT !.stage = "ready", !.attempt = @ + 1, !.reauthed = b]
  <2>1. net' = [net EXCEPT ![w] = x] /\ wire' = wire /\ n.stage = "answered" /\ Retryable(w)
    BY <1>3 DEF Resend
  <2>b. b \in BOOLEAN
    OBVIOUS
  <2>. HIDE DEF b
  <2>2. x \in Exchange /\ x.stage = "ready" /\ x.leg = n.leg /\ x.op = n.op
    BY <1>1, <2>b, AgainReady
  <2>. HIDE DEF x
  <2>3. net'[w] = x
    BY <1>0, <2>1
  <2>4. n.op \in OneShotOps => effects[r] = 0
    <3>1. n.op \in OneShotOps => n.leg = "url" \/ n.status \in {"401", "429"}
      BY <2>1 DEF Retryable, OneShotOps
    <3>. QED BY <1>1, <2>1, <3>1 DEF HeldRow
  <2>5. HeldRow(w)'
    BY <1>0, <1>1, <2>1, <2>2, <2>3, <2>4 DEF HeldRow, OnWire, OneShotOps
  <2>. QED BY <1>0, <2>1, <2>2, <2>5, ExchangeGoesOn
<1>4. CASE GoToS3(w)
  <2>. DEFINE x == [net[w] EXCEPT !.stage = "ready", !.leg = "s3", !.attempt = 0,
                                  !.reauthed = FALSE]
  <2>1. net' = [net EXCEPT ![w] = x] /\ wire' = wire /\ n.stage = "answered" /\ n.leg = "url"
    BY <1>4 DEF GoToS3
  <2>2. x \in Exchange /\ x.stage = "ready" /\ x.op = n.op
    BY <1>1 DEF Exchange, Stage, Leg
  <2>. HIDE DEF x
  <2>3. net'[w] = x
    BY <1>0, <2>1
  <2>4. HeldRow(w)'
    BY <1>0, <1>1, <2>1, <2>2, <2>3 DEF HeldRow, OnWire, OneShotOps
  <2>. QED BY <1>0, <2>1, <2>2, <2>4, ExchangeGoesOn
<1>. QED BY <1>2, <1>3, <1>4

\* GreenInvoice handles the one request of a row: an operation that is done
\* had not been done before, and is on the wire no more.
LEMMA ServeStep ==
  ASSUME BInv, [BrokerNext]_brokerVars, NEW q \in wire, NEW s \in HttpStatus,
         NEW applied \in BOOLEAN, NEW delivered \in BOOLEAN, Serve(q, s, applied, delivered)
  PROVE  BInv'
<1>0. /\ Types /\ Agreement
      /\ net \in [Worker -> Exchange] /\ effects \in [RowId -> Nat] /\ wire \subseteq RowId \X Leg
      /\ \A v \in Worker : net[v].stage # "off" <=> v \in Holding
  BY DEF BInv, Types, BrokerTypeOK
<1>1. PICK r \in RowId, leg \in Leg : q = <<r, leg>>
  BY <1>0
<1>2. /\ UNCHANGED <<calls, task, clock, up, opOf, reply>>
      /\ wire' = wire \ {<<r, leg>>}
      /\ Holding' = Holding /\ \A v \in Worker : Row(v)' = Row(v)
  BY <1>1 DEF Serve, vars, Holding, Row
<1>3. \A l \in Leg : <<r, l>> \notin wire'
  BY <1>0, <1>1, <1>2 DEF Agreement, OneRequest
<1>4. \A p \in RowId, l \in Leg : p # r => (<<p, l>> \in wire' <=> <<p, l>> \in wire)
  BY <1>2
<1>5. r \in DOMAIN calls
  BY <1>0, <1>1 DEF Agreement, FreshRows, OnWire
<1>6. effects' = IF applied THEN [effects EXCEPT ![r] = @ + 1] ELSE effects
  BY <1>1 DEF Serve
<1>7. effects' \in [RowId -> Nat] /\ \A p \in RowId : p # r => effects'[p] = effects[p]
  BY <1>0, <1>1, <1>6
<1>8. ~InFlight(r)'
  BY <1>0, <1>2, <1>3 DEF InFlight
<1>9. \A p : p # r /\ InFlight(p)' => InFlight(p)
  BY <1>2 DEF InFlight
<1>10. opOf[r] \in OneShotOps =>
         /\ leg # "url" => effects[r] = 0
         /\ leg = "url" => ~applied
         /\ s \in {"401", "429", "4xx"} => ~applied
         /\ s = "2xx" /\ leg # "url" => applied
  <2>1. leg # "url" => InFlight(r)
    BY <1>1 DEF InFlight
  <2>2. opOf[r] \in OneShotOps /\ leg # "url" => effects[r] = 0
    BY <1>0, <1>5, <2>1 DEF Agreement, OneShotRow
  <2>3. opOf[r] \in OneShotOps => opOf[r] \notin EffectFreeOps
    BY DEF OneShotOps, IdempotentOps, EffectFreeOps
  <2>. QED BY <1>1, <2>2, <2>3 DEF Serve, MayTakeEffect, MustTakeEffect
<1>11. \A v \in Worker :
         \/ net'[v] = net[v]
         \/ /\ v \in Holding /\ Row(v) = r /\ net[v].stage = "sent"
            /\ net'[v] = [net[v] EXCEPT !.stage = "answered", !.status = s]
  BY <1>1 DEF Serve
<1>12. \A v \in Worker :
         LET y == [net[v] EXCEPT !.stage = "answered", !.status = s]
         IN  y \in Exchange /\ y.stage = "answered" /\ y.status = s
             /\ y.leg = net[v].leg /\ y.op = net[v].op
  BY <1>0 DEF Exchange, Stage
<1>13. net' \in [Worker -> Exchange] /\ \A v \in Worker : net'[v].stage # "off" <=> v \in Holding
  <2>1. net' = [v \in Worker |-> net'[v]]
    BY DEF Serve
  <2>2. \A v \in Worker : net'[v] \in Exchange /\ (net'[v].stage # "off" <=> v \in Holding)
    BY <1>0, <1>11, <1>12
  <2>. QED BY <2>1, <2>2
<1>14. Types'
  BY <1>0, <1>2, <1>5, <1>7, <1>13, LimiterTypes DEF Types, BrokerTypeOK, RowId
<1>15. FreshRows' /\ OneRequest'
  BY <1>0, <1>2, <1>5, <1>7 DEF Agreement, FreshRows, OneRequest, OnWire, RowId
<1>16. ASSUME NEW v \in Holding' PROVE HeldRow(v)'
  <2>1. v \in Holding /\ v \in Worker /\ HeldRow(v) /\ Row(v)' = Row(v) /\ Row(v) \in RowId
        /\ net[v] \in Exchange
    BY <1>0, <1>2, <1>16, HolderHasRow DEF Agreement, Holding
  <2>2. CASE Row(v) # r
    <3>1. net'[v] = net[v] /\ effects'[Row(v)] = effects[Row(v)]
      BY <1>7, <1>11, <2>1, <2>2
    <3>2. \A l \in Leg : <<Row(v), l>> \in wire' <=> <<Row(v), l>> \in wire
      BY <1>4, <2>1, <2>2
    <3>. QED BY <1>2, <2>1, <3>1, <3>2 DEF HeldRow, OnWire, OneShotOps
  <2>3. CASE Row(v) = r
    <3>1. net[v].stage = "sent" /\ net[v].leg = leg
      <4>1. OnWire(r)
        BY <1>1 DEF OnWire
      <4>2. net[v].stage \in {"ready", "sent", "answered"}
        BY <1>0, <2>1 DEF Exchange, Stage
      <4>. QED BY <1>1, <2>1, <2>3, <4>1, <4>2 DEF HeldRow
    <3>2. ~OnWire(r)'
      BY <1>3 DEF OnWire, Leg
    <3>3. net[v].op = opOf[r] /\ reply[r] = "none"
          /\ (opOf[r] \in OneShotOps /\ leg = "url" => effects[r] = 0)
      BY <2>1, <2>3, <3>1 DEF HeldRow
    <3>4. opOf[r] \in OneShotOps =>
            /\ leg = "url" => effects'[r] = 0
            /\ s \in {"401", "429", "4xx"} => effects'[r] = 0
            /\ s = "2xx" /\ leg # "url" => effects'[r] = 1
      BY <1>0, <1>1, <1>6, <1>10, <3>3
    <3>5. net'[v].op = net[v].op /\ net'[v].leg = leg
          /\ (net'[v].stage = "sent" \/ (net'[v].stage = "answered" /\ net'[v].status = s))
      BY <1>11, <1>12, <2>1, <3>1
    <3>. QED BY <1>2, <1>3, <2>1, <2>3, <3>2, <3>3, <3>4, <3>5 DEF HeldRow, OneShotOps
  <2>. QED BY <2>2, <2>3
<1>17. ASSUME NEW p \in (DOMAIN calls)', opOf'[p] \in OneShotOps PROVE OneShotRow(p)'
  <2>1. p \in DOMAIN calls /\ OneShotRow(p) /\ p \in RowId /\ opOf[p] \in OneShotOps
    <3>1. p \in RowId
      BY <1>0, <1>2, <1>17, Rows, LimiterAssumption DEF Types, BrokerTypeOK, TypeOK, RowId
    <3>. QED BY <1>0, <1>2, <1>17, <3>1 DEF Agreement
  <2>2. CASE p # r
    BY <1>2, <1>7, <1>9, <2>1, <2>2 DEF OneShotRow
  <2>3. CASE p = r
    <3>1. CASE ~applied
      BY <1>2, <1>6, <1>8, <2>1, <2>3, <3>1 DEF OneShotRow
    <3>2. CASE applied
      <4>1. effects[r] = 0 /\ effects'[r] = 1 /\ InFlight(r)
        BY <1>0, <1>1, <1>6, <1>10, <2>1, <2>3, <3>2 DEF InFlight
      <4>. QED BY <1>2, <1>8, <2>1, <2>3, <4>1 DEF OneShotRow
    <3>. QED BY <3>1, <3>2
  <2>. QED BY <2>2, <2>3
<1>18. OneShotOps' = OneShotOps
  BY DEF OneShotOps
<1>. QED BY <1>14, <1>15, <1>16, <1>17, <1>18 DEF BInv, Agreement


-----------------------------------------------------------------------------
(* The invariant, and what follows from it.                                *)

LEMMA InitBInv == BrokerInit => BInv
<1> SUFFICES ASSUME BrokerInit PROVE BInv
  OBVIOUS
<1>1. Init /\ TypeOK /\ HeldRowCounted
  BY InitIInv DEF BrokerInit, IInv
<1>2. DOMAIN calls = {} /\ Len(calls) = 0 /\ Holding = {} /\ MaxCalls \in Nat
  BY <1>1, NoTaskType, LimiterAssumption DEF Init, Holding
<1>3. Types
  BY <1>1, <1>2, NoExchangeType DEF BrokerInit, Types, BrokerTypeOK, Replies
<1>4. Agreement
  BY <1>2 DEF BrokerInit, Agreement, FreshRows, OneRequest, OnWire
<1>. QED BY <1>3, <1>4 DEF BInv

LEMMA StutterBInv == BInv /\ UNCHANGED brokerVars => BInv'
<1> SUFFICES ASSUME BInv, UNCHANGED brokerVars PROVE BInv'
  OBVIOUS
<1>1. UNCHANGED <<calls, clock, up, task, opOf, net, wire, effects, reply>>
  BY DEF brokerVars, vars, netVars
<1>2. Types'
  BY <1>1 DEF BInv, Types, BrokerTypeOK, TypeOK, HeldRowCounted, Busy, Holding
<1>3. Agreement'
  BY <1>1 DEF BInv, Agreement, FreshRows, OneRequest, OnWire, HeldRow, OneShotRow, InFlight, Holding,
              OneShotOps, RowId, Row, Charged, Counted
<1>. QED BY <1>2, <1>3 DEF BInv

LEMMA StepBInv == BInv /\ [BrokerNext]_brokerVars => BInv'
<1> SUFFICES ASSUME BInv, [BrokerNext]_brokerVars PROVE BInv'
  OBVIOUS
<1>1. CASE UNCHANGED brokerVars
  BY <1>1, StutterBInv
<1>2. CASE Environment
  BY <1>2, OutsideStep, ServeStep DEF Environment
<1>3. ASSUME NEW w \in Worker, WorkerStep(w) PROVE BInv'
  BY <1>3, QuietBrokerStep, ReserveStep, ExchangeStep, EndOfExchange DEF WorkerStep, Exchanges
<1>. QED BY <1>1, <1>2, <1>3 DEF BrokerNext

LEMMA BInvHolds == BrokerSpec => []BInv
BY InitBInv, StepBInv, PTL DEF BrokerSpec

\* An operation that may be asked for is reserved for rows that exist only.
LEMMA OneShotRowsExist ==
  ASSUME BInv, NEW r \in RowId, opOf[r] \in OneShotOps
  PROVE  r \in DOMAIN calls /\ OneShotRow(r) /\ effects[r] \in Nat /\ calls[r].status \in Status
<1>1. opOf[r] # "none"
  BY BrokerAssumption DEF OneShotOps, ActionClass
<1>2. r \in DOMAIN calls
  BY <1>1 DEF BInv, Types, BrokerTypeOK
<1>. QED BY <1>2, Rows DEF BInv, Types, BrokerTypeOK, TypeOK, Agreement, Call

\* An exchange is on exactly while its worker holds a reservation, and rows
\* that do not exist have no effects.
THEOREM BrokerTypes == BrokerSpec => []BrokerTypeOK
<1>1. BInv => BrokerTypeOK
  BY DEF BInv, Types
<1>. QED BY <1>1, BInvHolds, PTL

\* A non-idempotent operation takes effect at most once per reservation.
THEOREM NeverTwice == BrokerSpec => []AtMostOnce
<1>1. BInv => AtMostOnce
  BY OneShotRowsExist DEF AtMostOnce, OneShotRow
<1>. QED BY <1>1, BInvHolds, PTL

\* A non-idempotent operation that took effect, or still may, is charged.
LEMMA BInvCharges == BInv => EffectCharged
<1> SUFFICES ASSUME BInv, NEW r \in RowId, opOf[r] \in OneShotOps, effects[r] > 0 \/ InFlight(r)
             PROVE  Charged(r)
  BY DEF EffectCharged
<1>1. r \in DOMAIN calls /\ OneShotRow(r) /\ effects[r] \in Nat /\ calls[r].status \in Status
  BY OneShotRowsExist
<1>2. calls[r].status # "failed_pre_send"
  BY <1>1 DEF OneShotRow
<1>. QED BY <1>1, <1>2 DEF Charged, Counted, CountedStatuses, Status

THEOREM NoFreeEffect == BrokerSpec => []EffectCharged
BY BInvCharges, BInvHolds, PTL

\* "ok" means done once, a clean failure means not done and never to be.
THEOREM AnswersAreTrue == BrokerSpec => []ReplyHonest
<1>1. BInv => ReplyHonest
  BY OneShotRowsExist DEF ReplyHonest, OneShotRow
<1>. QED BY <1>1, BInvHolds, PTL

\* What really happened at GreenInvoice is within the caps: every effect is
\* charged, and the charged rows are within the caps of the limiter.
LEMMA ChargedWithinCaps == BInv /\ HourCap /\ DayCap => EffectsWithinCaps
<1> SUFFICES ASSUME BInv, HourCap, DayCap, NEW k \in Key
             PROVE  /\ \A t \in Instant :
                         Cardinality({i \in Effective(k) : calls[i].epoch \in (t - HourSeconds + 1) .. t})
                           <= PerHour[k]
                    /\ \A d \in Day :
                         Cardinality({i \in Effective(k) : calls[i].day = d}) <= PerDay[k]
  BY DEF EffectsWithinCaps
<1>1. /\ calls \in Seq(Call) /\ PerHour[k] \in Nat /\ PerDay[k] \in Nat /\ HourSeconds \in Nat
      /\ DOMAIN calls \subseteq RowId
  BY Rows, LimiterAssumption DEF BInv, Types, BrokerTypeOK, TypeOK, RowId
<1>2. \A i \in Effective(k) : i \in DOMAIN calls /\ calls[i].key = k /\ Counted(i)
                              /\ calls[i].epoch \in Int
  <2>. TAKE i \in Effective(k)
  <2>1. i \in DOMAIN calls /\ calls[i].key = k /\ i \in RowId
        /\ opOf[i] \in OneShotOps /\ effects[i] > 0
    BY <1>1 DEF Effective
  <2>2. Counted(i)
    BY <2>1, BInvCharges DEF EffectCharged, Charged
  <2>3. calls[i].epoch \in Instant
    BY <1>1, <2>1, Rows DEF Call
  <2>. QED BY <2>1, <2>2, <2>3, LimiterAssumption DEF Instant
<1>3. ASSUME NEW t \in Instant
      PROVE  Cardinality({i \in Effective(k) : calls[i].epoch \in (t - HourSeconds + 1) .. t})
               <= PerHour[k]
  <2>. DEFINE S == {i \in Effective(k) : calls[i].epoch \in (t - HourSeconds + 1) .. t}
              T == {i \in UsedHour(k, t - HourSeconds) : calls[i].epoch <= t}
  <2>1. t \in Int
    BY LimiterAssumption DEF Instant
  <2>2. S \subseteq T
    BY <1>1, <1>2, <2>1 DEF UsedHour
  <2>3. IsFiniteSet(T)
    BY <1>1, CountsAreNumbers, FS_Subset
  <2>4. Cardinality(T) <= PerHour[k]
    BY DEF HourCap
  <2>. HIDE DEF S, T
  <2>5. Cardinality(S) <= PerHour[k]
    BY <1>1, <2>2, <2>3, <2>4, FS_Subset, FS_CardinalityType
  <2>. QED BY <2>5 DEF S
<1>4. ASSUME NEW d \in Day
      PROVE  Cardinality({i \in Effective(k) : calls[i].day = d}) <= PerDay[k]
  <2>. DEFINE S == {i \in Effective(k) : calls[i].day = d}
  <2>1. S \subseteq UsedDay(k, d)
    BY <1>2 DEF UsedDay
  <2>2. IsFiniteSet(UsedDay(k, d)) /\ Cardinality(UsedDay(k, d)) <= PerDay[k]
    BY <1>1, CountsAreNumbers DEF DayCap
  <2>. HIDE DEF S
  <2>3. Cardinality(S) <= PerDay[k]
    BY <1>1, <2>1, <2>2, FS_Subset, FS_CardinalityType
  <2>. QED BY <2>3 DEF S
<1>. QED BY <1>3, <1>4

THEOREM RealEffectsCapped == BrokerSpec => []EffectsWithinCaps
<1>1. BrokerSpec => Spec
  BY UsesLimiter DEF LimiterSpec
<1>. QED BY <1>1, CapsHold, BInvHolds, ChargedWithinCaps, PTL DEF WithinCaps

-----------------------------------------------------------------------------
(* THE SERVICE (InvoiceService).                                           *)

\* The proofs about the door, of the service's door.
Porch == INSTANCE SocketDaemonProofs WITH Conn <- Worker, door <- "invoice", reply <- line,
                                          acted <- handled

LEMMA SameCount ==
  /\ \A S : Porch!Cardinality(S) = Cardinality(S)
  /\ Door!Cardinality(Door!Waiting) = Porch!Cardinality(Porch!Waiting)
<1>1. \A S : Porch!Cardinality(S) = Cardinality(S)
  BY DEF Porch!Cardinality, Cardinality
<1>2. Door!Cardinality(Door!Waiting) = Porch!Cardinality(Porch!Waiting)
  BY DEF Door!Cardinality, Porch!Cardinality, Door!Waiting, Porch!Waiting
<1>. QED BY <1>1, <1>2

\* The service's door is the one the proofs are about.
LEMMA ApartSame ==
  ASSUME NEW c \in Worker, AtTheDoor(c)
  PROVE  Porch!Apart(c)
<1>1. Door!Connect(c) => Porch!Connect(c)
  BY SameCount DEF Door!Connect, Porch!Connect, Door!Waiting, Porch!Waiting, Door!Request,
                   Porch!Request
<1>2. Door!SendPart(c) => Porch!SendPart(c)
  BY DEF Door!SendPart, Porch!SendPart, Door!Length, Porch!Length, Door!WholeBody,
         Porch!WholeBody, Door!WholeLine, Porch!WholeLine
<1>3. Door!Trickle(c) => Porch!Trickle(c)
  BY DEF Door!Trickle, Porch!Trickle, Door!PartOfText, Porch!PartOfText, Door!PartOfBody,
         Porch!PartOfBody
<1>4. Door!GiveUp(c) => Porch!GiveUp(c)
  BY DEF Door!GiveUp, Porch!GiveUp
<1>5. Door!ReadReply(c) => Porch!ReadReply(c)
  BY DEF Door!ReadReply, Porch!ReadReply
<1>6. Door!Admit(c) => Porch!Admit(c)
  BY DEF Door!Admit, Porch!Admit
<1>7. Door!Reject(c) => Porch!Reject(c)
  BY DEF Door!Reject, Porch!Reject
<1>8. Door!TimePasses(c) => Porch!TimePasses(c)
  BY DEF Door!TimePasses, Porch!TimePasses, Door!InTime, Porch!InTime, Door!Reading,
         Porch!Reading
<1>9. Door!Identify(c) => Porch!Identify(c)
  BY DEF Door!Identify, Porch!Identify, Door!Refuse, Porch!Refuse, Door!Finish, Porch!Finish,
         Door!Moves, Porch!Moves
<1>10. Door!ReadHeader(c) => Porch!ReadHeader(c)
  BY DEF Door!ReadHeader, Porch!ReadHeader, Door!InTime, Porch!InTime, Door!Moves,
         Porch!Moves, Door!Parsed, Porch!Parsed, Door!Refuse, Porch!Refuse, Door!Finish,
         Porch!Finish, Door!WholeLine, Porch!WholeLine
<1>11. Door!HeaderEnds(c) => Porch!HeaderEnds(c)
  BY DEF Door!HeaderEnds, Porch!HeaderEnds, Door!InTime, Porch!InTime, Door!Moves,
         Porch!Moves, Door!Parsed, Porch!Parsed, Door!Refuse, Porch!Refuse, Door!Finish,
         Porch!Finish, Door!WholeText, Porch!WholeText, Door!WholeLine, Porch!WholeLine, Door!Left,
         Porch!Left
<1>12. Door!ReadBody(c) => Porch!ReadBody(c)
  BY DEF Door!ReadBody, Porch!ReadBody, Door!InTime, Porch!InTime, Door!ReceiveBody,
         Porch!ReceiveBody, Door!BodyEnds, Porch!BodyEnds, Door!Moves, Porch!Moves, Door!Refuse,
         Porch!Refuse, Door!Finish, Porch!Finish, Door!WholeBody, Porch!WholeBody, Door!Left,
         Porch!Left
<1>13. Door!Deadline(c) => Porch!Deadline(c)
  BY DEF Door!Deadline, Porch!Deadline, Door!InTime, Porch!InTime, Door!Reading,
         Porch!Reading, Door!Refuse, Porch!Refuse, Door!Finish, Porch!Finish
<1>14. Door!Answer(c) => Porch!Answer(c)
  BY DEF Door!Answer, Porch!Answer, Door!Finish, Porch!Finish
<1>15. Door!Raises(c) => Porch!Raises(c)
  BY DEF Door!Raises, Porch!Raises, Door!Working, Porch!Working, Door!Reading, Porch!Reading,
         Door!Finish, Porch!Finish
<1>. QED
  BY <1>1, <1>2, <1>3, <1>4, <1>5, <1>6, <1>7, <1>8, <1>9, <1>10, <1>11, <1>12, <1>13, <1>14,
     <1>15
     DEF AtTheDoor, Door!InvoiceCall, Door!InvoiceAcceptLoop, Porch!Apart


LEMMA DoorSame ==
  /\ Door!DoorInit => Porch!DoorInit
  /\ \A c \in Worker : Porch!Apart(c) => Porch!DoorNext
  /\ \A c \in Worker : Door!Handle(c) \/ Door!Raises(c) => Porch!DoorNext
  /\ Door!EndOfProcess \/ Door!StartAgain => Porch!DoorNext
  /\ UNCHANGED <<doorSide, up>> => UNCHANGED Porch!doorVars
<1>1. Door!DoorInit => Porch!DoorInit
  BY DEF Door!DoorInit, Porch!DoorInit
<1>2. UNCHANGED <<doorSide, up>> => UNCHANGED Porch!doorVars
  BY DEF doorSide, Porch!doorVars
<1>3. Door!EndOfProcess \/ Door!StartAgain => Porch!DoorNext
  BY DEF Door!EndOfProcess, Porch!EndOfProcess, Door!StartAgain, Porch!StartAgain, Porch!DoorNext
<1>4. ASSUME NEW c \in Worker, Door!Handle(c) PROVE Porch!DoorNext
  <2>1. Porch!Handle(c)
    BY <1>4 DEF Door!Handle, Porch!Handle, Door!Moves, Porch!Moves
  <2>. QED BY <2>1 DEF Porch!DoorNext, Porch!DaemonStep, Porch!InvoiceHandleConnection
<1>6. ASSUME NEW c \in Worker, Door!Raises(c) PROVE Porch!DoorNext
  <2>1. Porch!Raises(c)
    BY <1>6 DEF Door!Raises, Porch!Raises, Door!Working, Porch!Working, Door!Reading,
                Porch!Reading, Door!Finish, Porch!Finish
  <2>. QED BY <2>1 DEF Porch!DoorNext
<1>5. ASSUME NEW c \in Worker, Porch!Apart(c) PROVE Porch!DoorNext
  BY <1>5 DEF Porch!Apart, Porch!DoorNext, Porch!DaemonStep, Porch!InvoiceHandleConnection,
              Porch!InvoiceAcceptLoop, Porch!InvoiceCall
<1>. QED BY <1>1, <1>2, <1>3, <1>4, <1>5, <1>6

\* Every step of the service is a step of the broker or none, and a step of
\* the door or none.
LEMMA ServiceStepsAreSteps ==
  ASSUME [ServiceNext]_serviceVars
  PROVE  [BrokerNext]_brokerVars /\ [Porch!DoorNext]_Porch!doorVars
<1>1. ASSUME NEW c \in Worker, AtTheDoor(c)
      PROVE  UNCHANGED brokerVars /\ Porch!DoorNext
  BY <1>1, ApartSame, DoorSame DEF AtTheDoor
<1>2. ASSUME NEW c \in Worker, Begin(c) \/ GoesOn(c) \/ GetsReservation(c)
      PROVE  BrokerNext /\ UNCHANGED Porch!doorVars
  <2>1. WorkerStep(c)
    BY <1>2 DEF Begin, GoesOn, GetsReservation, WorkerStep, Exchanges
  <2>2. UNCHANGED doorSide /\ up' = up
    BY <1>2 DEF Begin, GoesOn, GetsReservation, Accept, Label, Prepare, ReapFirst, ReadEpoch, Send,
                Resend, GoToS3, Reserve, Admit, vars
  <2>. QED BY <2>1, <2>2, DoorSame DEF BrokerNext
<1>3. ASSUME NEW c \in Worker, TurnedAway(c) \/ OverTheCap(c) \/ Raises(c) \/ Executed(c)
      PROVE  [BrokerNext]_brokerVars /\ Porch!DoorNext
  <2>1. Porch!DoorNext
    BY <1>3, DoorSame DEF TurnedAway, OverTheCap, Raises, Executed, Returns, FallsThrough
  <2>2. UNCHANGED brokerVars \/ WorkerStep(c)
    BY <1>3 DEF TurnedAway, OverTheCap, Raises, Executed, WorkerStep, Exchanges
  <2>. QED BY <2>1, <2>2 DEF BrokerNext
<1>4. CASE ProcessEnds \/ ProcessStarts
  BY <1>4, DoorSame DEF ProcessEnds, ProcessStarts, BrokerNext, Environment
<1>5. CASE Outside
  <2>1. Environment
    BY <1>5 DEF Outside, Environment
  <2>2. UNCHANGED doorSide /\ up' = up
    BY <1>5 DEF Outside, ClockMoves, Serve, vars
  <2>. QED BY <2>1, <2>2, DoorSame DEF BrokerNext
<1>6. CASE UNCHANGED serviceVars
  BY <1>6, DoorSame DEF serviceVars, brokerVars, vars
<1>. QED BY <1>1, <1>2, <1>3, <1>4, <1>5, <1>6 DEF ServiceNext, Works

-----------------------------------------------------------------------------
(* How a connection, its request's row and its answer hang together.       *)

Link(c) ==
  /\ task[c].phase # "idle" => InHandle(c)
  /\ server[c] \in Porch!Early \/ InHandle(c) => answer[c] = "none"
  /\ server[c] \in Porch!Early => rowOf[c] = 0
  /\ InHandle(c) /\ c \notin Holding => rowOf[c] = 0
  /\ c \in Holding => rowOf[c] = Row(c)
  /\ rowOf[c] # 0 => rowOf[c] \in DOMAIN calls
  /\ handled[c] # 0 <=> answer[c] # "none"
  /\ line[c] = "refused" => rowOf[c] = 0
  /\ answer[c] = "denied" => rowOf[c] = 0
  /\ answer[c] # "none" /\ rowOf[c] # 0 => answer[c] = reply[rowOf[c]]

\* No two requests share a row.
OwnRows == \A c, d \in Worker : rowOf[c] # 0 /\ rowOf[c] = rowOf[d] => c = d

Links ==
  /\ rowOf \in [Worker -> Nat]
  /\ answer \in [Worker -> Answers]
  /\ \A c \in Worker : Link(c)
  /\ OwnRows

\* The inductive invariant of the service.
SInv == BInv /\ Porch!DoorInv /\ Links

\* What the parts of the invariant say of the types.
LEMMA ServiceTypes ==
  ASSUME SInv
  PROVE  /\ calls \in Seq(Call) /\ task \in [Worker -> Task] /\ reply \in [RowId -> Replies]
         /\ server \in [Worker -> Porch!Working \cup {"none", "backlog", "gone"}]
         /\ line \in [Worker -> Porch!Lines]
         /\ handled \in [Worker -> Nat]
         /\ DOMAIN calls \subseteq RowId
         /\ DOMAIN calls = 1 .. Len(calls) /\ Len(calls) \in Nat
BY Rows, LimiterAssumption DEF SInv, BInv, Types, BrokerTypeOK, TypeOK, Porch!DoorInv, Porch!DoorShape, RowId

LEMMA LinksStart == ServiceInit => Links
<1> SUFFICES ASSUME ServiceInit PROVE Links
  OBVIOUS
<1>1. /\ task = [w \in Worker |-> NoTask] /\ NoTask.phase = "idle" /\ calls = <<>>
  BY NoTaskType DEF ServiceInit, BrokerInit, Init
<1>2. /\ server = [c \in Worker |-> "none"] /\ line = [c \in Worker |-> "none"]
      /\ handled = [c \in Worker |-> 0]
  BY DEF ServiceInit, Door!DoorInit
<1>. QED
  BY <1>1, <1>2 DEF ServiceInit, Links, Link, OwnRows, Holding, InHandle, Answers, Replies

\* A connection to which nothing happens but what others do.
LEMMA LinkStays ==
  ASSUME SInv, NEW d \in Worker, Len(calls) \in Nat,
         DOMAIN calls \subseteq DOMAIN calls',
         task'[d] = task[d], server'[d] = server[d], line'[d] = line[d], handled'[d] = handled[d],
         rowOf'[d] = rowOf[d], answer'[d] = answer[d],
         rowOf[d] # 0 => reply'[rowOf[d]] = reply[rowOf[d]]
  PROVE  Link(d)'
BY DEF SInv, Links, Link, InHandle, Holding, Row

LEMMA LinksAtTheDoor ==
  ASSUME SInv, NEW c \in Worker, AtTheDoor(c)
  PROVE  Links'
<1>1. UNCHANGED <<calls, task, reply, rowOf, answer>>
  BY DEF AtTheDoor, brokerVars, vars, netVars
<1>2. ASSUME NEW d \in Worker PROVE Link(d)'
  <2>1. Porch!DoorInv /\ Porch!Apart(c) /\ Link(d)
    BY ApartSame DEF SInv, Links
  <2>2. Porch!OneWay(d)
    BY <2>1, Porch!ApartIsOneWay, ServiceAssumption
  <2>. QED BY <1>1, <2>1, <2>2 DEF Porch!OneWay, Porch!Early, Link, InHandle, Holding, Row
<1>. QED BY <1>1, <1>2 DEF SInv, Links, OwnRows

\* The worker of a connection goes on with its request.
LEMMA LinksGoOn ==
  ASSUME SInv, NEW c \in Worker, Begin(c) \/ GoesOn(c)
  PROVE  Links'
<1>0. Link(c) /\ \A d \in Worker : Link(d)
  BY DEF SInv, Links
<1>1. UNCHANGED <<server, line, handled, rowOf, answer, reply>>
  BY DEF Begin, GoesOn, Accept, Prepare, Send, Resend, GoToS3, doorSide, netVars
<1>2. DOMAIN calls' = DOMAIN calls
  <2>1. calls' = calls \/ calls' = Reaped
    BY DEF Begin, GoesOn, Accept, Prepare, Label, ReapFirst, ReadEpoch, Send, Resend, GoToS3, vars
  <2>. QED BY <2>1, ServiceTypes, ReapedFacts
<1>3. /\ InHandle(c)
      /\ \A d \in Worker : d # c => task'[d] = task[d]
      /\ \/ task'[c] = task[c]
         \/ c \notin Holding /\ task'[c].phase # "holding"
  <2>1. CASE Begin(c)
    <3>1. PICK k : Label(c, k)
      BY <2>1 DEF Begin, Accept
    <3>. QED BY <2>1, <3>1, ServiceTypes, NoTaskType DEF Begin, Label, Holding, Task
  <2>2. CASE ReapFirst(c) \/ ReadEpoch(c)
    BY <1>0, <2>2, ServiceTypes DEF ReapFirst, ReadEpoch, Link, Holding, Task
  <2>3. CASE Send(c) \/ Resend(c) \/ GoToS3(c)
    <3>1. task' = task /\ c \in Holding
      <4>1. net[c].stage # "off" <=> c \in Holding
        BY DEF SInv, BInv, Types, BrokerTypeOK
      <4>. QED BY <2>3, <4>1 DEF Send, Resend, GoToS3, vars, Holding
    <3>. QED BY <1>0, <3>1 DEF Link, Holding
  <2>. QED BY <2>1, <2>2, <2>3 DEF GoesOn, Prepare
<1>4. ASSUME NEW d \in Worker, d # c \/ task'[c] = task[c] PROVE Link(d)'
  BY <1>1, <1>2, <1>3, <1>4, LinkStays, ServiceTypes
<1>5. ASSUME c \notin Holding, task'[c].phase # "holding" PROVE Link(c)'
  BY <1>0, <1>1, <1>2, <1>3, <1>5 DEF Link, InHandle, Holding, Row
<1>. QED BY <1>1, <1>3, <1>4, <1>5 DEF SInv, Links, OwnRows

LEMMA LinksReserve ==
  ASSUME SInv, NEW c \in Worker, GetsReservation(c)
  PROVE  Links'
<1>0. Link(c) /\ (\A d \in Worker : Link(d)) /\ rowOf \in [Worker -> Nat]
  BY DEF SInv, Links
<1>1. UNCHANGED <<server, line, handled, answer, reply>>
  BY DEF GetsReservation, Reserve, doorSide
<1>2. /\ c \notin Holding /\ InHandle(c) /\ rowOf[c] = 0
      /\ task'[c].phase = "holding" /\ task'[c].row = Len(calls) + 1
      /\ \A d \in Worker : d # c => task'[d] = task[d]
  BY <1>0, ServiceTypes, NoTaskType
     DEF GetsReservation, Reserve, Admit, Holding, Link, Task
<1>3. DOMAIN calls \subseteq DOMAIN calls' /\ Len(calls) + 1 \in DOMAIN calls'
      /\ Len(calls) + 1 \notin DOMAIN calls /\ Len(calls) + 1 # 0
  <2>1. \E r : calls' = Append(calls, r)
    BY DEF GetsReservation, Reserve, Admit
  <2>. QED BY <2>1, ServiceTypes
<1>4. rowOf' = [rowOf EXCEPT ![c] = Len(calls) + 1]
  BY <1>2 DEF GetsReservation, Row
<1>5. Link(c)'
  <2>1. rowOf'[c] = Len(calls) + 1 /\ server'[c] = "handling" /\ answer'[c] = "none"
        /\ handled'[c] = 0 /\ line'[c] = line[c]
    BY <1>0, <1>1, <1>2, <1>4 DEF Link, InHandle
  <2>2. line[c] # "refused"
    BY <1>2 DEF SInv, Porch!DoorInv, Porch!Story, InHandle
  <2>. QED BY <1>2, <1>3, <2>1, <2>2 DEF Link, InHandle, Holding, Row, Porch!Early
<1>6. ASSUME NEW d \in Worker, d # c PROVE Link(d)'
  BY <1>0, <1>1, <1>2, <1>3, <1>4, <1>6, LinkStays, ServiceTypes
<1>7. OwnRows'
  BY <1>0, <1>2, <1>3, <1>4 DEF OwnRows, Link, SInv, Links
<1>8. rowOf' \in [Worker -> Nat]
  BY <1>0, <1>4, ServiceTypes
<1>. QED BY <1>1, <1>5, <1>6, <1>7, <1>8 DEF SInv, Links

\* handle returns: with a denial before a reservation, afterwards with what
\* the caller of the row is told.
LEMMA LinksReturn ==
  ASSUME SInv, NEW c \in Worker, NEW word \in Answers \ {"none"}, Returns(c, word),
         DOMAIN calls' = DOMAIN calls,
         task'[c].phase = "idle",
         word = "denied" => rowOf[c] = 0,
         rowOf[c] # 0 => word = reply'[rowOf[c]],
         \A d \in Worker \ {c} : /\ task'[d] = task[d]
                                 /\ rowOf[d] # 0 => reply'[rowOf[d]] = reply[rowOf[d]]
  PROVE  Links'
<1>0. Link(c) /\ answer \in [Worker -> Answers]
  BY DEF SInv, Links
<1>1. /\ server[c] = "handling" /\ server' = [server EXCEPT ![c] = "acted"]
      /\ handled' = [handled EXCEPT ![c] = @ + 1]
      /\ answer' = [answer EXCEPT ![c] = word]
      /\ UNCHANGED <<line, rowOf>>
  BY DEF Returns, Door!Handle, Door!Moves
<1>2. Link(c)'
  BY <1>0, <1>1, ServiceTypes DEF Link, InHandle, Holding, Row, Porch!Early
<1>3. ASSUME NEW d \in Worker, d # c PROVE Link(d)'
  BY <1>0, <1>1, <1>3, LinkStays, ServiceTypes
<1>. QED BY <1>0, <1>1, <1>2, <1>3 DEF SInv, Links, OwnRows

\* handle raises once its call is over: no answer, and the row is as it was.
LEMMA LinksFallThrough ==
  ASSUME SInv, NEW c \in Worker, FallsThrough(c),
         DOMAIN calls' = DOMAIN calls,
         task'[c].phase = "idle",
         \A d \in Worker \ {c} : /\ task'[d] = task[d]
                                 /\ rowOf[d] # 0 => reply'[rowOf[d]] = reply[rowOf[d]]
  PROVE  Links'
<1>0. Link(c) /\ answer \in [Worker -> Answers]
  BY DEF SInv, Links
<1>1. /\ server[c] = "handling" /\ server' = [server EXCEPT ![c] = "gone"]
      /\ line' = [line EXCEPT ![c] = "internal_error"]
      /\ UNCHANGED <<handled, rowOf, answer>>
  BY DEF FallsThrough, InHandle, Door!Raises, Door!Finish
<1>2. Link(c)'
  BY <1>0, <1>1, ServiceTypes DEF Link, InHandle, Holding, Row, Porch!Early
<1>3. ASSUME NEW d \in Worker, d # c PROVE Link(d)'
  BY <1>0, <1>1, <1>3, LinkStays, ServiceTypes
<1>. QED BY <1>0, <1>1, <1>2, <1>3 DEF SInv, Links, OwnRows

\* However an exchange is concluded, the row and the answer get a word.
LEMMA EveryConclusion ==
  ASSUME NEW c \in Worker, (\E s : Failed(c, s)) \/ Conclude(c, "committed", "ok")
  PROVE  \E s \in FinalStatus, a \in Replies \ {"none"} : Conclude(c, s, a)
<1>1. CASE Conclude(c, "committed", "ok")
  BY <1>1 DEF FinalStatus, Replies
<1>2. ASSUME NEW s, Failed(c, s)
      PROVE  \E t \in FinalStatus, a \in Replies \ {"none"} : Conclude(c, t, a)
  <2>1. CASE Ambiguous(s)
    BY <1>2, <2>1 DEF Failed, FinalStatus, Replies
  <2>2. CASE ~Ambiguous(s)
    BY <1>2, <2>2 DEF Failed, FinalStatus, Replies
  <2>. QED BY <2>1, <2>2
<1>. QED BY <1>1, <1>2

LEMMA LinksEndOfCall ==
  ASSUME SInv, NEW c \in Worker, TurnedAway(c) \/ OverTheCap(c) \/ Raises(c) \/ Executed(c)
  PROVE  Links'
<1>0. Link(c) /\ (\A d \in Worker : Link(d)) /\ OwnRows
  BY DEF SInv, Links
<1>1. CASE TurnedAway(c)
  <2>1. UNCHANGED <<calls, task, reply>> /\ c \notin Holding
    BY <1>1 DEF TurnedAway, brokerVars, vars, netVars, Holding
  <2>2. CASE FallsThrough(c)
    BY <2>1, <2>2, ServiceTypes, LinksFallThrough, <1>1 DEF TurnedAway
  <2>3. ASSUME NEW word \in {"denied", "internal_error"}, Returns(c, word) PROVE Links'
    <3>1. word \in Answers \ {"none"} /\ rowOf[c] = 0
      BY <1>0, <2>1, <2>3 DEF Returns, Door!Handle, Link, InHandle, Answers, Replies
    <3>. QED BY <1>1, <2>1, <2>3, <3>1, ServiceTypes, LinksReturn DEF TurnedAway
  <2>. QED BY <1>1, <2>2, <2>3 DEF TurnedAway
<1>2. CASE OverTheCap(c)
  <2>1. UNCHANGED <<calls, reply>> /\ c \notin Holding /\ task' = [task EXCEPT ![c] = NoTask]
    BY <1>2 DEF OverTheCap, Refuse, Deny, Holding
  <2>. QED BY <1>0, <1>2, <2>1, ServiceTypes, NoTaskType, LinksReturn
           DEF OverTheCap, Returns, Door!Handle, Link, InHandle, Answers
<1>3. CASE Raises(c)
  <2>1. /\ calls' = calls /\ task' = [task EXCEPT ![c] = NoTask]
        /\ reply' = IF c \in Holding THEN [reply EXCEPT ![Row(c)] = "internal_error"] ELSE reply
    BY <1>3 DEF Raises, Escape, Abandon
  <2>2. CASE c \in Holding
    <3>1. rowOf[c] = Row(c) /\ rowOf[c] \in RowId /\ reply' = [reply EXCEPT ![rowOf[c]] = "internal_error"]
      BY <1>0, <2>1, <2>2, HolderHasRow DEF Link, SInv, BInv
    <3>2. \A d \in Worker \ {c} : rowOf[d] # 0 => rowOf[d] # rowOf[c]
      BY <1>0 DEF OwnRows
    <3>3. CASE FallsThrough(c)
      <4>1. /\ DOMAIN calls' = DOMAIN calls /\ task'[c].phase = "idle"
            /\ \A d \in Worker \ {c} : task'[d] = task[d]
        BY <2>1, ServiceTypes, NoTaskType
      <4>2. \A d \in Worker \ {c} : rowOf[d] # 0 => reply'[rowOf[d]] = reply[rowOf[d]]
        BY <3>1, <3>2, ServiceTypes
      <4>. QED BY <3>3, <4>1, <4>2, LinksFallThrough
    <3>4. CASE Returns(c, "internal_error")
      BY <2>1, <3>1, <3>2, <3>4, ServiceTypes, NoTaskType, LinksReturn DEF Answers, Replies
    <3>. QED BY <1>3, <3>3, <3>4 DEF Raises
  <2>3. CASE c \notin Holding
    <3>1. CASE FallsThrough(c)
      BY <2>1, <2>3, <3>1, ServiceTypes, NoTaskType, LinksFallThrough
    <3>2. CASE Returns(c, "internal_error")
      <4>1. rowOf[c] = 0
        BY <1>0, <2>3, <3>2 DEF Link, InHandle, Returns, Door!Handle
      <4>. QED BY <2>1, <2>3, <3>2, <4>1, ServiceTypes, NoTaskType, LinksReturn
               DEF Answers, Replies
    <3>. QED BY <1>3, <3>1, <3>2 DEF Raises
  <2>. QED BY <2>2, <2>3
<1>4. CASE Executed(c)
  <2>1. PICK s \in FinalStatus, a \in Replies \ {"none"} : Conclude(c, s, a)
    <3>1. (\E s : Failed(c, s)) \/ Conclude(c, "committed", "ok")
      BY <1>4 DEF Executed, CannotSend, TimeOut, MalformedUrl, Succeed, GiveUp
    <3>. QED BY <3>1, EveryConclusion
  <2>2. Finalize(c, s) /\ c \in Holding /\ task' = [task EXCEPT ![c] = NoTask]
    BY <2>1, ServiceTypes DEF Conclude, Finalize, Holding
  <2>3. rowOf[c] = Row(c) /\ rowOf[c] \in RowId
    BY <1>0, <2>2, HolderHasRow DEF Link, SInv, BInv
  <2>4. PICK r \in {a, "internal_error"} : reply' = [reply EXCEPT ![rowOf[c]] = r]
    BY <2>1, <2>3 DEF Conclude
  <2>5. r \in Answers \ {"none", "denied"} /\ Returns(c, r)
    BY <1>4, <2>1, <2>3, <2>4, ServiceTypes DEF Executed, Answers, Replies
  <2>6. DOMAIN calls' = DOMAIN calls
    BY <2>2, FinalizeFacts DEF SInv, BInv
  <2>7. \A d \in Worker \ {c} : rowOf[d] # 0 => rowOf[d] # rowOf[c]
    BY <1>0 DEF OwnRows
  <2>. QED BY <2>2, <2>3, <2>4, <2>5, <2>6, <2>7, ServiceTypes, NoTaskType, LinksReturn
<1>. QED BY <1>1, <1>2, <1>3, <1>4

\* The process ends or starts, or something happens outside.
LEMMA LinksOutside ==
  ASSUME SInv, ProcessEnds \/ ProcessStarts \/ Outside \/ UNCHANGED serviceVars
  PROVE  Links'
<1>0. \A d \in Worker : Link(d)
  BY DEF SInv, Links
<1>1. /\ UNCHANGED <<line, handled, rowOf, answer, reply>>
      /\ DOMAIN calls' = DOMAIN calls
  <2>1. UNCHANGED <<line, handled, rowOf, answer, reply>> /\ (calls' = calls \/ calls' = Reaped)
    BY DEF ProcessEnds, ProcessStarts, Outside, Die, Crash, ComeBack, Restart, ClockMoves, Serve,
           Door!EndOfProcess, Door!StartAgain, serviceVars, doorSide, brokerVars, vars, netVars
  <2>. QED BY <2>1, ServiceTypes, ReapedFacts
<1>2. CASE ProcessEnds
  <2>1. /\ task' = [w \in Worker |-> NoTask]
        /\ server' = [c \in Worker |-> IF server[c] = "none" THEN "none" ELSE "gone"]
    BY <1>2 DEF ProcessEnds, Die, Crash, Door!EndOfProcess
  <2>2. ASSUME NEW d \in Worker PROVE Link(d)'
    BY <1>0, <1>1, <2>1, NoTaskType DEF Link, InHandle, Holding, Row, Porch!Early
  <2>. QED BY <1>1, <2>2 DEF SInv, Links, OwnRows
<1>3. CASE ProcessStarts \/ Outside \/ UNCHANGED serviceVars
  <2>1. UNCHANGED <<task, server>>
    BY <1>3 DEF ProcessStarts, Outside, ComeBack, Restart, ClockMoves, Serve,
           Door!StartAgain, serviceVars, doorSide, brokerVars, vars, netVars
  <2>2. ASSUME NEW d \in Worker PROVE Link(d)'
    BY <1>1, <2>1, LinkStays, ServiceTypes
  <2>. QED BY <1>1, <2>2 DEF SInv, Links, OwnRows
<1>. QED BY <1>2, <1>3

LEMMA InitSInv == ServiceInit => SInv
BY LinksStart, InitBInv, DoorSame, Porch!DoorStarts, ServiceAssumption DEF ServiceInit, SInv

LEMMA StepSInv == SInv /\ [ServiceNext]_serviceVars => SInv'
<1> SUFFICES ASSUME SInv, [ServiceNext]_serviceVars PROVE SInv'
  OBVIOUS
<1>1. BInv' /\ Porch!DoorInv'
  BY ServiceStepsAreSteps, StepBInv, Porch!DoorStep, ServiceAssumption DEF SInv
<1>2. Links'
  BY LinksAtTheDoor, LinksGoOn, LinksReserve, LinksEndOfCall, LinksOutside
     DEF ServiceNext, Works
<1>. QED BY <1>1, <1>2 DEF SInv

-----------------------------------------------------------------------------
(* The service implements the promise.                                     *)

\* What a client was told is true, and stays so: nothing that was refused can
\* still take effect.
Truth(c) ==
  /\ Learnt(c) = "done" => Performed(c) = 1
  /\ Learnt(c) = "refused" => Performed(c) = 0 /\ (OneShot(c) => ~InFlight(rowOf[c]))

LEMMA ToldTheTruth == SInv => \A c \in Worker : Truth(c)
<1> SUFFICES ASSUME SInv, NEW c \in Worker PROVE Truth(c)
  OBVIOUS
<1>0. Link(c) /\ Porch!Story(c)
  BY DEF SInv, Links, Porch!DoorInv
<1>1. OneShot(c) => /\ OneShotRow(rowOf[c]) /\ effects[rowOf[c]] \in Nat
                    /\ answer[c] # "none" => answer[c] = reply[rowOf[c]]
  BY <1>0, ServiceTypes DEF OneShot, Link, SInv, BInv, Agreement, Types, BrokerTypeOK
<1>2. Learnt(c) = "done" => OneShot(c) /\ answer[c] = "ok"
  BY DEF Learnt, Means, Door!Heard
<1>3. Learnt(c) = "refused" => \/ OneShot(c) /\ answer[c] = "upstream_failed_clean"
                               \/ answer[c] = "denied"
                               \/ client[c] \in {"unconnected", "refused"}
  BY DEF Learnt, Means, Door!Heard
<1>4. answer[c] = "denied" \/ client[c] \in {"unconnected", "refused"} => ~OneShot(c)
  BY <1>0 DEF Link, OneShot, Porch!Story, Porch!Early
<1>. QED BY <1>1, <1>2, <1>3, <1>4 DEF Truth, Performed, OneShotRow

\* What no step undoes, and that only GreenInvoice makes an effect.
LEMMA RowsStay ==
  ASSUME SInv, [ServiceNext]_serviceVars, NEW d \in Worker
  PROVE  /\ ~InHandle(d) => rowOf'[d] = rowOf[d] /\ answer'[d] = answer[d]
         /\ rowOf[d] # 0 => rowOf'[d] = rowOf[d] /\ opOf'[rowOf[d]] = opOf[rowOf[d]]
         /\ rowOf'[d] # rowOf[d] => effects[rowOf'[d]] = 0
         /\ effects' = effects \/ Outside
<1>0. (\A c \in Worker : Link(c)) /\ rowOf \in [Worker -> Nat] /\ answer \in [Worker -> Answers]
  BY DEF SInv, Links
<1>1. ASSUME NEW c \in Worker, GetsReservation(c)
      PROVE  /\ ~InHandle(d) => rowOf'[d] = rowOf[d] /\ answer'[d] = answer[d]
             /\ rowOf[d] # 0 => rowOf'[d] = rowOf[d] /\ opOf'[rowOf[d]] = opOf[rowOf[d]]
             /\ rowOf'[d] # rowOf[d] => effects[rowOf'[d]] = 0
             /\ effects' = effects
  <2>1. /\ c \notin Holding /\ task'[c].row = Len(calls) + 1 /\ Len(calls) + 1 <= MaxCalls
        /\ task[c].phase # "idle"
    BY <1>1, AdmitGives DEF GetsReservation, Reserve, Admit, SInv, BInv
  <2>2. InHandle(c) /\ rowOf[c] = 0 /\ rowOf' = [rowOf EXCEPT ![c] = Len(calls) + 1]
    BY <1>0, <1>1, <2>1 DEF Link, GetsReservation, Row
  <2>3. opOf' = [opOf EXCEPT ![Len(calls) + 1] = net[c].op] /\ UNCHANGED <<answer, effects>>
    BY <1>1, <2>1 DEF GetsReservation, Reserve, Row
  <2>4. Len(calls) + 1 \in RowId /\ Len(calls) + 1 \notin DOMAIN calls
    BY <2>1, ServiceTypes DEF RowId
  <2>5. effects[Len(calls) + 1] = 0
    BY <2>4 DEF SInv, BInv, Agreement, FreshRows
  <2>6. rowOf[d] # 0 => rowOf[d] \in DOMAIN calls
    BY <1>0 DEF Link
  <2>. QED BY <1>0, <2>2, <2>3, <2>4, <2>5, <2>6
<1>2. ASSUME NEW c \in Worker, Begin(c) \/ GoesOn(c)
      PROVE  UNCHANGED <<rowOf, answer, opOf, effects>>
  BY <1>2 DEF Begin, GoesOn, Accept, Prepare, netVars, Send, Resend, GoToS3
<1>3. ASSUME NEW c \in Worker, TurnedAway(c) \/ OverTheCap(c) \/ Raises(c) \/ Executed(c)
      PROVE  UNCHANGED <<rowOf, opOf, effects>> /\ (~InHandle(d) => answer'[d] = answer[d])
  <2>1. UNCHANGED <<opOf, effects>>
    BY <1>3 DEF TurnedAway, OverTheCap, Raises, Executed, brokerVars, netVars, Refuse, Escape,
                CannotSend, TimeOut, MalformedUrl, Succeed, GiveUp, Failed, Conclude
  <2>2. /\ InHandle(c) /\ rowOf' = rowOf
        /\ answer' = answer \/ \E word : answer' = [answer EXCEPT ![c] = word]
    BY <1>3 DEF TurnedAway, OverTheCap, Raises, Executed, Returns, FallsThrough, Door!Handle,
                InHandle
  <2>. QED BY <1>0, <2>1, <2>2
<1>4. ASSUME NEW c \in Worker, AtTheDoor(c) PROVE UNCHANGED <<rowOf, answer, opOf, effects>>
  BY <1>4 DEF AtTheDoor, brokerVars, netVars
<1>5. CASE ProcessEnds \/ ProcessStarts \/ UNCHANGED serviceVars
  BY <1>5 DEF ProcessEnds, ProcessStarts, Die, ComeBack, serviceVars, brokerVars, netVars
<1>6. CASE Outside
  BY <1>6 DEF Outside, Serve, netVars
<1>. QED BY <1>1, <1>2, <1>3, <1>4, <1>5, <1>6 DEF ServiceNext, Works

\* GreenInvoice handles a request that was on the wire: one client's request
\* takes effect, whom nobody has told that it did or did not.
LEMMA ServingIsActing ==
  ASSUME SInv, Outside, effects' # effects
  PROVE  [Promise!Next]_<<[c \in Worker |-> Performed(c)], [c \in Worker |-> Learnt(c)]>>
<1>1. PICK q \in wire, s \in HttpStatus : /\ MayTakeEffect(q[1], q[2], s)
                                          /\ effects' = [effects EXCEPT ![q[1]] = @ + 1]
                                          /\ opOf' = opOf
  BY DEF Outside, Serve, netVars
<1>2. UNCHANGED <<client, rowOf, answer, opOf>>
  BY <1>1 DEF Outside, doorSide
<1>3. [c \in Worker |-> Learnt(c)]' = [c \in Worker |-> Learnt(c)]
  BY <1>2 DEF Learnt, Means, OneShot, Door!Heard
<1>4. q[1] \in RowId /\ effects \in [RowId -> Nat] /\ InFlight(q[1])
  BY <1>1 DEF SInv, BInv, Types, BrokerTypeOK, MayTakeEffect, InFlight
<1>5. \A d \in Worker : OneShot(d)' = OneShot(d)
  BY <1>2 DEF OneShot
<1>6. ASSUME NEW d \in Worker, rowOf[d] # q[1] PROVE Performed(d)' = Performed(d)
  BY <1>1, <1>2, <1>4, <1>5, <1>6 DEF Performed
<1>7. ASSUME NEW c \in Worker, rowOf[c] = q[1], OneShot(c)
      PROVE  /\ Performed(c)' = 1 /\ Performed(c) = 0 /\ Learnt(c) \in {"nothing", "unknown"}
             /\ \A d \in Worker \ {c} : Performed(d)' = Performed(d)
  <2>1. OneShotRow(rowOf[c])
    BY <1>7 DEF OneShot, SInv, Links, Link, BInv, Agreement
  <2>2. Performed(c)' = 1 /\ Performed(c) = 0
    BY <1>1, <1>2, <1>4, <1>5, <1>7, <2>1 DEF Performed, OneShotRow
  <2>3. Learnt(c) \in {"nothing", "unknown"}
    BY <1>4, <1>7, <2>2, ToldTheTruth DEF Truth, Learnt, Means, Door!Heard
  <2>4. \A d \in Worker \ {c} : rowOf[d] # q[1]
    BY <1>7 DEF SInv, Links, OwnRows, OneShot
  <2>. QED BY <1>6, <2>2, <2>3, <2>4
<1>8. CASE \E c \in Worker : rowOf[c] = q[1] /\ OneShot(c)
  BY <1>3, <1>7, <1>8 DEF Promise!Next, Promise!Act
<1>9. CASE \A c \in Worker : rowOf[c] = q[1] => ~OneShot(c)
  <2>1. \A d \in Worker : Performed(d)' = Performed(d)
    BY <1>5, <1>6, <1>9 DEF Performed
  <2>. QED BY <1>3, <2>1
<1>. QED BY <1>8, <1>9

LEMMA OtherStepsTell ==
  ASSUME SInv, SInv', [ServiceNext]_serviceVars, effects' = effects
  PROVE  Promise!Next
<1>1. ASSUME NEW d \in Worker PROVE Performed(d)' = Performed(d)
  <2>1. CASE rowOf'[d] = rowOf[d]
    BY <2>1, RowsStay DEF Performed, OneShot
  <2>2. CASE rowOf'[d] # rowOf[d]
    BY <2>2, RowsStay DEF Performed, OneShot
  <2>. QED BY <2>1, <2>2
<1>2. ASSUME NEW d \in Worker, client[d] \in Porch!Left PROVE Learnt(d)' = Learnt(d)
  <2>1. client'[d] = client[d]
    <3>1. client \in [Worker -> Porch!Left \cup {"idle", "sending", "waiting"}]
      BY DEF SInv, Porch!DoorInv, Porch!DoorShape
    <3>. QED BY <1>2, <3>1, Porch!ToldOnce, ServiceStepsAreSteps, ServiceAssumption DEF SInv
  <2>2. CASE client[d] # "answer"
    BY <2>1, <2>2 DEF Learnt, Door!Heard
  <2>3. CASE client[d] = "answer"
    <3>1. server[d] = "gone"
      BY <2>3 DEF SInv, Porch!DoorInv, Porch!Story
    <3>2. rowOf'[d] = rowOf[d] /\ answer'[d] = answer[d]
          /\ (rowOf[d] # 0 => opOf'[rowOf[d]] = opOf[rowOf[d]])
      BY <3>1, RowsStay DEF InHandle
    <3>. QED BY <2>1, <2>3, <3>2 DEF Learnt, Means, OneShot
  <2>. QED BY <2>2, <2>3
<1>3. ASSUME NEW d \in Worker, Learnt(d)' # Learnt(d)
      PROVE  /\ Learnt(d) = "nothing"
             /\ Learnt(d)' = "done" => Performed(d) = 1
             /\ Learnt(d)' = "refused" => Performed(d) = 0
  <2>1. Learnt(d) = "nothing"
    BY <1>2, <1>3 DEF Learnt, Door!Heard, Porch!Left
  <2>2. (SInv => \A c \in Worker : Truth(c))'
    BY ToldTheTruth, PTL
  <2>. QED BY <1>1, <2>1, <2>2 DEF Truth
<1> DEFINE performed == [c \in Worker |-> Performed(c)]
           learnt == [c \in Worker |-> Learnt(c)]
<1>4. learnt' \in [Worker -> Promise!Word]
  BY DEF Learnt, Means, Door!Heard, Promise!Word
<1>5. performed' = performed
  BY <1>1
<1>6. \A c \in Worker : learnt'[c] # learnt[c] => Promise!MaySay(c, learnt'[c])
  BY <1>3 DEF Promise!MaySay
<1>. QED BY <1>4, <1>5, <1>6 DEF Promise!Next, Promise!Tell


LEMMA PromiseStarts == ServiceInit => Promise!Init
<1>1. ServiceInit => /\ \A c \in Worker : Performed(c) = 0
                     /\ \A c \in Worker : Learnt(c) = "nothing"
  BY DEF ServiceInit, Performed, OneShot, Learnt, Door!Heard, Door!DoorInit
<1>. QED BY <1>1 DEF Promise!Init

LEMMA PromiseStep ==
  SInv /\ SInv' /\ [ServiceNext]_serviceVars
    => [Promise!Next]_<<[c \in Worker |-> Performed(c)], [c \in Worker |-> Learnt(c)]>>
BY ServingIsActing, OtherStepsTell, RowsStay

\* The service keeps its clients' promise, from the socket to GreenInvoice,
\* with any number of clients, permits and retries: what a client reads is
\* true when it reads it and no late request makes it false.
THEOREM ServiceKeepsPromise == ServiceSpec => ServicePromised
BY InitSInv, StepSInv, PromiseStarts, PromiseStep, PTL
   DEF ServiceSpec, ServicePromised, Promise!Spec

\* Behind the door the operations run as InvoiceBroker says, each under the
\* permit of one connection: what is proved of the broker holds of the service.
THEOREM ServiceImplementsBroker == ServiceSpec => BrokerSpec
<1>1. ServiceInit => BrokerInit
  BY DEF ServiceInit
<1>2. [ServiceNext]_serviceVars => [BrokerNext]_brokerVars
  BY ServiceStepsAreSteps
<1>. QED BY <1>1, <1>2, PTL DEF ServiceSpec, BrokerSpec

\* In particular, whoever calls and however the connections end, what really
\* happened at GreenInvoice is charged and within the caps.
THEOREM ServiceWithinCaps == ServiceSpec => [](EffectCharged /\ EffectsWithinCaps)
BY ServiceImplementsBroker, NoFreeEffect, RealEffectsCapped, PTL

LEMMA SInvGivesPermits == SInv => HeldUnderPermit
<1> SUFFICES ASSUME SInv PROVE HeldUnderPermit
  OBVIOUS
<1>1. ASSUME NEW c \in Holding PROVE c \in Worker /\ InHandle(c) /\ rowOf[c] = Row(c)
  BY DEF SInv, Links, Link, Holding
<1>2. Holding \subseteq Porch!Workers
  BY <1>1 DEF InHandle, Porch!Workers, Porch!Working
<1>3. IsFiniteSet(Porch!Workers) /\ permits + Cardinality(Porch!Workers) = MAX_CONCURRENT
  BY SameCount DEF SInv, Porch!DoorInv, Porch!PermitsOut, Porch!IsFiniteSet, IsFiniteSet
<1>4. Cardinality(Holding) \in Nat /\ Cardinality(Porch!Workers) \in Nat
      /\ Cardinality(Holding) <= Cardinality(Porch!Workers)
  BY <1>2, <1>3, FS_Subset, FS_CardinalityType
<1>5. permits \in Nat /\ MAX_CONCURRENT \in Nat
  BY ServiceAssumption DEF SInv, Porch!DoorInv, Porch!DoorShape
<1>. QED BY <1>1, <1>3, <1>4, <1>5 DEF HeldUnderPermit

\* A reservation is held only by the worker of a connection, under its permit:
\* the calls under way at GreenInvoice are never more than MAX_CONCURRENT.
THEOREM ReservationsUnderPermits == ServiceSpec => []HeldUnderPermit
BY InitSInv, StepSInv, SInvGivesPermits, PTL DEF ServiceSpec
=============================================================================
