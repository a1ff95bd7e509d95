--------------------------- MODULE MailRelayProofs ---------------------------
(***************************************************************************)
(* What MailRelay does for any number of workers, recipients, mails,       *)
(* limits and edits of the allowlist, and however the clock moves.         *)
(***************************************************************************)
EXTENDS MailRelay, FiniteSetTheorems, TLAPS

-----------------------------------------------------------------------------
(* Types                                                                   *)

\* What a task is, from where it is.
LEMMA TaskAt ==
  ASSUME NEW t \in Task
  PROVE  /\ t.at = "label" => /\ t.to \in Recipient
                              /\ t.limit \in 1 .. MaxLimit
         /\ t.at \in {"reap", "insert"} =>
              t \in [at : {"reap", "insert"}, to : Recipient, limit : 1 .. MaxLimit, day : Day]
         /\ t.at \in {"connect", "wait", "count"} =>
              t \in [at : {"connect", "wait", "count"}, row : RowId]
         /\ t.at = "settle" =>
              t \in [at : {"settle"}, row : RowId,
                     status : {"sent", "failed_pre_send", "unknown_post_send"}]
  BY DEF Task, Idle

\* The parts of the invariant.
Shape ==
  /\ clock \in Instant
  /\ sends \in Seq(Row) /\ Len(sends) <= MaxSends
  /\ task \in [Worker -> Task]
  /\ wire \subseteq 1 .. Len(sends)
  /\ accepted \subseteq 1 .. Len(sends)
  /\ reply \in [RowId -> {"none", "ok", "pre_send", "post_send_unknown", "internal_error"}]

Listing ==
  /\ editions \in Seq(Edition) /\ Len(editions) <= MaxEdits
  /\ file \in {0, Len(editions)}
  /\ cache \in {0, served}
  /\ served \in 0 .. Len(editions)

\* A worker past the reservation has a row nobody else has.
Owned ==
  \A w \in Worker : task[w].at \in After =>
    /\ task[w].row \in 1 .. Len(sends)
    /\ \A v \in Worker \ {w} : task[v].at \in After => task[v].row # task[w].row

Out == wire \cup accepted

\* What a worker knows of its row.
Known ==
  \A w \in Worker :
    /\ task[w].at \in After => reply[task[w].row] = "none"
    /\ task[w].at \in {"connect", "wait", "settle"} =>
         sends[task[w].row].status \in {"reserved", "unknown_post_send"}
    /\ task[w].at = "connect" => task[w].row \notin Out
    /\ task[w].at = "settle" /\ task[w].status = "failed_pre_send" => task[w].row \notin Out
    /\ task[w].at = "settle" /\ task[w].status = "sent" => task[w].row \in accepted
    /\ task[w].at = "count" => task[w].row \in accepted

\* A reply is given once there is a row.
Replied == \A n \in RowId : reply[n] # "none" => n <= Len(sends)

Charged == \A n \in 1 .. Len(sends) : n \in Out => sends[n].status \in Counted

\* Every row was within its limit when it came, and so it is now.
InLimit ==
  \A n \in 1 .. Len(sends) : sends[n].status \in Counted =>
    Cardinality(Against(sends[n].to, sends[n].day, n)) <= sends[n].limit

Truth == Owned /\ Known /\ Replied /\ Charged /\ ReplyTrue

IInv == Shape /\ Listing /\ Truth /\ InLimit

-----------------------------------------------------------------------------
(* The allowlist                                                           *)

LEMMA ListingKept ==
  ASSUME Listing, Shape, [Next]_vars
  PROVE  Listing' /\ (served' # served => served' > served)
<1> USE DEF Listing
<1>1. Len(editions) \in Nat
  OBVIOUS
<1>2. CASE Edits
  <2>1. CASE /\ \E e \in Edition : editions' = Append(editions, e)
             /\ Len(editions) < MaxEdits
             /\ file' = Len(editions')
             /\ UNCHANGED <<cache, served>>
    <3>1. PICK e \in Edition : editions' = Append(editions, e)
      BY <2>1
    <3>2. Len(editions') = Len(editions) + 1 /\ editions' \in Seq(Edition)
      BY <3>1
    <3> QED
      BY <1>1, <2>1, <3>2, MailAssumption
  <2>2. CASE file' = 0 /\ UNCHANGED <<editions, cache, served>>
    BY <2>2
  <2> QED
    BY <1>2, <2>1, <2>2 DEF Edits
<1>3. CASE \E w \in Worker, r \in Recipient : Load(w, r)
  BY <1>1, <1>3 DEF Load
<1>4. CASE Restart
  BY <1>4 DEF Restart
<1>5. CASE UNCHANGED lists
  BY <1>5 DEF lists
<1> QED
  BY <1>2, <1>3, <1>4, <1>5
     DEF Next, vars, Label, Reap, Insert, Deny, CannotSend, HandOver, Answered, Rejected,
         Fails, Finalize, CountToday, Escape, Accept, Drop, ClockMoves, lists

-----------------------------------------------------------------------------
(* The table                                                               *)

\* The rows stay, and none that was given back counts again.
Kept ==
  /\ sends' \in Seq(Row)
  /\ Len(sends') = Len(sends)
  /\ \A n \in 1 .. Len(sends) :
       /\ sends'[n].to = sends[n].to
       /\ sends'[n].day = sends[n].day
       /\ sends'[n].limit = sends[n].limit
       /\ sends'[n].status \in Counted => sends[n].status \in Counted

\* The reaper only makes reserved rows unknown.
ReapsOnly ==
  \A n \in 1 .. Len(sends) :
    \/ sends'[n].status = sends[n].status
    \/ sends[n].status = "reserved" /\ sends'[n].status = "unknown_post_send"

LEMMA ReapedKept ==
  ASSUME Shape, sends' = Reaped
  PROVE  Kept /\ ReapsOnly
<1>1. \A n \in 1 .. Len(sends) : sends[n] \in Row
  BY DEF Shape
<1>2. /\ DOMAIN sends' = 1 .. Len(sends)
      /\ \A n \in 1 .. Len(sends) :
           sends'[n] = IF sends[n].status = "reserved" /\ sends[n].at < clock - Ttl
                       THEN [sends[n] EXCEPT !.status = "unknown_post_send"] ELSE sends[n]
  BY DEF Reaped, Shape
<1>3. \A n \in 1 .. Len(sends) : sends'[n] \in Row
  BY <1>1, <1>2 DEF Row
<1>4. sends' \in Seq(Row) /\ Len(sends') = Len(sends)
  BY <1>2, <1>3 DEF Shape, Reaped
<1> QED
  BY <1>1, <1>2, <1>4 DEF Kept, ReapsOnly, Row, Counted

LEMMA FinalizeKept ==
  ASSUME Shape, Owned, NEW w \in Worker, Finalize(w)
  PROVE  /\ Kept
         /\ \A n \in 1 .. Len(sends) :
              n # task[w].row \/ sends[n].status # "reserved" => sends'[n] = sends[n]
         /\ sends[task[w].row].status = "reserved" =>
              sends'[task[w].row].status = task[w].status
<1> DEFINE n == task[w].row
           s == task[w].status
<1>1. n \in 1 .. Len(sends)
  BY DEF Finalize, Owned, After
<1>2. s \in {"sent", "failed_pre_send", "unknown_post_send"}
  BY TaskAt DEF Finalize, Shape
<1>3. sends[n] \in Row
  BY <1>1 DEF Shape
<1>4. CASE sends[n].status = "reserved"
  <2>1. sends' = [sends EXCEPT ![n].status = s]
    BY <1>4 DEF Finalize
  <2>2. sends'[n] = [sends[n] EXCEPT !.status = s]
    BY <1>1, <2>1 DEF Shape
  <2>3. sends'[n] \in Row
    BY <1>2, <1>3, <2>2 DEF Row
  <2>4. \A m \in 1 .. Len(sends) : m # n => sends'[m] = sends[m]
    BY <2>1 DEF Shape
  <2>5. sends' \in Seq(Row) /\ Len(sends') = Len(sends)
    BY <1>1, <2>1, <2>3 DEF Shape
  <2> QED
    BY <1>1, <1>2, <1>3, <1>4, <2>2, <2>4, <2>5 DEF Kept, Row, Counted
<1>5. CASE sends[n].status # "reserved"
  BY <1>5 DEF Finalize, Kept, Shape
<1> QED
  BY <1>4, <1>5

LEMMA InsertGrows ==
  ASSUME Shape, NEW w \in Worker, Insert(w)
  PROVE  LET t == task[w]
             new == [to |-> t.to, at |-> clock, day |-> t.day,
                     limit |-> t.limit, status |-> "reserved"]
         IN /\ t \in [at : {"reap", "insert"}, to : Recipient, limit : 1 .. MaxLimit, day : Day]
            /\ new \in Row
            /\ sends' \in Seq(Row)
            /\ Len(sends') = Len(sends) + 1
            /\ Len(sends) \in Nat /\ Len(sends) < MaxSends
            /\ sends'[Len(sends) + 1] = new
            /\ \A n \in 1 .. Len(sends) : sends'[n] = sends[n]
<1>1. task[w] \in [at : {"reap", "insert"}, to : Recipient, limit : 1 .. MaxLimit, day : Day]
  BY TaskAt DEF Insert, Shape
<1>2. [to |-> task[w].to, at |-> clock, day |-> task[w].day,
       limit |-> task[w].limit, status |-> "reserved"] \in Row
  BY <1>1 DEF Row, Shape
<1> QED
  BY <1>1, <1>2 DEF Insert, Shape

-----------------------------------------------------------------------------
(* The daily limit                                                         *)

LEMMA AgainstFinite ==
  ASSUME NEW r, NEW d, NEW n \in Nat
  PROVE  IsFiniteSet(Against(r, d, n)) /\ Cardinality(Against(r, d, n)) \in Nat
<1>1. IsFiniteSet(1 .. n)
  BY FS_Interval
<1>2. Against(r, d, n) \subseteq 1 .. n
  BY DEF Against
<1> QED
  BY <1>1, <1>2, FS_Subset, FS_CardinalityType

LEMMA InLimitKept ==
  ASSUME Shape, InLimit, Kept
  PROVE  InLimit'
<1>1. ASSUME NEW n \in 1 .. Len(sends), sends'[n].status \in Counted
      PROVE  Cardinality(Against(sends[n].to, sends[n].day, n))' <= sends'[n].limit
  <2>1. PICK r, d : r = sends[n].to /\ d = sends[n].day
    OBVIOUS
  <2>2. Cardinality(Against(r, d, n)) <= sends[n].limit
    BY <1>1, <2>1 DEF InLimit, Kept
  <2>3. Against(r, d, n)' \subseteq Against(r, d, n)
    BY DEF Against, Kept, Shape
  <2>4. n \in Nat
    OBVIOUS
  <2>5. IsFiniteSet(Against(r, d, n)) /\ Cardinality(Against(r, d, n)) \in Nat
    BY <2>4, AgainstFinite
  <2>6. /\ Cardinality(Against(r, d, n)') <= Cardinality(Against(r, d, n))
        /\ Cardinality(Against(r, d, n)') \in Nat
    BY <2>3, <2>5, FS_Subset, FS_CardinalityType
  <2>7. sends[n] \in Row
    BY DEF Shape
  <2>8. sends[n].limit \in Int
    BY <2>7 DEF Row
  <2>9. /\ sends'[n].limit = sends[n].limit
        /\ r = sends'[n].to /\ d = sends'[n].day
    BY <2>1 DEF Kept
  <2>10. Cardinality(Against(r, d, n)') <= sends'[n].limit
    BY <2>2, <2>5, <2>6, <2>8, <2>9
  <2> QED
    BY <2>9, <2>10 DEF Against
<1>2. Len(sends') = Len(sends)
  BY DEF Kept
<1> QED
  BY <1>1, <1>2 DEF InLimit

LEMMA InLimitInsert ==
  ASSUME Shape, InLimit, NEW w \in Worker, Insert(w)
  PROVE  InLimit'
<1>1. PICK r, d, l : r = task[w].to /\ d = task[w].day /\ l = task[w].limit
  OBVIOUS
<1>2. PICK k \in Nat : k = Len(sends)
  BY DEF Shape
<1>3. /\ task[w] \in [at : {"reap", "insert"}, to : Recipient, limit : 1 .. MaxLimit, day : Day]
      /\ sends'[k + 1] = [to |-> task[w].to, at |-> clock, day |-> task[w].day,
                          limit |-> task[w].limit, status |-> "reserved"]
      /\ Len(sends') = k + 1
      /\ \A n \in 1 .. k : sends'[n] = sends[n]
  BY <1>2, InsertGrows
<1>4. sends'[k + 1].to = r /\ sends'[k + 1].day = d /\ sends'[k + 1].limit = l /\ l \in Int
  BY <1>1, <1>3
<1>5. ASSUME NEW n \in 1 .. k, sends'[n].status \in Counted
      PROVE  Cardinality(Against(sends[n].to, sends[n].day, n))' <= sends'[n].limit
  <2>1. sends'[n] = sends[n]
    BY <1>3
  <2>2. Against(sends[n].to, sends[n].day, n)' = Against(sends[n].to, sends[n].day, n)
    BY <1>3, <2>1 DEF Against
  <2>3. Cardinality(Against(sends[n].to, sends[n].day, n)) <= sends[n].limit
    BY <1>2, <1>5, <2>1 DEF InLimit
  <2> QED
    BY <2>1, <2>2, <2>3
<1>6. Cardinality(Against(r, d, k + 1)') <= l
  <2>1. Against(r, d, k + 1)' \subseteq Against(r, d, k) \cup {k + 1}
    BY <1>3 DEF Against
  <2>2. IsFiniteSet(Against(r, d, k)) /\ Cardinality(Against(r, d, k)) \in Nat
    BY AgainstFinite
  <2>3. /\ IsFiniteSet(Against(r, d, k) \cup {k + 1})
        /\ Cardinality(Against(r, d, k) \cup {k + 1}) <= Cardinality(Against(r, d, k)) + 1
        /\ Cardinality(Against(r, d, k) \cup {k + 1}) \in Nat
    <3>1. /\ IsFiniteSet(Against(r, d, k) \cup {k + 1})
          /\ Cardinality(Against(r, d, k) \cup {k + 1}) =
               IF k + 1 \in Against(r, d, k) THEN Cardinality(Against(r, d, k))
                                            ELSE Cardinality(Against(r, d, k)) + 1
      BY <2>2, FS_AddElement
    <3> QED
      BY <2>2, <3>1
  <2>4. /\ Cardinality(Against(r, d, k + 1)') <= Cardinality(Against(r, d, k) \cup {k + 1})
        /\ Cardinality(Against(r, d, k + 1)') \in Nat
    BY <2>1, <2>3, FS_Subset, FS_CardinalityType
  <2>5. ~(Cardinality(Against(r, d, k)) >= l)
    BY <1>1, <1>2 DEF Insert, Full
  <2> QED
    BY <1>4, <2>2, <2>3, <2>4, <2>5
<1>7. Cardinality(Against(sends[k + 1].to, sends[k + 1].day, k + 1))' <= sends'[k + 1].limit
  BY <1>4, <1>6 DEF Against
<1>8. \A n \in 1 .. Len(sends') : n \in 1 .. k \/ n = k + 1
  BY <1>3
<1> QED
  BY <1>5, <1>7, <1>8 DEF InLimit

-----------------------------------------------------------------------------
(* Rows, tasks and replies                                                 *)

\* A worker goes nowhere near a row: the rows are kept, nothing else changes.
LEMMA NoRowTask ==
  ASSUME Shape, Truth, Kept, ReapsOnly, UNCHANGED <<outside, reply>>,
         \A v \in Worker : task'[v] = task[v] \/ task'[v].at \notin After
  PROVE  Truth'
<1> USE DEF Truth
<1>1. Owned'
  BY DEF Owned, Kept
<1>2. Known'
  BY DEF Known, Owned, ReapsOnly, Out, outside, After
<1>3. Replied'
  BY DEF Replied, Kept
<1>4. Charged'
  BY DEF Charged, ReapsOnly, Kept, Counted, Out, outside
<1>5. ReplyTrue'
  BY DEF ReplyTrue, outside
<1> QED
  BY <1>1, <1>2, <1>3, <1>4, <1>5

LEMMA UnchangedKept ==
  ASSUME Shape, UNCHANGED sends
  PROVE  Kept /\ ReapsOnly
  BY DEF Shape, Kept, ReapsOnly

LEMMA Becoming ==
  ASSUME Shape, NEW w \in Worker, NEW t, Becomes(w, t)
  PROVE  /\ \A v \in Worker : task'[v] = IF v = w THEN t ELSE task[v]
         /\ t \in Task => task' \in [Worker -> Task]
  BY DEF Shape, Becomes

LEMMA IdleTask == Idle \in Task /\ Idle.at \notin After
  BY DEF Task, Idle, After

\* What every step below has in common: it keeps the invariant's parts about
\* rows and tasks, and the day's limit if it keeps the rows.
LEMMA LoadKeeps ==
  ASSUME Shape, Listing, Truth, NEW w \in Worker, NEW r \in Recipient, Load(w, r)
  PROVE  Shape' /\ Truth' /\ Kept
<1> DEFINE edition == IF file # 0 THEN file ELSE cache
           limit == IF edition # 0 THEN editions[edition][r] ELSE 0
           t == [at |-> "label", to |-> r, limit |-> limit]
<1>1. (limit = 0 /\ UNCHANGED task) \/ (limit # 0 /\ Becomes(w, t))
  BY Zenon DEF Load
<1>2. limit # 0 => limit \in 1 .. MaxLimit
  <2>1. edition \in 0 .. Len(editions) /\ Len(editions) \in Nat
    BY DEF Listing
  <2>2. edition # 0 => editions[edition] \in Edition
    BY <2>1 DEF Listing
  <2> QED
    BY <2>2, MailAssumption DEF Edition
<1>3. limit # 0 => t \in Task /\ t.at \notin After
  BY <1>2 DEF Task, After
<1> HIDE DEF t, limit
<1>4. task' \in [Worker -> Task]
  BY <1>1, <1>3, Becoming DEF Shape
<1>5. \A v \in Worker : task'[v] = task[v] \/ task'[v].at \notin After
  BY <1>1, <1>3, Becoming
<1>6. UNCHANGED <<clock, sends, outside, reply>>
  BY DEF Load
<1> QED
  BY <1>4, <1>5, <1>6, UnchangedKept, NoRowTask DEF Shape, outside

LEMMA LabelKeeps ==
  ASSUME Shape, Truth, NEW w \in Worker, Label(w)
  PROVE  Shape' /\ Truth' /\ Kept
<1> DEFINE t == [at |-> "reap", to |-> task[w].to, limit |-> task[w].limit,
                 day |-> DayOf[clock]]
<1>1. t \in Task /\ t.at \notin After
  BY TaskAt DEF Label, Shape, Task, After, Day
<1>2. Becomes(w, t) /\ UNCHANGED <<clock, sends, outside, reply>>
  BY DEF Label
<1> HIDE DEF t
<1> QED
  BY <1>1, <1>2, Becoming, UnchangedKept, NoRowTask DEF Shape, outside

LEMMA ReapKeeps ==
  ASSUME Shape, Truth, NEW w \in Worker, Reap(w)
  PROVE  Shape' /\ Truth' /\ Kept
<1> DEFINE t == [task[w] EXCEPT !.at = "insert"]
<1>1. t \in Task /\ t.at \notin After
  BY TaskAt DEF Reap, Shape, Task, After
<1>2. Becomes(w, t) /\ UNCHANGED <<clock, outside, reply>> /\ sends' = Reaped
  BY DEF Reap
<1> HIDE DEF t
<1>3. Kept /\ ReapsOnly
  BY <1>2, ReapedKept
<1>4. task' \in [Worker -> Task]
  BY <1>1, <1>2, Becoming
<1>5. \A v \in Worker : task'[v] = task[v] \/ task'[v].at \notin After
  BY <1>1, <1>2, Becoming
<1> QED
  BY <1>2, <1>3, <1>4, <1>5, NoRowTask DEF Shape, Kept, outside

LEMMA DenyKeeps ==
  ASSUME Shape, Truth, NEW w \in Worker, Deny(w)
  PROVE  Shape' /\ Truth' /\ Kept
  BY IdleTask, Becoming, UnchangedKept, NoRowTask DEF Deny, Shape, outside

\* The steps of nobody: the operator, the clock, a restart.
LEMMA OutsideKeeps ==
  ASSUME Shape, Truth, Edits \/ Restart \/ \E d \in ClockSteps : ClockMoves(d)
  PROVE  Shape' /\ Truth' /\ Kept
<1>1. CASE Edits
  BY <1>1, UnchangedKept, NoRowTask DEF Edits, Shape, outside
<1>2. CASE Restart
  BY <1>2, IdleTask, ReapedKept, NoRowTask DEF Restart, Shape, Kept, outside
<1>3. CASE \E d \in ClockSteps : ClockMoves(d)
  BY <1>3, UnchangedKept, NoRowTask DEF ClockMoves, Shape, outside
<1> QED
  BY <1>1, <1>2, <1>3

\* A worker that has a row moves on, with the row or without it.
LEMMA OwnedKept ==
  ASSUME Owned, Len(sends') = Len(sends), NEW w \in Worker, task[w].at \in After,
         \A v \in Worker : v # w => task'[v] = task[v],
         task'[w].at \in After => task'[w].row = task[w].row
  PROVE  Owned'
  BY DEF Owned

LEMMA HasRow ==
  ASSUME Shape, Truth, NEW w \in Worker, task[w].at \in After
  PROVE  /\ task[w].row \in 1 .. Len(sends) /\ task[w].row \in RowId
         /\ \A v \in Worker : v # w /\ task[v].at \in After => task[v].row # task[w].row
         /\ reply[task[w].row] = "none"
<1>1. 1 .. Len(sends) \subseteq RowId
  BY MailAssumption DEF Shape, RowId
<1> QED
  BY <1>1 DEF Truth, Owned, Known

LEMMA InsertKeeps ==
  ASSUME Shape, Truth, NEW w \in Worker, Insert(w)
  PROVE  Shape' /\ Truth'
<1>1. PICK k \in Nat : k = Len(sends)
  BY DEF Shape
<1> DEFINE t == [at |-> "connect", row |-> k + 1]
<1>2. /\ sends' \in Seq(Row) /\ Len(sends') = k + 1 /\ k < MaxSends
      /\ sends'[k + 1].status = "reserved"
      /\ \A n \in 1 .. k : sends'[n] = sends[n]
  <2>1. sends'[k + 1] = [to |-> task[w].to, at |-> clock, day |-> task[w].day,
                         limit |-> task[w].limit, status |-> "reserved"]
    BY <1>1, InsertGrows
  <2>2. /\ sends' \in Seq(Row) /\ Len(sends') = k + 1 /\ k < MaxSends
        /\ \A n \in 1 .. k : sends'[n] = sends[n]
    BY <1>1, InsertGrows
  <2> QED
    BY <2>1, <2>2
<1>3. t \in Task /\ t.at \in After
  BY <1>2, MailAssumption DEF Task, After, RowId
<1>4. Becomes(w, t) /\ UNCHANGED <<clock, outside, reply>>
  BY <1>1 DEF Insert
<1>5. \A v \in Worker : task'[v] = IF v = w THEN t ELSE task[v]
  BY <1>4, Becoming
<1>6. task' \in [Worker -> Task]
  BY <1>3, <1>4, Becoming
<1>7. Shape'
  BY <1>1, <1>2, <1>4, <1>6, MailAssumption DEF Shape, outside
<1>8. Owned'
  BY <1>1, <1>2, <1>5 DEF Truth, Owned, After
<1>9. k + 1 \in RowId /\ reply[k + 1] = "none" /\ k + 1 \notin Out
  BY <1>1, <1>2, MailAssumption DEF Truth, Replied, RowId, Out, Shape
<1>10. Known'
  BY <1>1, <1>2, <1>4, <1>5, <1>9 DEF Truth, Known, Owned, Out, outside, After
<1>11. Replied'
  BY <1>1, <1>2, <1>4, MailAssumption DEF Truth, Replied, RowId
<1>12. Charged'
  BY <1>1, <1>2, <1>4 DEF Truth, Charged, Out, outside, Counted
<1>13. ReplyTrue'
  BY <1>4 DEF Truth, ReplyTrue, outside
<1> QED
  BY <1>7, <1>8, <1>10, <1>11, <1>12, <1>13 DEF Truth

\* The transport says something: the worker is to settle its row.
LEMMA SettlesKeeps ==
  ASSUME Shape, Truth, NEW w \in Worker,
         task[w].at \in {"connect", "wait"},
         NEW status \in {"sent", "failed_pre_send", "unknown_post_send"},
         Settles(w, status),
         status = "sent" => task[w].row \in accepted,
         status = "failed_pre_send" => task[w].row \notin Out,
         UNCHANGED <<clock, lists, sends, outside, reply>>
  PROVE  Shape' /\ Truth' /\ Kept
<1> DEFINE t == [at |-> "settle", row |-> task[w].row, status |-> status]
<1>1. task[w].at \in After
  BY DEF After
<1>2. /\ task[w].row \in RowId
      /\ \A v \in Worker : v # w /\ task[v].at \in After => task[v].row # task[w].row
      /\ reply[task[w].row] = "none"
  BY <1>1, HasRow
<1>3. t \in Task
  BY <1>2 DEF Task
<1>4. Becomes(w, t)
  BY DEF Settles
<1>5. \A v \in Worker : task'[v] = IF v = w THEN t ELSE task[v]
  BY <1>4, Becoming
<1>6. Shape'
  BY <1>3, <1>4, Becoming DEF Shape, outside
<1>7. Owned'
  BY <1>1, <1>5, OwnedKept DEF Truth
<1>8. Known'
  BY <1>2, <1>5 DEF Truth, Known, Out, outside, After
<1>9. Replied' /\ Charged' /\ ReplyTrue'
  BY DEF Truth, Replied, Charged, ReplyTrue, Out, outside
<1> QED
  BY <1>6, <1>7, <1>8, <1>9, UnchangedKept DEF Truth

LEMMA TransportKeeps ==
  ASSUME Shape, Truth, NEW w \in Worker,
         CannotSend(w) \/ Answered(w) \/ Rejected(w) \/ Fails(w)
  PROVE  Shape' /\ Truth' /\ Kept
<1>1. CASE CannotSend(w)
  BY <1>1, SettlesKeeps DEF CannotSend, Truth, Known
<1>2. CASE Answered(w)
  BY <1>2, SettlesKeeps DEF Answered
<1>3. CASE Rejected(w)
  BY <1>3, SettlesKeeps DEF Rejected, Out
<1>4. CASE Fails(w)
  BY <1>4, SettlesKeeps DEF Fails
<1> QED
  BY <1>1, <1>2, <1>3, <1>4

LEMMA HandOverKeeps ==
  ASSUME Shape, Truth, NEW w \in Worker, HandOver(w)
  PROVE  Shape' /\ Truth' /\ Kept
<1> DEFINE t == [task[w] EXCEPT !.at = "wait"]
           n == task[w].row
<1>1. task[w].at = "connect" /\ task[w].at \in After
  BY DEF HandOver, After
<1>2. /\ n \in RowId /\ n \in 1 .. Len(sends)
      /\ \A v \in Worker : v # w /\ task[v].at \in After => task[v].row # n
      /\ reply[n] = "none"
  BY <1>1, HasRow
<1>3. t \in Task /\ t.at = "wait" /\ t.row = n
  BY <1>1, TaskAt DEF Task, Shape
<1>4. Becomes(w, t) /\ wire' = wire \cup {n} /\ UNCHANGED <<clock, sends, accepted, reply>>
  BY DEF HandOver
<1>5. sends[n].status \in Counted
  BY <1>1 DEF Truth, Known, Counted
<1> HIDE DEF t, n
<1>6. \A v \in Worker : task'[v] = IF v = w THEN t ELSE task[v]
  BY <1>4, Becoming
<1>7. Shape'
  BY <1>2, <1>3, <1>4, Becoming DEF Shape
<1>8. Owned'
  BY <1>1, <1>3, <1>4, <1>6, OwnedKept DEF Truth, n
<1>9. Known'
  BY <1>1, <1>2, <1>3, <1>4, <1>6 DEF Truth, Known, Out, After, n
<1>10. Replied' /\ Charged' /\ ReplyTrue'
  BY <1>2, <1>4, <1>5 DEF Truth, Replied, Charged, ReplyTrue, Out
<1> QED
  BY <1>4, <1>7, <1>8, <1>9, <1>10, UnchangedKept DEF Truth

LEMMA ProviderKeeps ==
  ASSUME Shape, Truth, NEW n \in RowId, Accept(n) \/ Drop(n)
  PROVE  Shape' /\ Truth' /\ Kept
<1>1. /\ n \in wire
      /\ wire' \subseteq wire /\ accepted \subseteq accepted' /\ accepted' \subseteq accepted \cup {n}
      /\ UNCHANGED <<clock, sends, task, reply>>
  BY DEF Accept, Drop
<1>2. Shape'
  BY <1>1 DEF Shape
<1>3. Owned' /\ Replied'
  BY <1>1 DEF Truth, Owned, Replied
<1>4. Known'
  BY <1>1 DEF Truth, Known, Out
<1>5. Charged' /\ ReplyTrue'
  BY <1>1 DEF Truth, Charged, ReplyTrue, Out
<1> QED
  BY <1>1, <1>2, <1>3, <1>4, <1>5, UnchangedKept DEF Truth

\* A worker gives the answer for its row and is done.
LEMMA AnswerKeeps ==
  ASSUME Shape, Truth, Kept, NEW w \in Worker, task[w].at \in After,
         \A m \in 1 .. Len(sends) : m # task[w].row => sends'[m] = sends[m],
         NEW a \in {"ok", "pre_send", "post_send_unknown", "internal_error"},
         a = "ok" => task[w].row \in accepted,
         a = "pre_send" => task[w].row \notin Out,
         task[w].row \in Out => sends'[task[w].row].status \in Counted,
         Becomes(w, Idle), Answers(task[w].row, a), UNCHANGED <<clock, outside>>
  PROVE  Shape' /\ Truth'
<1> DEFINE n == task[w].row
<1>1. /\ n \in RowId /\ n \in 1 .. Len(sends)
      /\ \A v \in Worker : v # w /\ task[v].at \in After => task[v].row # n
  BY HasRow
<1>2. \A v \in Worker : task'[v] = IF v = w THEN Idle ELSE task[v]
  BY Becoming
<1>3. /\ reply'[n] = a
      /\ \A m \in RowId : m # n => reply'[m] = reply[m]
      /\ reply' \in [RowId -> {"none", "ok", "pre_send", "post_send_unknown", "internal_error"}]
  BY <1>1 DEF Answers, Shape
<1>4. Len(sends') = Len(sends) /\ sends' \in Seq(Row)
  BY DEF Kept
<1> HIDE DEF n
<1>5. Shape'
  BY <1>3, <1>4, IdleTask, Becoming DEF Shape, outside
<1>6. Owned'
  BY <1>2, <1>4, IdleTask, OwnedKept DEF Truth
<1>7. Known'
  <2> SUFFICES ASSUME NEW v \in Worker
               PROVE  /\ task'[v].at \in After => reply'[task'[v].row] = "none"
                      /\ task'[v].at \in {"connect", "wait", "settle"} =>
                           sends'[task'[v].row].status \in {"reserved", "unknown_post_send"}
                      /\ task'[v].at = "connect" => task'[v].row \notin Out
                      /\ task'[v].at = "settle" /\ task'[v].status = "failed_pre_send" =>
                           task'[v].row \notin Out
                      /\ task'[v].at = "settle" /\ task'[v].status = "sent" =>
                           task'[v].row \in accepted
                      /\ task'[v].at = "count" => task'[v].row \in accepted
    BY DEF Known, Out, outside
  <2>1. CASE v = w
    BY <1>2, <2>1, IdleTask DEF After, Idle
  <2>2. CASE v # w /\ task[v].at \notin After
    BY <1>2, <2>2 DEF After
  <2>3. CASE v # w /\ task[v].at \in After
    <3>1. task'[v] = task[v] /\ task[v].row # n /\ task[v].row \in RowId
          /\ task[v].row \in 1 .. Len(sends)
      BY <1>1, <1>2, <2>3, HasRow
    <3>2. sends'[task[v].row] = sends[task[v].row] /\ reply'[task[v].row] = reply[task[v].row]
      BY <1>3, <3>1 DEF n
    <3> QED
      BY <2>3, <3>1, <3>2 DEF Truth, Known
  <2> QED
    BY <2>1, <2>2, <2>3
<1>8. Replied'
  BY <1>1, <1>3, <1>4 DEF Truth, Replied
<1>9. Charged'
  BY <1>1, <1>4 DEF Truth, Charged, Out, outside, n
<1>10. ReplyTrue'
  BY <1>1, <1>3 DEF Truth, ReplyTrue, Out, outside, n
<1> QED
  BY <1>5, <1>6, <1>7, <1>8, <1>9, <1>10 DEF Truth

LEMMA FinalizeKeeps ==
  ASSUME Shape, Truth, NEW w \in Worker, Finalize(w)
  PROVE  Shape' /\ Truth' /\ Kept
<1> DEFINE n == task[w].row
           s == task[w].status
           t == [at |-> "count", row |-> n]
<1>1. task[w].at = "settle" /\ task[w].at \in After
  BY DEF Finalize, After
<1>2. /\ n \in RowId /\ n \in 1 .. Len(sends)
      /\ \A v \in Worker : v # w /\ task[v].at \in After => task[v].row # n
      /\ reply[n] = "none"
  BY <1>1, HasRow
<1>3. s \in {"sent", "failed_pre_send", "unknown_post_send"}
  BY <1>1, TaskAt DEF Shape
<1>4. /\ Kept
      /\ \A m \in 1 .. Len(sends) : m # n => sends'[m] = sends[m]
      /\ sends[n].status # "reserved" => sends'[n] = sends[n]
      /\ sends[n].status = "reserved" => sends'[n].status = s
  BY <1>2, FinalizeKept DEF Truth
<1>5. /\ s = "failed_pre_send" => n \notin Out
      /\ s = "sent" => n \in accepted
      /\ sends[n].status \in {"reserved", "unknown_post_send"}
  BY <1>1 DEF Truth, Known
<1>6. n \in Out => sends'[n].status \in Counted
  BY <1>3, <1>4, <1>5 DEF Counted
<1>7. CASE s = "sent"
  <2>1. Becomes(w, t) /\ UNCHANGED <<clock, outside, reply>>
    BY <1>7 DEF Finalize
  <2>2. t \in Task /\ t.at = "count" /\ t.row = n
    BY <1>2 DEF Task
  <2>3. n \in accepted
    BY <1>5, <1>7
  <2> HIDE DEF t, n, s
  <2>4. \A v \in Worker : task'[v] = IF v = w THEN t ELSE task[v]
    BY <2>1, Becoming
  <2>5. task' \in [Worker -> Task]
    BY <2>1, <2>2, Becoming
  <2>6. Shape'
    BY <1>4, <2>1, <2>5 DEF Shape, Kept, outside
  <2>7. Owned'
    BY <1>1, <1>4, <2>2, <2>4, OwnedKept DEF Truth, Kept, n
  <2>8. Known'
    <3> SUFFICES ASSUME NEW v \in Worker
                 PROVE  /\ task'[v].at \in After => reply[task'[v].row] = "none"
                        /\ task'[v].at \in {"connect", "wait", "settle"} =>
                             sends'[task'[v].row].status \in {"reserved", "unknown_post_send"}
                        /\ task'[v].at = "connect" => task'[v].row \notin Out
                        /\ task'[v].at = "settle" /\ task'[v].status = "failed_pre_send" =>
                             task'[v].row \notin Out
                        /\ task'[v].at = "settle" /\ task'[v].status = "sent" =>
                             task'[v].row \in accepted
                        /\ task'[v].at = "count" => task'[v].row \in accepted
      BY <2>1 DEF Known, Out, outside
    <3>1. CASE v = w
      BY <1>2, <2>2, <2>3, <2>4, <3>1
    <3>2. CASE v # w /\ task[v].at \notin After
      BY <2>4, <3>2 DEF After
    <3>3. CASE v # w /\ task[v].at \in After
      <4>1. task'[v] = task[v] /\ task[v].row # n /\ task[v].row \in 1 .. Len(sends)
        BY <1>2, <2>4, <3>3, HasRow
      <4>2. sends'[task[v].row] = sends[task[v].row]
        BY <1>4, <4>1
      <4> QED
        BY <3>3, <4>1, <4>2 DEF Truth, Known
    <3> QED
      BY <3>1, <3>2, <3>3
  <2>9. Replied' /\ ReplyTrue'
    BY <1>4, <2>1 DEF Truth, Replied, ReplyTrue, Kept, outside
  <2>10. Charged'
    BY <1>4, <1>6, <2>1 DEF Truth, Charged, Kept, Out, outside
  <2> QED
    BY <1>4, <2>6, <2>7, <2>8, <2>9, <2>10 DEF Truth
<1>8. CASE s # "sent"
  <2>1. PICK a \in {AnswerOf(s), "internal_error"} : Answers(n, a)
    BY <1>8 DEF Finalize
  <2>2. /\ Becomes(w, Idle) /\ UNCHANGED <<clock, outside>>
    BY <1>8 DEF Finalize
  <2>3. /\ a \in {"ok", "pre_send", "post_send_unknown", "internal_error"} /\ a # "ok"
        /\ a = "pre_send" => n \notin Out
    BY <1>5, <2>1 DEF AnswerOf
  <2> QED
    BY <1>1, <1>4, <1>6, <2>1, <2>2, <2>3, AnswerKeeps
<1> QED
  BY <1>7, <1>8

LEMMA EndKeeps ==
  ASSUME Shape, Truth, NEW w \in Worker, CountToday(w) \/ Escape(w)
  PROVE  Shape' /\ Truth' /\ Kept
<1>1. UNCHANGED <<clock, sends, outside>> /\ Becomes(w, Idle)
  BY DEF CountToday, Escape
<1>2. Kept /\ ReapsOnly
  BY <1>1, UnchangedKept
<1>3. CASE task[w].at \in After
  <2>1. PICK a \in {"ok", "internal_error"} :
          /\ Answers(task[w].row, a)
          /\ a = "ok" => task[w].at = "count"
    BY <1>3 DEF CountToday, Escape
  <2>2. a = "ok" => task[w].row \in accepted
    BY <2>1 DEF Truth, Known
  <2>3. task[w].row \in Out => sends'[task[w].row].status \in Counted
    BY <1>1, <1>3, HasRow DEF Truth, Charged
  <2> QED
    BY <1>1, <1>2, <1>3, <2>1, <2>2, <2>3, AnswerKeeps
<1>4. CASE task[w].at \notin After
  <2>1. UNCHANGED reply
    BY <1>4 DEF CountToday, Escape, After
  <2>2. \A v \in Worker : task'[v] = task[v] \/ task'[v].at \notin After
    BY <1>1, IdleTask, Becoming
  <2>3. Shape'
    BY <1>1, <2>1, IdleTask, Becoming DEF Shape, outside
  <2> QED
    BY <1>1, <1>2, <2>1, <2>2, <2>3, NoRowTask
<1> QED
  BY <1>3, <1>4

-----------------------------------------------------------------------------
(* The invariant                                                           *)

LEMMA Initially == Init => IInv
<1> SUFFICES ASSUME Init
             PROVE  IInv
  OBVIOUS
<1>1. Shape /\ Listing
  BY IdleTask, MailAssumption DEF Init, Shape, Listing, Instant
<1>2. Truth
  BY IdleTask DEF Init, Truth, Owned, Known, Replied, Charged, ReplyTrue, Out, After, Idle
<1>3. InLimit
  BY DEF Init, InLimit
<1> QED
  BY <1>1, <1>2, <1>3 DEF IInv

\* Every step, the stutter included, and what it does to the table.
LEMMA StepKeeps ==
  ASSUME IInv, [Next]_vars
  PROVE  IInv' /\ (Kept \/ \E w \in Worker : Insert(w))
<1> USE DEF IInv
<1>1. Listing'
  BY ListingKept
<1>2. CASE \E w \in Worker : Insert(w)
  BY <1>1, <1>2, InsertKeeps, InLimitInsert
<1>3. ASSUME Shape' /\ Truth' /\ Kept
      PROVE  IInv' /\ Kept
  BY <1>1, <1>3, InLimitKept
<1>4. ASSUME NEW w \in Worker, NEW r \in Recipient, Load(w, r)
      PROVE  Shape' /\ Truth' /\ Kept
  BY <1>4, LoadKeeps
<1>5. ASSUME NEW w \in Worker,
             Label(w) \/ Reap(w) \/ Deny(w) \/ HandOver(w)
      PROVE  Shape' /\ Truth' /\ Kept
  BY <1>5, LabelKeeps, ReapKeeps, DenyKeeps, HandOverKeeps
<1>6. ASSUME NEW w \in Worker,
             \/ CannotSend(w) \/ Answered(w) \/ Rejected(w) \/ Fails(w)
             \/ Finalize(w) \/ CountToday(w) \/ Escape(w)
      PROVE  Shape' /\ Truth' /\ Kept
  BY <1>6, TransportKeeps, FinalizeKeeps, EndKeeps
<1>7. ASSUME NEW n \in RowId, Accept(n) \/ Drop(n)
      PROVE  Shape' /\ Truth' /\ Kept
  BY <1>7, ProviderKeeps
<1>8. CASE Edits \/ Restart \/ \E d \in ClockSteps : ClockMoves(d)
  BY <1>3, <1>8, OutsideKeeps
<1>9. CASE UNCHANGED vars
  <2>1. Shape' /\ Truth'
    BY <1>9 DEF vars, lists, outside, Shape, Truth, Owned, Known, Replied, Charged, ReplyTrue, Out
  <2>2. Kept
    BY <1>9, UnchangedKept DEF vars
  <2> QED
    BY <1>3, <2>1, <2>2
<1> QED
  BY <1>2, <1>3, <1>4, <1>5, <1>6, <1>7, <1>8, <1>9 DEF Next

LEMMA Always == Spec => []IInv
<1>1. Init => IInv
  BY Initially
<1>2. IInv /\ [Next]_vars => IInv'
  BY StepKeeps
<1> QED
  BY <1>1, <1>2, PTL DEF Spec

-----------------------------------------------------------------------------
(* The theorems                                                            *)

\* Types, and a row of its own for each worker that has reserved.
THEOREM MailTypes == Spec => []TypeOK
<1>1. IInv => TypeOK
  <2> SUFFICES ASSUME IInv
               PROVE  TypeOK
    OBVIOUS
  <2>1. DOMAIN sends = 1 .. Len(sends) /\ Len(editions) \in Nat
    BY DEF IInv, Shape, Listing
  <2> QED
    BY <2>1 DEF IInv, Shape, Listing, Truth, Owned, TypeOK
<1> QED
  BY <1>1, Always, PTL

\* What went out, or still may, is never given back.
THEOREM OutIsCharged == Spec => []MailCharged
<1>1. IInv => MailCharged
  BY DEF IInv, Shape, Truth, Charged, Out, MailCharged
<1> QED
  BY <1>1, Always, PTL

\* No mail goes out beyond the limit its call had read.
THEOREM WithinTheLimit == Spec => []MailsWithinLimit
<1>1. IInv => MailsWithinLimit
  <2> SUFFICES ASSUME IInv, NEW n \in Out
               PROVE  Cardinality({m \in Out \cap 1 .. n :
                                     sends[m].to = sends[n].to /\ sends[m].day = sends[n].day})
                        <= sends[n].limit
    BY DEF MailsWithinLimit, Out
  <2> DEFINE mails == {m \in Out \cap 1 .. n :
                         sends[m].to = sends[n].to /\ sends[m].day = sends[n].day}
             rows == Against(sends[n].to, sends[n].day, n)
  <2>1. n \in 1 .. Len(sends) /\ Len(sends) \in Nat
    BY DEF IInv, Shape, Out
  <2>2. n \in Nat /\ \A m \in 1 .. n : m \in 1 .. Len(sends)
    BY <2>1
  <2>3. mails \subseteq rows
    BY <2>2 DEF IInv, Truth, Charged, Against
  <2>4. Cardinality(rows) <= sends[n].limit
    BY <2>1 DEF IInv, Truth, Charged, InLimit
  <2>5. IsFiniteSet(rows) /\ Cardinality(rows) \in Nat
    BY <2>2, AgainstFinite
  <2>6. Cardinality(mails) <= Cardinality(rows) /\ Cardinality(mails) \in Nat
    BY <2>3, <2>5, FS_Subset, FS_CardinalityType
  <2>7. sends[n].limit \in Int
    <3>1. sends[n] \in Row
      BY <2>1 DEF IInv, Shape
    <3> QED
      BY <3>1 DEF Row
  <2> HIDE DEF mails, rows
  <2>8. Cardinality(mails) <= sends[n].limit
    BY <2>4, <2>5, <2>6, <2>7
  <2> QED
    BY <2>8 DEF mails
<1> QED
  BY <1>1, Always, PTL

\* "ok" and "pre_send" are true of the mail, then and ever after.
THEOREM RepliesTrue == Spec => []ReplyTrue
<1>1. IInv => ReplyTrue
  BY DEF IInv, Truth
<1> QED
  BY <1>1, Always, PTL

\* No broken file and no restart brings an older allowlist back.
THEOREM NoOlderList == Spec => NewestServed
<1>1. IInv /\ [Next]_vars => [served' > served]_served
  BY ListingKept DEF IInv
<1> QED
  BY <1>1, Always, PTL DEF Spec, NewestServed

-----------------------------------------------------------------------------
(* The ledger                                                              *)

\* No recipient's day holds more counted rows than any limit there may be.
DayKept ==
  \A r \in Recipient, d \in Day : Cardinality(Against(r, d, Len(sends))) <= MaxLimit

LEMMA DayKeptOn ==
  ASSUME IInv, IInv', DayKept, Kept \/ \E w \in Worker : Insert(w)
  PROVE  DayKept'
<1> SUFFICES ASSUME NEW r \in Recipient, NEW d \in Day
             PROVE  Cardinality(Against(r, d, Len(sends)))' <= MaxLimit
  BY DEF DayKept
<1>1. PICK k \in Nat : k = Len(sends)
  BY DEF IInv, Shape
<1>2. /\ IsFiniteSet(Against(r, d, k)) /\ Cardinality(Against(r, d, k)) \in Nat
      /\ Cardinality(Against(r, d, k)) <= MaxLimit
  BY <1>1, AgainstFinite DEF DayKept
<1>3. CASE Kept
  <2>1. Against(r, d, k)' \subseteq Against(r, d, k)
    BY <1>1, <1>3 DEF Against, Kept
  <2>2. /\ Cardinality(Against(r, d, k)') <= Cardinality(Against(r, d, k))
        /\ Cardinality(Against(r, d, k)') \in Nat
    BY <1>2, <2>1, FS_Subset, FS_CardinalityType
  <2>3. Cardinality(Against(r, d, k)') <= MaxLimit
    BY <1>2, <2>2, MailAssumption
  <2> QED
    BY <1>1, <1>3, <2>3 DEF Kept, Against
<1>4. ASSUME NEW w \in Worker, Insert(w)
      PROVE  Cardinality(Against(r, d, Len(sends)))' <= MaxLimit
  <2>1. /\ Len(sends') = k + 1
        /\ \A n \in 1 .. k : sends'[n] = sends[n]
    BY <1>1, <1>4, InsertGrows DEF IInv
  <2>2. sends'[k + 1] = [to |-> task[w].to, at |-> clock, day |-> task[w].day,
                         limit |-> task[w].limit, status |-> "reserved"]
    BY <1>1, <1>4, InsertGrows DEF IInv
  <2>3. CASE sends'[k + 1].to = r /\ sends'[k + 1].day = d
    <3>1. k + 1 \in 1 .. Len(sends') /\ sends'[k + 1].status \in Counted
      BY <2>1, <2>2 DEF Counted
    <3>2. Cardinality(Against(sends[k + 1].to, sends[k + 1].day, k + 1))' <= sends'[k + 1].limit
      BY <3>1 DEF IInv, InLimit
    <3>3. sends'[k + 1] \in Row
      BY <3>1 DEF IInv, Shape
    <3>4. sends'[k + 1].limit \in 1 .. MaxLimit
      BY <3>3 DEF Row
    <3>5. Against(r, d, Len(sends))' = Against(sends[k + 1].to, sends[k + 1].day, k + 1)'
      BY <2>1, <2>3 DEF Against
    <3>6. /\ IsFiniteSet(Against(r, d, k) \cup {k + 1})
      BY <1>2, FS_AddElement
    <3>7. Against(r, d, Len(sends))' \subseteq Against(r, d, k) \cup {k + 1}
      BY <2>1 DEF Against
    <3>8. Cardinality(Against(r, d, Len(sends))') \in Nat
      BY <3>6, <3>7, FS_Subset, FS_CardinalityType
    <3> QED
      BY <3>2, <3>4, <3>5, <3>8, MailAssumption
  <2>4. CASE ~(sends'[k + 1].to = r /\ sends'[k + 1].day = d)
    <3>1. Against(r, d, Len(sends))' = Against(r, d, k)
      BY <2>1, <2>4 DEF Against
    <3> QED
      BY <1>2, <3>1
  <2> QED
    BY <2>3, <2>4
<1> QED
  BY <1>3, <1>4

LEMMA SlotsTyped ==
  ASSUME Shape
  PROVE  /\ DOMAIN Slots = 1 .. Len(sends)
         /\ Slots \in Seq(Ledger!Slot) /\ Len(Slots) = Len(sends)
         /\ \A n \in 1 .. Len(sends) :
              Slots[n] = [key |-> sends[n].to, epoch |-> sends[n].at, day |-> sends[n].day,
                          state |-> StateOf(sends[n].status)]
<1>1. \A n \in 1 .. Len(sends) : sends[n] \in Row
  BY DEF Shape
<1>2. /\ DOMAIN Slots = 1 .. Len(sends)
      /\ \A n \in 1 .. Len(sends) :
           Slots[n] = [key |-> sends[n].to, epoch |-> sends[n].at, day |-> sends[n].day,
                       state |-> StateOf(sends[n].status)]
  BY DEF Slots, Shape
<1>3. \A n \in 1 .. Len(sends) : Slots[n] \in Ledger!Slot
  BY <1>1, <1>2 DEF Ledger!Slot, Row, StateOf
<1>4. Len(sends) \in Nat
  BY DEF Shape
<1>5. Slots = [n \in 1 .. Len(sends) |-> Slots[n]]
  BY <1>2 DEF Slots
<1> QED
  BY <1>2, <1>3, <1>4, <1>5

\* The same, to be used of the next state.
SlotsOfRows ==
  /\ Slots \in Seq(Ledger!Slot) /\ Len(Slots) = Len(sends)
  /\ \A n \in 1 .. Len(sends) :
       Slots[n] = [key |-> sends[n].to, epoch |-> sends[n].at, day |-> sends[n].day,
                   state |-> StateOf(sends[n].status)]

LEMMA SlotsAre == Shape => SlotsOfRows
  BY SlotsTyped DEF SlotsOfRows

LEMMA SameCardinality == \A S : Ledger!Cardinality(S) = Cardinality(S)
  BY DEF Ledger!Cardinality, Cardinality

LEMMA CapsFollow == Shape /\ DayKept => Ledger!WithinCaps
<1> SUFFICES ASSUME Shape, DayKept PROVE Ledger!WithinCaps
  OBVIOUS
<1>1. PICK k \in Nat : k = Len(sends) /\ k <= MaxSends
  BY DEF Shape
<1>2. IsFiniteSet(1 .. k) /\ Cardinality(1 .. k) = k
  <2>1. /\ IsFiniteSet(1 .. k)
        /\ Cardinality(1 .. k) = IF 1 > k THEN 0 ELSE k - 1 + 1
    BY FS_Interval
  <2> QED
    BY <2>1
<1>3. ASSUME NEW r \in Recipient, NEW t \in Instant
      PROVE  Cardinality(Ledger!InHour(r, t)) <= MaxSends
  <2>1. Ledger!InHour(r, t) \subseteq 1 .. k
    BY <1>1, SlotsTyped DEF Ledger!InHour
  <2>2. /\ Cardinality(Ledger!InHour(r, t)) <= k /\ Cardinality(Ledger!InHour(r, t)) \in Nat
    BY <1>2, <2>1, FS_Subset, FS_CardinalityType
  <2> QED
    BY <1>1, <2>2, MailAssumption
<1>4. ASSUME NEW r \in Recipient, NEW d \in Day
      PROVE  Cardinality(Ledger!InDay(r, d)) <= MaxLimit
  <2>1. \A n \in 1 .. k : sends[n] \in Row
    BY <1>1 DEF Shape
  <2>2. Ledger!InDay(r, d) = Against(r, d, k)
    BY <1>1, <2>1, SlotsTyped DEF Ledger!InDay, Against, Row, StateOf, Counted
  <2> QED
    BY <1>1, <2>2 DEF DayKept
<1> QED
  BY <1>3, <1>4, SameCardinality DEF Ledger!WithinCaps

\* The rows keep their keys, and those of S go from held to spent.
LEMMA SettlesSlots ==
  ASSUME Shape, Shape', NEW S \in SUBSET (1 .. Len(sends)),
         Len(sends') = Len(sends),
         \A n \in 1 .. Len(sends) :
           /\ n \notin S => sends'[n] = sends[n]
           /\ n \in S => /\ sends[n].status = "reserved"
                         /\ sends'[n].status \in {"sent", "unknown_post_send"}
                         /\ sends'[n].to = sends[n].to /\ sends'[n].at = sends[n].at
                         /\ sends'[n].day = sends[n].day
  PROVE  Ledger!Next
<1>1. S \subseteq Ledger!Held
  BY SlotsTyped DEF Ledger!Held, StateOf
<1>2. /\ DOMAIN Slots' = 1 .. Len(sends)
      /\ \A n \in 1 .. Len(sends) :
           Slots'[n] = [key |-> sends'[n].to, epoch |-> sends'[n].at, day |-> sends'[n].day,
                        state |-> StateOf(sends'[n].status)]
  BY SlotsTyped DEF Slots, Shape, StateOf
<1>3. \A n \in 1 .. Len(sends) :
        Slots'[n] = IF n \in S THEN [Slots[n] EXCEPT !.state = "spent"] ELSE Slots[n]
  <2> SUFFICES ASSUME NEW n \in 1 .. Len(sends)
               PROVE  Slots'[n] = IF n \in S THEN [Slots[n] EXCEPT !.state = "spent"] ELSE Slots[n]
    OBVIOUS
  <2>1. Slots[n] = [key |-> sends[n].to, epoch |-> sends[n].at, day |-> sends[n].day,
                    state |-> StateOf(sends[n].status)]
    BY SlotsTyped
  <2>2. CASE n \in S
    <3>1. StateOf(sends'[n].status) = "spent"
      BY <2>2 DEF StateOf
    <3>2. Slots'[n] = [key |-> sends[n].to, epoch |-> sends[n].at, day |-> sends[n].day,
                       state |-> "spent"]
      BY <1>2, <2>2, <3>1
    <3> QED
      BY <2>1, <2>2, <3>2
  <2>3. CASE n \notin S
    BY <1>2, <2>1, <2>3
  <2> QED
    BY <2>2, <2>3
<1>4. Slots' = [n \in DOMAIN Slots' |-> Slots'[n]]
  BY DEF Slots
<1>5. Slots' = [n \in DOMAIN Slots |->
                  IF n \in S THEN [Slots[n] EXCEPT !.state = "spent"] ELSE Slots[n]]
  BY <1>2, <1>3, <1>4, SlotsTyped
<1>6. Ledger!Settle(S)
  BY <1>5 DEF Ledger!Settle
<1> QED
  BY <1>1, <1>6 DEF Ledger!Next

\* A new row is a slot taken within the caps.
LEMMA InsertTakes ==
  ASSUME IInv, IInv', DayKept', NEW w \in Worker, Insert(w)
  PROVE  Ledger!Next
<1>1. PICK k \in Nat : k = Len(sends)
  BY DEF IInv, Shape
<1>2. PICK t : t = task[w]
  OBVIOUS
<1>3. /\ t.to \in Recipient /\ t.day \in Day /\ clock \in Instant
      /\ Len(sends') = k + 1
      /\ sends'[k + 1] = [to |-> t.to, at |-> clock, day |-> t.day,
                          limit |-> t.limit, status |-> "reserved"]
      /\ \A n \in 1 .. k : sends'[n] = sends[n]
  BY <1>1, <1>2, InsertGrows DEF IInv, Shape
<1> DEFINE new == [key |-> t.to, epoch |-> clock, day |-> t.day, state |-> "held"]
<1>4. /\ Slots \in Seq(Ledger!Slot) /\ Len(Slots) = k
      /\ \A n \in 1 .. k :
           Slots[n] = [key |-> sends[n].to, epoch |-> sends[n].at, day |-> sends[n].day,
                       state |-> StateOf(sends[n].status)]
  BY <1>1, SlotsTyped DEF IInv
<1>5. /\ Slots' \in Seq(Ledger!Slot) /\ Len(Slots') = k + 1
      /\ \A n \in 1 .. k + 1 :
           Slots'[n] = [key |-> sends'[n].to, epoch |-> sends'[n].at, day |-> sends'[n].day,
                        state |-> StateOf(sends'[n].status)]
  <2>1. (Shape => SlotsOfRows)'
    BY SlotsAre, PTL
  <2> QED
    BY <1>3, <2>1 DEF IInv, SlotsOfRows
<1>6. Slots' = Append(Slots, new)
  <2>1. new \in Ledger!Slot
    BY <1>3 DEF Ledger!Slot
  <2>2. /\ Append(Slots, new) \in Seq(Ledger!Slot)
        /\ Len(Append(Slots, new)) = k + 1
        /\ Append(Slots, new)[k + 1] = new
        /\ \A n \in 1 .. k : Append(Slots, new)[n] = Slots[n]
    BY <1>4, <2>1
  <2>3. Slots'[k + 1] = new
    BY <1>3, <1>5 DEF StateOf
  <2>4. \A n \in 1 .. k : Slots'[n] = Slots[n]
    BY <1>3, <1>4, <1>5
  <2> QED
    BY <1>5, <2>2, <2>3, <2>4
<1>7. (Shape /\ DayKept => Ledger!WithinCaps)'
  BY CapsFollow, PTL
<1>8. Ledger!WithinCaps'
  BY <1>7 DEF IInv
<1>9. Ledger!Take(t.to, clock, t.day)
  BY <1>6, <1>8 DEF Ledger!Take
<1> QED
  BY <1>3, <1>9 DEF Ledger!Next

\* The reaper settles the reserved rows that are overdue.
LEMMA ReapedSettles ==
  ASSUME Shape, Shape', sends' = Reaped
  PROVE  Ledger!Next
<1>1. /\ Len(sends') = Len(sends)
      /\ \A n \in 1 .. Len(sends) :
           sends'[n] = IF sends[n].status = "reserved" /\ sends[n].at < clock - Ttl
                       THEN [sends[n] EXCEPT !.status = "unknown_post_send"] ELSE sends[n]
  <2>1. Len(sends') = Len(sends)
    BY ReapedKept DEF Kept
  <2>2. DOMAIN sends = 1 .. Len(sends)
    BY DEF Shape
  <2> QED
    BY <2>1, <2>2 DEF Reaped
<1>2. \A n \in 1 .. Len(sends) : sends[n] \in Row
  BY DEF Shape
<1>3. PICK S \in SUBSET (1 .. Len(sends)) :
        \A n \in 1 .. Len(sends) :
          n \in S <=> sends[n].status = "reserved" /\ sends[n].at < clock - Ttl
  <2>1. {n \in 1 .. Len(sends) : sends[n].status = "reserved" /\ sends[n].at < clock - Ttl}
          \in SUBSET (1 .. Len(sends))
    OBVIOUS
  <2> QED
    BY <2>1
<1>4. \A n \in 1 .. Len(sends) :
        /\ n \notin S => sends'[n] = sends[n]
        /\ n \in S => /\ sends[n].status = "reserved"
                      /\ sends'[n].status \in {"sent", "unknown_post_send"}
                      /\ sends'[n].to = sends[n].to /\ sends'[n].at = sends[n].at
                      /\ sends'[n].day = sends[n].day
  BY <1>1, <1>2, <1>3 DEF Row
<1> QED
  BY <1>1, <1>4, SettlesSlots

\* finalize settles its row, gives it back, or finds it settled.
LEMMA FinalizeMaps ==
  ASSUME IInv, IInv', NEW w \in Worker, Finalize(w)
  PROVE  [Ledger!Next]_Slots
<1>1. PICK n, s : n = task[w].row /\ s = task[w].status
  OBVIOUS
<1>2. /\ n \in 1 .. Len(sends)
      /\ s \in {"sent", "failed_pre_send", "unknown_post_send"}
  BY <1>1, TaskAt DEF Finalize, IInv, Shape, Truth, Owned, After
<1>3. CASE sends[n].status # "reserved"
  <2>1. sends' = sends
    BY <1>1, <1>3 DEF Finalize
  <2> QED
    BY <2>1 DEF Slots
<1>4. CASE sends[n].status = "reserved"
  <2>1. sends' = [sends EXCEPT ![n].status = s]
    BY <1>1, <1>4 DEF Finalize
  <2>2. sends[n] \in Row
    BY <1>2 DEF IInv, Shape
  <2>3. /\ Len(sends') = Len(sends)
        /\ \A m \in 1 .. Len(sends) : m # n => sends'[m] = sends[m]
        /\ sends'[n] = [sends[n] EXCEPT !.status = s]
    BY <1>2, <2>1 DEF IInv, Shape
  <2>4. /\ sends'[n].to = sends[n].to /\ sends'[n].at = sends[n].at
        /\ sends'[n].day = sends[n].day /\ sends'[n].status = s
    BY <2>2, <2>3 DEF Row
  <2>5. CASE s # "failed_pre_send"
    <3>1. PICK S \in SUBSET (1 .. Len(sends)) : S = {n}
      BY <1>2
    <3>2. \A m \in 1 .. Len(sends) :
            /\ m \notin S => sends'[m] = sends[m]
            /\ m \in S => /\ sends[m].status = "reserved"
                          /\ sends'[m].status \in {"sent", "unknown_post_send"}
                          /\ sends'[m].to = sends[m].to /\ sends'[m].at = sends[m].at
                          /\ sends'[m].day = sends[m].day
      BY <1>2, <1>4, <2>3, <2>4, <2>5, <3>1
    <3> QED
      BY <2>3, <3>2, SettlesSlots DEF IInv
  <2>6. CASE s = "failed_pre_send"
    <3>1. Slots' = [Slots EXCEPT ![n].state = "freed"]
      <4>1. /\ DOMAIN sends = 1 .. Len(sends)
            /\ DOMAIN sends' = 1 .. Len(sends)
        BY <2>3 DEF IInv, Shape
      <4>2. Slots' = [m \in 1 .. Len(sends) |->
                       IF m = n THEN [Slots[m] EXCEPT !.state = "freed"] ELSE Slots[m]]
        BY <1>2, <2>3, <2>4, <2>6, <4>1 DEF Slots, StateOf
      <4>3. DOMAIN Slots = 1 .. Len(sends)
        BY <4>1 DEF Slots
      <4> QED
        BY <1>2, <4>2, <4>3 DEF Slots
    <3>2. n \in Ledger!Held /\ Slots[n].state = "held"
      BY <1>2, <1>4, SlotsTyped DEF IInv, Ledger!Held, StateOf
    <3>3. Ledger!Free(n)
      BY <3>1, <3>2 DEF Ledger!Free
    <3> QED
      BY <3>2, <3>3 DEF Ledger!Next
  <2> QED
    BY <2>5, <2>6
<1> QED
  BY <1>3, <1>4

LEMMA StepRefines ==
  ASSUME IInv, IInv', DayKept, [Next]_vars
  PROVE  DayKept' /\ [Ledger!Next]_Slots
<1>1. CASE UNCHANGED sends
  <2>1. Kept
    BY <1>1, UnchangedKept DEF IInv
  <2> QED
    BY <1>1, <2>1, DayKeptOn DEF Slots
<1>2. CASE sends' = Reaped
  <2>1. Kept
    BY <1>2, ReapedKept DEF IInv
  <2> QED
    BY <1>2, <2>1, DayKeptOn, ReapedSettles DEF IInv
<1>3. ASSUME NEW w \in Worker, Insert(w)
      PROVE  DayKept' /\ Ledger!Next
  BY <1>3, DayKeptOn, InsertTakes
<1>4. ASSUME NEW w \in Worker, Finalize(w)
      PROVE  DayKept' /\ [Ledger!Next]_Slots
  <2>1. Kept
    BY <1>4, FinalizeKept DEF IInv, Truth
  <2> QED
    BY <1>4, <2>1, DayKeptOn, FinalizeMaps
<1> QED
  BY <1>1, <1>2, <1>3, <1>4
     DEF Next, vars, Load, Label, Reap, Deny, CannotSend, HandOver, Answered, Rejected,
         Fails, CountToday, Escape, Accept, Drop, Edits, Restart, ClockMoves

\* The relay's table implements the quota ledger: with workers racing, the
\* reaper settling rows under them, late finalizes and restarts, it is at
\* every moment a ledger within the highest daily limit, and changes only as
\* a ledger may: what is settled is never freed or counted twice.
THEOREM ImplementsLedger == Spec => LedgerSpec
<1>1. Init => Ledger!Init /\ DayKept
  <2> SUFFICES ASSUME Init PROVE Ledger!Init /\ DayKept
    OBVIOUS
  <2>1. sends = <<>> /\ Len(sends) = 0 /\ Shape
    BY Initially DEF Init, IInv
  <2>2. Slots = <<>>
    BY <2>1, SlotsTyped
  <2>3. ASSUME NEW r \in Recipient, NEW d \in Day
        PROVE  Cardinality(Against(r, d, 0)) <= MaxLimit
    <3>1. Against(r, d, 0) = {}
      BY DEF Against
    <3> QED
      BY <3>1, FS_EmptySet, MailAssumption
  <2> QED
    BY <2>1, <2>2, <2>3 DEF Ledger!Init, DayKept
<1>2. IInv /\ DayKept /\ [Next]_vars => (IInv /\ DayKept)' /\ [Ledger!Next]_Slots
  BY StepKeeps, StepRefines
<1> QED
  BY <1>1, <1>2, Initially, PTL DEF Spec, LedgerSpec, Ledger!Spec
=============================================================================
