------------------------ MODULE HouseholdBoardProofs ------------------------
(***************************************************************************)
(* The board's bookkeeping of Telegram's updates, proved for any number of *)
(* chats, updates and crashes: none is forgotten before it is handled.     *)
(***************************************************************************)
EXTENDS HouseholdBoard, TLAPS

-----------------------------------------------------------------------------
(* Types                                                                   *)

LEMMA MaxOfTwo ==
  ASSUME NEW x \in Int, NEW y \in Int
  PROVE  Max({x, y}) = IF y > x THEN y ELSE x
<1> DEFINE m == IF y > x THEN y ELSE x
<1>1. m \in {x, y} /\ \A z \in {x, y} : m >= z
  OBVIOUS
<1>2. \A w \in {x, y} : (\A z \in {x, y} : w >= z) => w = m
  OBVIOUS
<1> QED
  BY <1>1, <1>2 DEF Max

LEMMA SetToSheet ==
  ASSUME items \in Sheet, NEW S, NEW v \in {Absent, Open, Bought}, SetTo(S, v)
  PROVE  items' \in Sheet
  BY DEF SetTo, Sheet

LEMMA ChangeSheet == items \in Sheet /\ Change => items' \in Sheet
  BY SetToSheet DEF Change, Put, TakeOff, Tick, ClearBought, ClearAll, Mark, Sheet

LEMMA HandledTypes ==
  ASSUME TypeOK, NEW n \in UpdateId, Handled(n)
  PROVE  handled' \in [UpdateId -> 0 .. 2]
  BY DEF TypeOK, Handled

LEMMA RedrawsTypes ==
  ASSUME TypeOK, NEW S, Redraws(S)
  PROVE  todo' \subseteq Chat /\ chat' \in Chat /\ drawn' \in Sheet
           /\ old' \in Message \cup {NoMessage} /\ at' \in Place
  BY DEF TypeOK, Redraws, Registered, Place

LEMMA SavedTypes ==
  Saved => filed' \in BOOLEAN /\ seen' \in {"never", "same", "differs"}
  BY DEF Saved

LEMMA RestsTypes ==
  /\ Blank \in Sheet /\ SomeChat \in Chat
  /\ Rests => /\ todo' \subseteq Chat /\ chat' \in Chat /\ drawn' \in Sheet
              /\ old' \in Message \cup {NoMessage}
<1>1. Blank \in Sheet
  BY DEF Blank, Sheet
<1>2. SomeChat \in Chat
  BY BoardAssumption DEF SomeChat
<1> QED
  BY <1>1, <1>2 DEF Rests

LEMMA AppearsTypes ==
  ASSUME TypeOK, NEW m \in Unused, Appears(m)
  PROVE  /\ alive' \subseteq Message /\ chatOf' \in [Message -> Chat]
         /\ shows' \in [Message -> Sheet] /\ m \in Message
         /\ UNCHANGED <<updates, confirmed>>
  BY DEF TypeOK, Appears, Unused

LEMMA TypesInitially == Init => TypeOK
<1> SUFFICES ASSUME Init PROVE TypeOK
  OBVIOUS
<1> USE DEF Init
<1>1. items \in Sheet
  BY DEF Empty, Sheet
<1>2. shows \in [Message -> Sheet] /\ drawn \in Sheet /\ chat \in Chat
        /\ chatOf \in [Message -> Chat]
  BY RestsTypes
<1>3. /\ updates \in Seq(Update) /\ Len(updates) = 0
      /\ saved \in [Chat -> Message \cup {NoMessage}]
      /\ registry \in [Chat -> Message \cup {NoMessage}]
      /\ handled \in [UpdateId -> 0 .. 2]
  OBVIOUS
<1>4. at \in Place /\ mark \in Mark
  BY DEF Place, Mark
<1>5. /\ filed = FALSE /\ changes = 0 /\ confirmed = 0 /\ alive = {} /\ offset = 0 /\ batch = {}
      /\ seen = "never" /\ turn = 0 /\ todo = {} /\ old = NoMessage
  OBVIOUS
<1> HIDE DEF Init
<1>6. /\ changes \in 0 .. MaxChanges /\ Len(updates) <= MaxUpdates
      /\ confirmed \in 0 .. Len(updates) /\ offset \in 0 .. Len(updates) + 1
      /\ turn \in 0 .. Len(updates)
  BY <1>3, <1>5, BoardAssumption
<1>7. /\ filed \in BOOLEAN /\ alive \subseteq Message /\ batch \subseteq 1 .. Len(updates)
      /\ seen \in {"never", "same", "differs"} /\ todo \subseteq Chat
      /\ old \in Message \cup {NoMessage}
  BY <1>5
<1> QED
  BY <1>1, <1>2, <1>3, <1>4, <1>6, <1>7 DEF TypeOK

LEMMA AgentChangesTypes ==
  ASSUME TypeOK, AgentChanges
  PROVE  TypeOK'
<1> USE DEF AgentChanges
<1>1. items' \in Sheet /\ filed' \in BOOLEAN /\ seen' \in {"never", "same", "differs"}
  BY ChangeSheet, SavedTypes DEF TypeOK
<1>2. changes' \in 0 .. MaxChanges
  BY BoardAssumption DEF TypeOK
<1> QED
  BY <1>1, <1>2 DEF TypeOK, telegram, boards, drawing

LEMMA SendsTypes ==
  ASSUME TypeOK, NEW u \in Update, Sends(u)
  PROVE  TypeOK'
<1> USE DEF Sends
<1>1. updates' \in Seq(Update) /\ Len(updates') = Len(updates) + 1
  BY DEF TypeOK
<1>2. Len(updates) \in Nat /\ Len(updates') <= MaxUpdates
  BY <1>1, BoardAssumption DEF TypeOK
<1>3. /\ confirmed' \in 0 .. Len(updates') /\ offset' \in 0 .. Len(updates') + 1
      /\ batch' \subseteq 1 .. Len(updates') /\ turn' \in 0 .. Len(updates')
  BY <1>1, <1>2 DEF TypeOK
<1> QED
  BY <1>1, <1>2, <1>3 DEF TypeOK, list, boards, drawing

LEMMA FetchTypes ==
  ASSUME TypeOK, Fetch
  PROVE  TypeOK'
<1> USE DEF Fetch
<1>1. confirmed' = IF offset - 1 > confirmed THEN offset - 1 ELSE confirmed
  BY MaxOfTwo DEF TypeOK
<1>2. confirmed' \in 0 .. Len(updates)
  BY <1>1 DEF TypeOK
<1>3. batch' \subseteq 1 .. Len(updates)
  <2>1. Len(updates) \in Nat
    BY DEF TypeOK
  <2>2. batch' = batch \/ batch' = (confirmed' + 1) .. Len(updates)
    OBVIOUS
  <2>3. batch \subseteq 1 .. Len(updates)
    BY DEF TypeOK
  <2>4. ASSUME NEW l \in Nat, NEW c \in 0 .. l
        PROVE  (c + 1) .. l \subseteq 1 .. l
    OBVIOUS
  <2>5. (confirmed' + 1) .. Len(updates) \subseteq 1 .. Len(updates)
    BY <1>2, <2>1, <2>4
  <2> HIDE DEF Fetch
  <2> QED
    BY <2>2, <2>3, <2>5
<1>4. at' \in Place
  BY DEF TypeOK, Place
<1> QED
  BY <1>2, <1>3, <1>4 DEF TypeOK, list, boards, drawing

\* The fields Takes changes.
LEMMA TakesTypes ==
  ASSUME TypeOK, NEW n \in UpdateId, Takes(n)
  PROVE  /\ offset' \in 0 .. Len(updates) + 1
         /\ batch' \subseteq 1 .. Len(updates)
         /\ turn' \in 0 .. Len(updates)
         /\ n \in 1 .. Len(updates)
         /\ updates[n] \in Update
  BY MaxOfTwo DEF TypeOK, Takes

LEMMA DeleteMessageTypes ==
  ASSUME TypeOK, NEW m \in Message, DeleteMessage(m)
  PROVE  TypeOK'
  BY DEF TypeOK, DeleteMessage, list, telegram, boards, drawing

LEMMA TakeTapTypes ==
  ASSUME TypeOK, NEW n \in UpdateId, TakeTap(n)
  PROVE  TypeOK'
  BY TakesTypes DEF TypeOK, TakeTap, Place, list, telegram, boards, drawing

LEMMA LookTypes ==
  ASSUME TypeOK, Look
  PROVE  TypeOK'
  BY RedrawsTypes DEF TypeOK, Look, Place, Mark, list, telegram, boards, drawing

LEMMA TickItemTypes ==
  ASSUME TypeOK, TickItem
  PROVE  TypeOK'
  BY RedrawsTypes, SavedTypes, SetToSheet DEF TypeOK, TickItem, Tick, Mark, list, telegram,
     boards, drawing

LEMMA TakeClearTypes ==
  ASSUME TypeOK, NEW n \in UpdateId, TakeClear(n)
  PROVE  TypeOK'
  BY TakesTypes, RedrawsTypes, SavedTypes, SetToSheet DEF TypeOK, TakeClear, ClearBought,
     list, telegram, boards, drawing

LEMMA TakeRefreshTypes ==
  ASSUME TypeOK, NEW n \in UpdateId, TakeRefresh(n)
  PROVE  TypeOK'
  BY TakesTypes, RedrawsTypes DEF TypeOK, TakeRefresh, list, telegram, boards, drawing

LEMMA TakeListTypes ==
  ASSUME TypeOK, NEW n \in UpdateId, TakeList(n)
  PROVE  TypeOK'
  BY TakesTypes DEF TypeOK, TakeList, Posts, Update, Place, list, telegram, boards, drawing

LEMMA TakeAddTypes ==
  ASSUME TypeOK, NEW n \in UpdateId, TakeAdd(n)
  PROVE  TypeOK'
<1> USE DEF TakeAdd
<1>1. UNCHANGED <<changes, telegram, boards, mark>>
  OBVIOUS
<1>2. /\ offset' \in 0 .. Len(updates) + 1 /\ batch' \subseteq 1 .. Len(updates)
      /\ turn' \in 0 .. Len(updates)
  BY TakesTypes
<1>3. updates[n].chat \in Chat
  BY TakesTypes DEF Update
<1>4. items' \in Sheet /\ filed' \in BOOLEAN /\ seen' \in {"never", "same", "differs"}
  BY SetToSheet, SavedTypes DEF TypeOK, Put, list
<1>5. /\ todo' \subseteq Chat /\ chat' \in Chat /\ drawn' \in Sheet
      /\ old' \in Message \cup {NoMessage} /\ at' \in Place
  BY <1>3, RedrawsTypes DEF TypeOK, Posts, Place, drawing
<1>6. handled' \in [UpdateId -> 0 .. 2]
  BY HandledTypes DEF TypeOK
<1> QED
  BY <1>1, <1>2, <1>4, <1>5, <1>6 DEF TypeOK, telegram, boards

LEMMA PollTypes ==
  ASSUME TypeOK, Poll
  PROVE  TypeOK'
  BY DEF TypeOK, Poll, Registered, Place, list, telegram, boards, drawing

LEMMA DrawTypes ==
  ASSUME TypeOK, Draw
  PROVE  TypeOK'
<1> USE DEF Draw
<1>1. UNCHANGED <<list, changes, telegram, boards, offset, batch, seen, turn, mark>>
  OBVIOUS
<1>2. turn # 0 => turn \in UpdateId
  BY BoardAssumption DEF TypeOK, UpdateId
<1>3. handled' \in [UpdateId -> 0 .. 2]
  BY <1>2, HandledTypes DEF TypeOK
<1>4. /\ todo' \subseteq Chat /\ chat' \in Chat /\ drawn' \in Sheet
      /\ old' \in Message \cup {NoMessage} /\ at' \in Place
  BY RestsTypes DEF TypeOK, Place
<1> QED
  BY <1>1, <1>3, <1>4 DEF TypeOK, list, telegram, boards

LEMMA EditTypes ==
  ASSUME TypeOK, Edit
  PROVE  TypeOK'
  BY DEF TypeOK, Edit, Place, list, telegram, boards, drawing

LEMMA PostTypes ==
  ASSUME TypeOK, Post
  PROVE  TypeOK'
  BY DEF TypeOK, Post, Place, list, telegram, boards, drawing

LEMMA SendTypes ==
  ASSUME TypeOK, Send
  PROVE  TypeOK'
  BY AppearsTypes DEF TypeOK, Send, Place, list, telegram, boards, drawing

LEMMA SendFailsTypes ==
  ASSUME TypeOK, SendFails
  PROVE  TypeOK'
  BY AppearsTypes DEF TypeOK, SendFails, Place, list, telegram, boards, drawing

LEMMA UnpinTypes ==
  ASSUME TypeOK, Unpin
  PROVE  TypeOK'
  BY DEF TypeOK, Unpin, Place, list, telegram, boards, drawing

LEMMA RestartsTypes ==
  ASSUME TypeOK, Restarts
  PROVE  TypeOK'
  BY RestsTypes DEF TypeOK, Restarts, Place, Mark, list, telegram, boards, drawing

LEMMA CannotReadTypes ==
  ASSUME TypeOK, CannotRead
  PROVE  TypeOK'
<1>1. CASE turn = 0
  BY <1>1, RestartsTypes DEF CannotRead
<1>2. CASE turn # 0
  <2> USE <1>2 DEF CannotRead
  <2>1. turn \in UpdateId
    BY BoardAssumption DEF TypeOK, UpdateId
  <2>2. handled' \in [UpdateId -> 0 .. 2]
    BY <2>1, HandledTypes
  <2>3. at' \in Place
    BY DEF Place
  <2> QED
    BY <2>2, <2>3, RestsTypes DEF TypeOK, list, telegram, boards
<1> QED
  BY <1>1, <1>2

\* What the family sends is an update.
LEMMA FamilySends ==
  ASSUME TypeOK,
         \/ \E m \in Message : (\E i \in Item : TapItem(m, i)) \/ TapFooter(m)
         \/ \E c \in Chat : Command(c)
  PROVE  \E u \in Update : Sends(u)
<1>1. ASSUME NEW m \in Message, NEW i \in Item, TapItem(m, i)
      PROVE  \E u \in Update : Sends(u)
  <2>1. chatOf[m] \in Chat /\ shows[m][i] \in Mark
    BY <1>1 DEF TypeOK, TapItem, Sheet, Mark
  <2> QED
    BY <1>1, <2>1 DEF TapItem, Update
<1>2. ASSUME NEW m \in Message, TapFooter(m)
      PROVE  \E u \in Update : Sends(u)
  <2>1. chatOf[m] \in Chat
    BY DEF TypeOK
  <2> QED
    BY <1>2, <2>1 DEF TapFooter, Update
<1>3. ASSUME NEW c \in Chat, Command(c)
      PROVE  \E u \in Update : Sends(u)
  BY <1>3 DEF Command, Update
<1> QED
  BY <1>1, <1>2, <1>3

LEMMA TypesStep == TypeOK /\ [Next]_vars => TypeOK'
<1> SUFFICES ASSUME TypeOK, [Next]_vars PROVE TypeOK'
  OBVIOUS
<1>1. CASE AgentChanges \/ Crash
  BY <1>1, AgentChangesTypes, RestartsTypes DEF Crash
<1>2. CASE Family
  BY <1>2, FamilySends, SendsTypes, DeleteMessageTypes DEF Family
<1>3. CASE Loop
  BY <1>3, FetchTypes, TakeTapTypes, TakeClearTypes, TakeRefreshTypes, TakeListTypes,
     TakeAddTypes, LookTypes, TickItemTypes, PollTypes, DrawTypes, EditTypes, PostTypes,
     SendTypes, SendFailsTypes, UnpinTypes, CannotReadTypes DEF Loop
<1>4. CASE UNCHANGED vars
  BY <1>4 DEF vars, TypeOK, list, telegram, boards, drawing
<1> QED
  BY <1>1, <1>2, <1>3, <1>4 DEF Next

\* The service, Telegram and the list keep their types, whatever fails.
THEOREM BoardTypes == Spec => []TypeOK
  BY TypesInitially, TypesStep, PTL DEF Spec

-----------------------------------------------------------------------------
(* No update is lost                                                       *)

\* The updates up to here are handled, or being handled.
Base == IF offset - 1 > confirmed THEN offset - 1 ELSE confirmed

\* An update (or, with turn 0, a poll) is being handled.
Busy == at \notin {"fetch", "next"}

\* With the types, the inductive invariant: the batch goes on from Base
\* without a gap; everything up to Base is handled but for the update of the
\* turn; what Telegram has forgotten is handled without exception, so that a
\* crash, which forgets offset, loses nothing.
NoGap == \A n \in batch : n > Base /\ \A k \in Nat : Base < k /\ k <= n => k \in batch
BaseHandled == \A n \in 1 .. Base : handled[n] > 0 \/ (Busy /\ n = turn)

Counting == NoGap /\ BaseHandled /\ NothingLost

count == <<confirmed, offset, batch, handled>>

LEMMA BaseType == TypeOK => Base \in 0 .. Len(updates) /\ Len(updates) \in Nat
  BY DEF TypeOK, Base

LEMMA CountingInitially == Init => Counting
  BY DEF Init, Counting, NoGap, BaseHandled, NothingLost, Base

\* Steps that leave the counting alone and do not end the handling of the
\* update of the turn.
LEMMA Quiet ==
  ASSUME Counting, UNCHANGED count, UNCHANGED turn, Busy => Busy'
  PROVE  Counting'
<1>1. Base' = Base
  BY DEF Base, count
<1> QED
  BY <1>1 DEF Counting, NoGap, BaseHandled, NothingLost, count

LEMMA QuietSteps ==
  ASSUME Counting,
         \/ AgentChanges
         \/ \E u \in Update : Sends(u)
         \/ \E m \in Message : DeleteMessage(m)
         \/ Look \/ TickItem \/ Edit \/ Post \/ Send \/ SendFails \/ Unpin
         \/ Draw /\ todo # {}
  PROVE  Counting'
<1>1. UNCHANGED turn /\ UNCHANGED count
  BY DEF AgentChanges, Sends, DeleteMessage, Look, TickItem, Edit, Post, Send, SendFails,
         Unpin, Draw, Appears, telegram, count
<1>2. Busy => Busy'
  BY DEF AgentChanges, Sends, DeleteMessage, Look, TickItem, Edit, Post, Send, SendFails,
         Unpin, Draw, Redraws, Busy
<1> QED
  BY <1>1, <1>2, Quiet

\* Nothing is in hand: everything up to Base is handled.
LEMMA AllHandled ==
  ASSUME Counting, ~Busy
  PROVE  \A n \in 1 .. Base : handled[n] > 0
  BY DEF Counting, BaseHandled

LEMMA FetchCounts == ASSUME TypeOK, Counting, Fetch PROVE Counting'
<1> USE DEF Fetch
<1>1. confirmed' = Base
  BY MaxOfTwo DEF TypeOK, Base
<1>2. Base' = Base
  BY <1>1 DEF Base, TypeOK
<1>3. \A n \in 1 .. Base : handled[n] > 0
  BY AllHandled DEF Busy
<1>4. batch' = batch \/ batch' = (Base + 1) .. Len(updates)
  BY <1>1
<1>5. UNCHANGED handled
  OBVIOUS
<1> HIDE DEF Fetch
<1>6. NoGap'
  BY <1>2, <1>4, BaseType DEF Counting, NoGap
<1>7. BaseHandled' /\ NothingLost'
  BY <1>1, <1>2, <1>3, <1>5 DEF BaseHandled, NothingLost
<1> QED
  BY <1>6, <1>7 DEF Counting

\* Taking the next update moves Base on by one, to that update.
LEMMA TakesMoves ==
  ASSUME TypeOK, Counting, NEW n \in UpdateId, Takes(n), UNCHANGED confirmed
  PROVE  /\ n = Base + 1
         /\ Base' = n
         /\ NoGap'
<1> USE DEF Takes
<1>1. Base \in Nat /\ n > Base /\ n \in Nat /\ n \in batch
  BY BaseType DEF Counting, NoGap, UpdateId
<1>2. n = Base + 1
  <2>1. Base + 1 \in Nat /\ Base < Base + 1 /\ Base + 1 <= n
    BY <1>1
  <2>2. Base + 1 \in batch
    BY <1>1, <2>1 DEF Counting, NoGap
  <2>3. n <= Base + 1
    BY <2>2
  <2> QED
    BY <1>1, <2>3
<1>3. offset' = n + 1
  BY <1>1, <1>2, MaxOfTwo DEF TypeOK, Base
<1>4. Base' = n
  <2>1. Base >= confirmed /\ confirmed \in Nat
    BY DEF Base, TypeOK
  <2>2. offset' - 1 = n /\ n > confirmed
    BY <1>1, <1>2, <1>3, <2>1
  <2> QED
    BY <2>2 DEF Base
<1>5. NoGap'
  <2> SUFFICES ASSUME NEW b \in batch' 
               PROVE  b > n /\ \A k \in Nat : n < k /\ k <= b => k \in batch'
    BY <1>4 DEF NoGap
  <2>1. b \in batch /\ b # n /\ b \in Nat /\ b > Base
    BY DEF TypeOK, Counting, NoGap
  <2>2. b > n
    BY <1>1, <1>2, <2>1
  <2>3. ASSUME NEW k \in Nat, n < k, k <= b PROVE k \in batch /\ k # n
    BY <1>1, <1>2, <2>1, <2>3 DEF Counting, NoGap
  <2> QED
    BY <2>2, <2>3
<1> QED
  BY <1>2, <1>4, <1>5

LEMMA TakesCounts ==
  ASSUME TypeOK, Counting, NEW n \in UpdateId, Takes(n), UNCHANGED confirmed,
         (Busy' /\ UNCHANGED handled) \/ Handled(n)
  PROVE  Counting'
<1>1. n = Base + 1 /\ Base' = n /\ NoGap' /\ Base \in Nat
  BY TakesMoves, BaseType
<1>2. \A k \in 1 .. Base : handled[k] > 0
  BY AllHandled DEF Busy, Takes
<1>3. \A k \in UpdateId : handled[k] > 0 => handled'[k] > 0
  BY DEF Handled, TypeOK
<1>4. handled'[n] > 0 \/ (Busy' /\ turn' = n)
  BY DEF Handled, TypeOK, Takes
<1>5. \A k \in 1 .. n : k \in UpdateId /\ (k = n \/ k \in 1 .. Base)
  BY <1>1, BoardAssumption DEF UpdateId
<1>6. BaseHandled'
  BY <1>1, <1>2, <1>3, <1>4, <1>5 DEF BaseHandled
<1>7. \A k \in 1 .. confirmed : k \in UpdateId
  BY BoardAssumption DEF TypeOK, UpdateId
<1>8. NothingLost'
  BY <1>3, <1>7 DEF Counting, NothingLost
<1> QED
  BY <1>1, <1>6, <1>8 DEF Counting

LEMMA TakeSteps ==
  ASSUME TypeOK, Counting, NEW n \in UpdateId,
         TakeTap(n) \/ TakeClear(n) \/ TakeRefresh(n) \/ TakeList(n) \/ TakeAdd(n)
  PROVE  Counting'
<1>1. Takes(n) /\ UNCHANGED confirmed
  BY DEF TakeTap, TakeClear, TakeRefresh, TakeList, TakeAdd, telegram
<1>2. (Busy' /\ UNCHANGED handled) \/ Handled(n)
  BY DEF TakeTap, TakeClear, TakeRefresh, TakeList, TakeAdd, Redraws, Posts, Busy
<1> QED
  BY <1>1, <1>2, TakesCounts

LEMMA PollCounts == ASSUME TypeOK, Counting, Poll PROVE Counting'
<1>1. Base' = Base /\ UNCHANGED count
  BY DEF Poll, Base, telegram, count
<1>2. \A n \in 1 .. Base : handled[n] > 0
  BY AllHandled DEF Busy, Poll
<1> QED
  BY <1>1, <1>2 DEF Counting, NoGap, BaseHandled, NothingLost, count

\* The handling of the update of the turn ends.
LEMMA EndCounts ==
  ASSUME TypeOK, Counting, UNCHANGED <<confirmed, offset, batch>>,
         \/ turn = 0 /\ UNCHANGED handled
         \/ turn # 0 /\ Handled(turn)
  PROVE  Counting'
<1>1. Base' = Base /\ Base \in 0 .. Len(updates) /\ Len(updates) \in Nat
  BY BaseType DEF Base
<1>2. \A k \in UpdateId : handled[k] > 0 \/ k = turn => handled'[k] > 0
  <2>1. CASE turn = 0 /\ UNCHANGED handled
    BY <2>1 DEF UpdateId
  <2>2. CASE turn # 0 /\ Handled(turn)
    <3>1. \A k \in UpdateId : handled[k] \in 0 .. 2
      BY DEF TypeOK
    <3>2. handled \in [UpdateId -> 0 .. 2]
      BY DEF TypeOK
    <3> QED
      BY <2>2, <3>1, <3>2 DEF Handled
  <2> QED
    BY <2>1, <2>2
<1>3. \A k \in 1 .. Len(updates) : k \in UpdateId
  BY BoardAssumption DEF TypeOK, UpdateId
<1>4. \A k \in 1 .. Base : handled'[k] > 0
  BY <1>1, <1>2, <1>3 DEF Counting, BaseHandled
<1>5. \A k \in 1 .. confirmed : handled'[k] > 0
  BY <1>2, <1>3 DEF Counting, NothingLost, TypeOK
<1> QED
  BY <1>1, <1>4, <1>5 DEF Counting, NoGap, BaseHandled, NothingLost

LEMMA RestartCounts == ASSUME TypeOK, Counting, Restarts PROVE Counting'
<1>1. Base' = confirmed
  BY DEF Restarts, Base, telegram, TypeOK
<1> QED
  BY <1>1 DEF Restarts, Counting, NoGap, BaseHandled, NothingLost, telegram

LEMMA CountingStep == TypeOK /\ Counting /\ [Next]_vars => Counting'
<1> SUFFICES ASSUME TypeOK, Counting, [Next]_vars PROVE Counting'
  OBVIOUS
<1>1. CASE AgentChanges \/ Crash
  BY <1>1, QuietSteps, RestartCounts DEF Crash
<1>2. CASE Family
  BY <1>2, FamilySends, QuietSteps DEF Family
<1>3. CASE Draw /\ todo = {}
  BY <1>3, EndCounts DEF Draw, telegram
<1>4. CASE CannotRead
  BY <1>4, EndCounts, RestartCounts DEF CannotRead, telegram
<1>5. CASE Loop
  BY <1>3, <1>4, <1>5, QuietSteps, FetchCounts, TakeSteps, PollCounts DEF Loop
<1>6. CASE UNCHANGED vars
  BY <1>6, Quiet DEF vars, telegram, count, Busy
<1> QED
  BY <1>1, <1>2, <1>5, <1>6 DEF Next

\* For any number of chats, updates and crashes: Telegram is never told to
\* forget an update that has not been handled.
THEOREM NoUpdateForgotten == Spec => []NothingLost
<1>1. Counting => NothingLost
  BY DEF Counting
<1> QED
  BY <1>1, CountingInitially, CountingStep, BoardTypes, PTL DEF Spec

-----------------------------------------------------------------------------
(* The board that is taken up again                                        *)

\* When no save fails and nobody else deletes boards: memory and boards.json
\* agree, every chat has a board of its own, and what is about to be deleted
\* is nobody's board.
Keeping ==
  /\ registry = saved
  /\ SavedBoardKept
  /\ \A c, d \in Chat : c # d /\ saved[c] # NoMessage => saved[c] # saved[d]
  /\ at = "unpin" => \A c \in Chat : saved[c] # NoMessage => saved[c] # old

LEMMA KeepingInitially == Init => Keeping
  BY DEF Init, Keeping, SavedBoardKept

LEMMA SendKeeps ==
  ASSUME TypeOK, Keeping, "save" \notin Faults, Send
  PROVE  Keeping'
<1> USE DEF Send
<1>1. PICK m \in Unused : /\ Appears(m)
                          /\ registry' = [registry EXCEPT ![chat] = m]
                          /\ saved' = registry'
  OBVIOUS
<1>2. m \in Message /\ m # NoMessage /\ \A c \in Chat : m # saved[c]
  BY BoardAssumption DEF Unused
<1>3. /\ chat \in Chat /\ saved'[chat] = m
      /\ \A c \in Chat : c # chat => saved'[c] = saved[c]
  BY <1>1 DEF Keeping, TypeOK
<1>4. alive' = alive \cup {m} /\ old' = saved[chat]
  BY <1>1 DEF Appears, Keeping
<1>5. SavedBoardKept'
  BY <1>3, <1>4 DEF Keeping, SavedBoardKept
<1>6. \A c, d \in Chat : c # d /\ saved'[c] # NoMessage => saved'[c] # saved'[d]
  BY <1>2, <1>3 DEF Keeping
<1>7. \A c \in Chat : saved'[c] # NoMessage => saved'[c] # old'
  BY <1>2, <1>3, <1>4 DEF Keeping
<1> HIDE DEF Send
<1> QED
  BY <1>1, <1>5, <1>6, <1>7 DEF Keeping

LEMMA KeepingStep ==
  ASSUME TypeOK, Keeping, "save" \notin Faults, "deleted" \notin Faults, [Next]_vars
  PROVE  Keeping'
<1>1. CASE Send
  BY <1>1, SendKeeps
<1>2. CASE SendFails
  <2>1. UNCHANGED boards /\ at' = "draw" /\ alive \subseteq alive'
    BY <1>2 DEF SendFails, Appears, telegram
  <2> QED
    BY <2>1 DEF Keeping, SavedBoardKept, boards
<1>3. CASE Unpin
  <2>1. UNCHANGED boards /\ at = "unpin" /\ at' = "draw" /\ alive \ {old} \subseteq alive'
    BY <1>3 DEF Unpin
  <2> QED
    BY <2>1 DEF Keeping, SavedBoardKept, boards
<1>4. CASE Restarts
  <2>1. registry' = saved /\ UNCHANGED <<saved, alive>> /\ at' = "fetch"
    BY <1>4 DEF Restarts, telegram
  <2> QED
    BY <2>1 DEF Keeping, SavedBoardKept
<1>5. CASE /\ UNCHANGED <<registry, saved, alive, old>>
           /\ at' = "unpin" => at = "unpin"
  BY <1>5 DEF Keeping, SavedBoardKept
<1>6. CASE /\ UNCHANGED <<registry, saved, alive>>
           /\ at' # "unpin"
  BY <1>6 DEF Keeping, SavedBoardKept
<1>7. CASE AgentChanges \/ Family \/ UNCHANGED vars
  <2>1. ASSUME NEW u \in Update, Sends(u)
        PROVE  UNCHANGED <<registry, saved, alive, old, at>>
    BY <2>1 DEF Sends, boards, drawing
  <2>2. CASE Family
    BY <1>5, <2>1, <2>2, FamilySends DEF Family, DeleteMessage
  <2> QED
    BY <1>5, <1>7, <2>2 DEF AgentChanges, vars, telegram, boards, drawing
<1>8. ASSUME NEW n \in UpdateId,
             TakeTap(n) \/ TakeClear(n) \/ TakeRefresh(n) \/ TakeList(n) \/ TakeAdd(n)
      PROVE  Keeping'
  <2>1. UNCHANGED <<registry, saved, alive>> /\ at' # "unpin"
    BY <1>8 DEF TakeTap, TakeClear, TakeRefresh, TakeList, TakeAdd, Redraws, Posts,
       telegram, boards
  <2> QED
    BY <1>6, <2>1
<1>9. CASE Fetch \/ Look \/ TickItem \/ Poll \/ Draw \/ Edit \/ Post
  <2>1. UNCHANGED <<registry, saved, alive>> /\ at' # "unpin"
    BY <1>9 DEF Fetch, Look, TickItem, Poll, Draw, Edit, Post, Redraws, telegram, boards
  <2> QED
    BY <1>6, <2>1
<1>10. CASE CannotRead
  <2>1. CASE turn # 0
    BY <1>6, <1>10, <2>1 DEF CannotRead, telegram, boards
  <2> QED
    BY <1>4, <1>10, <2>1 DEF CannotRead
<1> QED
  BY <1>1, <1>2, <1>3, <1>4, <1>7, <1>8, <1>9, <1>10 DEF Next, Loop, Crash

\* Wherever the service dies, the board that boards.json names is still
\* there, unless a save failed or someone else deleted it.
THEOREM BoardTakenUpAgain ==
  ASSUME "save" \notin Faults, "deleted" \notin Faults
  PROVE  Spec => []SavedBoardKept
<1>1. Keeping => SavedBoardKept
  BY DEF Keeping
<1>2. TypeOK /\ Keeping /\ [Next]_vars => Keeping'
  BY KeepingStep
<1> QED
  BY <1>1, <1>2, KeepingInitially, BoardTypes, PTL DEF Spec
=============================================================================
