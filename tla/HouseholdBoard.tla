--------------------------- MODULE HouseholdBoard ---------------------------
(***************************************************************************)
(* The board service (household-board/board.py) between Telegram, which    *)
(* repeats an update until a later getUpdates confirms it, and a shopping  *)
(* list the agent also changes.  The service is one loop: get updates,     *)
(* handle each, look at the list's modification time, redraw.  It is cut   *)
(* at every call of the store or of Telegram, where the agent, the family  *)
(* or a crash may come between.                                            *)
(*                                                                         *)
(* One list and the chats of the allowlist are modelled; a chat that is    *)
(* not on it is ignored before anything is read.                           *)
(***************************************************************************)
EXTENDS ShoppingList, Sequences, FiniteSetsExt

CONSTANTS Chat,        \* the allowlisted chats
          Message,     \* identifiers of board messages
          Faults,      \* what goes wrong: see Fault
          MaxUpdates,  \* bound: updates the family sends
          MaxChanges   \* bound: changes the agent makes

\* A call to Telegram fails or its answer is lost; the service dies; the
\* store fails; the registry cannot be saved; someone deletes a board message.
Fault == {"api", "crash", "store", "save", "deleted"}

NoMessage == "no message"

ASSUME BoardAssumption ==
  /\ Chat # {}
  /\ Faults \subseteq Fault
  /\ MaxUpdates \in Nat
  /\ MaxChanges \in Nat
  /\ NoMessage \notin Message

VARIABLES
  filed,      \* whether the list's file exists
  changes,    \* the changes the agent has made
  updates,    \* Telegram: all updates so far; an update's id is its position
  confirmed,  \* Telegram: it forgets the updates up to here
  alive,      \* Telegram: the board messages there are
  chatOf,     \* the chat of each of them
  shows,      \* what each of them displays
  saved,      \* boards.json: the board message of each chat
  registry,   \* the same in the service's memory
  offset,     \* the next update to ask for
  batch,      \* the updates of the last answer still to handle
  seen,       \* _mtimes against the file: "never" looked, "same" or "differs"
  at,         \* where the service is
  turn,       \* the update it is handling, 0 when it redraws after a poll
  mark,       \* what it is about to set the tapped item to
  todo,       \* the chats it is about to redraw
  chat,       \* the chat it is drawing
  drawn,      \* what it is about to display there
  old,        \* the board it has replaced there
  handled     \* how often each update has been handled (not in the code)

list == <<items, filed>>
telegram == <<updates, confirmed, alive, chatOf, shows>>
boards == <<saved, registry>>
drawing == <<todo, chat, drawn, old>>
vars == <<list, changes, telegram, boards, offset, batch, seen,
          at, turn, mark, drawing, handled>>

UpdateId == 1 .. MaxUpdates
Sheet == [Item -> {Absent, Open, Bought}]
Blank == [i \in Item |-> Absent]
SomeChat == CHOOSE c \in Chat : TRUE

Update == [kind : {"item"}, chat : Chat, item : Item]
            \cup [kind : {"add"}, chat : Chat, item : Item]
            \cup [kind : {"clear", "refresh", "list"}, chat : Chat]

Place == {"fetch", "next", "look", "tick", "draw", "edit", "post", "send", "unpin"}

Registered == {c \in Chat : registry[c] # NoMessage}

Init ==
  /\ Empty
  /\ filed = FALSE
  /\ changes = 0
  /\ updates = <<>>
  /\ confirmed = 0
  /\ alive = {}
  /\ chatOf = [m \in Message |-> SomeChat]
  /\ shows = [m \in Message |-> Blank]
  /\ saved = [c \in Chat |-> NoMessage]
  /\ registry = saved
  /\ offset = 0
  /\ batch = {}
  /\ seen = "never"
  /\ at = "fetch"
  /\ turn = 0
  /\ mark = Open
  /\ todo = {}
  /\ chat = SomeChat
  /\ drawn = Blank
  /\ old = NoMessage
  /\ handled = [n \in UpdateId |-> 0]

-----------------------------------------------------------------------------
(* The list: the agent, the board and the modification time                *)

\* A save gives the file a new modification time.
Saved ==
  /\ filed' = TRUE
  /\ seen' = IF seen = "never" THEN "never" ELSE "differs"

\* The agent, through the plugin.
AgentChanges ==
  /\ changes < MaxChanges
  /\ Change
  /\ items' # items
  /\ Saved
  /\ changes' = changes + 1
  /\ UNCHANGED <<telegram, boards, offset, batch, at, turn, mark, drawing, handled>>

-----------------------------------------------------------------------------
(* The family                                                              *)

Sends(u) ==
  /\ Len(updates) < MaxUpdates
  /\ updates' = Append(updates, u)
  /\ UNCHANGED <<list, changes, confirmed, alive, chatOf, shows, boards, offset,
                 batch, seen, at, turn, mark, drawing, handled>>

\* A button of a message: one for each item it displays, and the footer.
TapItem(m, i) ==
  /\ m \in alive
  /\ shows[m][i] # Absent
  /\ Sends([kind |-> "item", chat |-> chatOf[m], item |-> i])

TapFooter(m) ==
  /\ m \in alive
  /\ \/ /\ \E i \in Item : shows[m][i] = Bought
        /\ Sends([kind |-> "clear", chat |-> chatOf[m]])
     \/ Sends([kind |-> "refresh", chat |-> chatOf[m]])

Command(c) ==
  \/ Sends([kind |-> "list", chat |-> c])
  \/ \E i \in Item : Sends([kind |-> "add", chat |-> c, item |-> i])

DeleteMessage(m) ==
  /\ "deleted" \in Faults
  /\ m \in alive
  /\ alive' = alive \ {m}
  /\ UNCHANGED <<list, changes, updates, confirmed, chatOf, shows, boards, offset,
                 batch, seen, at, turn, mark, drawing, handled>>

-----------------------------------------------------------------------------
(* The loop                                                                *)

\* Mutant: the whole answer is confirmed before it is handled.
FetchAndConfirm ==
  /\ at = "fetch"
  /\ confirmed' = Len(updates)
  /\ at' = "next"
  /\ batch' = (confirmed + 1) .. Len(updates)
  /\ UNCHANGED <<list, changes, updates, alive, chatOf, shows, boards, offset,
                 seen, turn, mark, drawing, handled>>

\* getUpdates confirms what lies before offset and answers the rest; if the
\* answer is lost the loop starts over.
Fetch ==
  /\ at = "fetch"
  /\ confirmed' = Max({confirmed, offset - 1})
  /\ \/ /\ at' = "next"
        /\ batch' = (confirmed' + 1) .. Len(updates)
     \/ /\ "api" \in Faults
        /\ UNCHANGED <<at, batch>>
  /\ UNCHANGED <<list, changes, updates, alive, chatOf, shows, boards, offset,
                 seen, turn, mark, drawing, handled>>

\* The next update of the batch; offset moves on before it is handled.
Takes(n) ==
  /\ at = "next"
  /\ n \in batch /\ \A k \in batch : n <= k
  /\ batch' = batch \ {n}
  /\ offset' = Max({offset, n + 1})
  /\ turn' = n

\* The handling of update n ends, with or without success.
Handled(n) == handled' = [handled EXCEPT ![n] = IF @ = 2 THEN 2 ELSE @ + 1]

\* refresh_board, if the chat has a board.
Redraws(chats) ==
  /\ at' = "draw"
  /\ todo' = chats \cap Registered
  /\ UNCHANGED <<chat, drawn, old>>

\* The locals of a drawing that is over.
Rests ==
  /\ todo' = {}
  /\ chat' = SomeChat
  /\ drawn' = Blank
  /\ old' = NoMessage

Posts(c) ==
  /\ at' = "post"
  /\ chat' = c
  /\ todo' = {}
  /\ UNCHANGED <<drawn, old>>

\* handle_callback, "it": first the store is read ...
TakeTap(n) ==
  /\ Takes(n)
  /\ updates[n].kind = "item"
  /\ at' = "look"
  /\ UNCHANGED <<list, changes, telegram, boards, seen, mark, drawing, handled>>

Look ==
  /\ at = "look"
  /\ IF items[updates[turn].item] = Absent
     THEN /\ Redraws({updates[turn].chat})
          /\ UNCHANGED mark
     ELSE /\ at' = "tick"
          /\ mark' = IF items[updates[turn].item] = Open THEN Bought ELSE Open
          /\ UNCHANGED drawing
  /\ UNCHANGED <<list, changes, telegram, boards, offset, batch, seen, turn, handled>>

\* ... then, under the lock once more, the item is checked; check saves what
\* it finds, unless the store fails.
TickItem ==
  /\ at = "tick"
  /\ LET i == updates[turn].item
     IN \/ /\ Tick({i}, mark)
           /\ IF i \in Listed THEN Saved ELSE UNCHANGED <<filed, seen>>
        \/ "store" \in Faults /\ UNCHANGED <<list, seen>>
  /\ mark' = Open
  /\ Redraws({updates[turn].chat})
  /\ UNCHANGED <<changes, telegram, boards, offset, batch, turn, handled>>

\* handle_callback, "cb": clear saves if something was bought.
TakeClear(n) ==
  /\ Takes(n)
  /\ updates[n].kind = "clear"
  /\ ClearBought
  /\ IF items' # items THEN Saved ELSE UNCHANGED <<filed, seen>>
  /\ Redraws({updates[n].chat})
  /\ UNCHANGED <<changes, telegram, boards, mark, handled>>

\* handle_callback, "rf"; or one of the others when the store fails.
TakeRefresh(n) ==
  /\ Takes(n)
  /\ \/ updates[n].kind = "refresh"
     \/ updates[n].kind \in {"item", "clear"} /\ "store" \in Faults
  /\ Redraws({updates[n].chat})
  /\ UNCHANGED <<list, changes, telegram, boards, seen, mark, handled>>

\* /list posts a new board.
TakeList(n) ==
  /\ Takes(n)
  /\ updates[n].kind = "list"
  /\ Posts(updates[n].chat)
  /\ UNCHANGED <<list, changes, telegram, boards, seen, mark, handled>>

\* /add adds one item, or is refused, and draws the board.
TakeAdd(n) ==
  /\ Takes(n)
  /\ updates[n].kind = "add"
  /\ LET i == updates[n].item
     IN \/ /\ Cardinality(Listed \cup {i}) > MaxItems \/ "store" \in Faults
           /\ at' = "next"
           /\ Handled(n)
           /\ UNCHANGED <<list, seen, drawing>>
        \/ /\ Cardinality(Listed \cup {i}) <= MaxItems
           /\ Put({i})
           /\ IF items' # items THEN Saved ELSE UNCHANGED <<filed, seen>>
           /\ IF updates[n].chat \in Registered THEN Redraws({updates[n].chat})
                                                ELSE Posts(updates[n].chat)
           /\ UNCHANGED handled
  /\ UNCHANGED <<changes, telegram, boards, mark>>

\* Mutant: the new time is remembered before it is compared.
PollForgetful ==
  /\ at = "next"
  /\ batch = {}
  /\ seen' = IF Registered # {} /\ filed THEN "same" ELSE seen
  /\ at' = "draw"
  /\ todo' = {}
  /\ turn' = 0
  /\ UNCHANGED <<list, changes, telegram, boards, offset, batch, mark,
                 chat, drawn, old, handled>>

\* poll_store_changes at the end of the batch: a time seen for the first
\* time is no change.
Poll ==
  /\ at = "next"
  /\ batch = {}
  /\ seen' = IF Registered # {} /\ filed THEN "same" ELSE seen
  /\ at' = "draw"
  /\ todo' = IF Registered # {} /\ filed /\ seen = "differs" THEN Registered ELSE {}
  /\ turn' = 0
  /\ UNCHANGED <<list, changes, telegram, boards, offset, batch, mark,
                 chat, drawn, old, handled>>

-----------------------------------------------------------------------------
(* Drawing: refresh_board and post_board                                   *)

\* The store is read for the next board.
Draw ==
  /\ at = "draw"
  /\ IF todo = {}
     THEN /\ IF turn = 0 THEN at' = "fetch" /\ UNCHANGED handled
                         ELSE at' = "next" /\ Handled(turn)
          /\ Rests
     ELSE /\ at' = "edit"
          /\ chat' \in todo
          /\ todo' = todo \ {chat'}
          /\ drawn' = items
          /\ UNCHANGED <<old, handled>>
  /\ UNCHANGED <<list, changes, telegram, boards, offset, batch, seen, turn, mark>>

\* editMessageText ("not modified" included); a message that is gone, or any
\* other failure, is posted anew, though the edit may have been made.
Edit ==
  /\ at = "edit"
  /\ \/ /\ registry[chat] \in alive
        /\ shows' = [shows EXCEPT ![registry[chat]] = drawn]
        /\ at' \in IF "api" \in Faults THEN {"draw", "post"} ELSE {"draw"}
     \/ /\ registry[chat] \notin alive \/ "api" \in Faults
        /\ at' = "post"
        /\ UNCHANGED shows
  /\ UNCHANGED <<list, changes, updates, confirmed, alive, chatOf, boards, offset, batch,
                 seen, turn, mark, drawing, handled>>

\* post_board reads the store (again).
Post ==
  /\ at = "post"
  /\ drawn' = items
  /\ at' = "send"
  /\ UNCHANGED <<list, changes, telegram, boards, offset, batch, seen, turn, mark,
                 todo, chat, old, handled>>

Unused == Message \ (alive \cup {registry[c] : c \in Chat} \cup {saved[c] : c \in Chat})

\* A new message comes to be in the chat that is being drawn.
Appears(m) ==
  /\ alive' = alive \cup {m}
  /\ chatOf' = [chatOf EXCEPT ![m] = chat]
  /\ shows' = [shows EXCEPT ![m] = drawn]
  /\ UNCHANGED <<updates, confirmed>>

\* Mutant: the registry is saved before it is changed.
SendSavesFirst ==
  /\ at = "send"
  /\ \E m \in Unused : Appears(m) /\ registry' = [registry EXCEPT ![chat] = m]
  /\ saved' = registry
  /\ old' = registry[chat]
  /\ at' = "unpin"
  /\ UNCHANGED <<list, changes, offset, batch, seen, turn, mark, todo, chat, drawn, handled>>

\* sendMessage succeeds: the registry is changed and saved (or not).
Send ==
  /\ at = "send"
  /\ \E m \in Unused :
       /\ Appears(m)
       /\ registry' = [registry EXCEPT ![chat] = m]
       /\ \/ saved' = registry'
          \/ "save" \in Faults /\ UNCHANGED saved
  /\ old' = registry[chat]
  /\ at' = "unpin"
  /\ UNCHANGED <<list, changes, offset, batch, seen, turn, mark, todo, chat, drawn, handled>>

\* It fails, or the message appears and the answer is lost.
SendFails ==
  /\ at = "send"
  /\ "api" \in Faults
  /\ UNCHANGED telegram \/ \E m \in Unused : Appears(m)
  /\ at' = "draw"
  /\ UNCHANGED <<list, changes, boards, offset, batch, seen, turn, mark, drawing, handled>>

\* The previous board is deleted, if that succeeds.
Unpin ==
  /\ at = "unpin"
  /\ at' = "draw"
  /\ \/ alive' = alive \ {old}
     \/ "api" \in Faults /\ UNCHANGED alive
  /\ UNCHANGED <<list, changes, updates, confirmed, chatOf, shows, boards, offset, batch,
                 seen, turn, mark, drawing, handled>>

\* The service dies and is started again: what it knows is boards.json.
Restarts ==
  /\ registry' = saved
  /\ offset' = 0
  /\ batch' = {}
  /\ seen' = "never"
  /\ at' = "fetch"
  /\ turn' = 0
  /\ mark' = Open
  /\ Rests
  /\ UNCHANGED <<list, changes, telegram, saved, handled>>

Crash == "crash" \in Faults /\ Restarts

\* The store cannot be read: an update is given up, but nothing catches the
\* exception in a redraw after a poll, and it ends the service.
CannotRead ==
  /\ "store" \in Faults
  /\ at \in {"draw", "post"}
  /\ IF turn = 0
     THEN Restarts
     ELSE /\ at' = "next"
          /\ Handled(turn)
          /\ Rests
          /\ UNCHANGED <<list, changes, telegram, boards, offset, batch, seen, turn, mark>>

Loop ==
  \/ Fetch
  \/ \E n \in UpdateId :
       \/ TakeTap(n) \/ TakeClear(n) \/ TakeRefresh(n) \/ TakeList(n) \/ TakeAdd(n)
  \/ Look \/ TickItem
  \/ Poll
  \/ Draw \/ Edit \/ Post \/ Send \/ SendFails \/ Unpin
  \/ CannotRead

Family ==
  \/ \E m \in Message : (\E i \in Item : TapItem(m, i)) \/ TapFooter(m) \/ DeleteMessage(m)
  \/ \E c \in Chat : Command(c)

Next ==
  \/ AgentChanges
  \/ Family
  \/ Loop
  \/ Crash

Spec == Init /\ [][Next]_vars

\* The loop runs on: every call of Telegram has a timeout, and the store's
\* locks are held for one operation.
FairSpec == Spec /\ WF_vars(Loop)

-----------------------------------------------------------------------------
(* Properties                                                              *)

\* Type invariant.
TypeOK ==
  /\ items \in Sheet
  /\ filed \in BOOLEAN
  /\ changes \in 0 .. MaxChanges
  /\ updates \in Seq(Update) /\ Len(updates) <= MaxUpdates
  /\ confirmed \in 0 .. Len(updates)
  /\ alive \subseteq Message
  /\ chatOf \in [Message -> Chat]
  /\ shows \in [Message -> Sheet]
  /\ saved \in [Chat -> Message \cup {NoMessage}]
  /\ registry \in [Chat -> Message \cup {NoMessage}]
  /\ offset \in 0 .. Len(updates) + 1
  /\ batch \subseteq 1 .. Len(updates)
  /\ seen \in {"never", "same", "differs"}
  /\ at \in Place
  /\ turn \in 0 .. Len(updates)
  /\ mark \in Mark
  /\ todo \subseteq Chat
  /\ chat \in Chat
  /\ drawn \in Sheet
  /\ old \in Message \cup {NoMessage}
  /\ handled \in [UpdateId -> 0 .. 2]

\* No tap and no command is lost, wherever the service dies: Telegram is
\* only told to forget an update that has been handled (board.py 358-366).
NothingLost == \A n \in 1 .. confirmed : handled[n] > 0

\* Wherever the service dies, the board it takes up again is one it has not
\* deleted: a chat is not left with a board nobody redraws because the
\* registry names another.
SavedBoardKept == \A c \in Chat : saved[c] # NoMessage => saved[c] \in alive

\* A chat whose board does not show what the list holds.
Stale(c) == registry[c] \in alive /\ shows[registry[c]] # items

\* Once the service has looked at the file, a later write of anybody, the
\* board itself included, comes to be shown in every chat that has a board.
ChangeShown ==
  \A c \in Chat : seen = "differs" /\ Stale(c) ~> ~Stale(c)

\* "Elena, add milk" shows up on the board (board.py 8-9).
ShowsUp == \A c \in Chat : Stale(c) ~> ~Stale(c)
=============================================================================
