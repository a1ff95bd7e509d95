--------------------------- MODULE HouseholdStore ---------------------------
(***************************************************************************)
(* One list of the household store (plugins/household/_store.py): a JSON   *)
(* file that the agent's plugin and the board service read, change and     *)
(* write, each under the lock of its process and then under the lock file. *)
(*                                                                         *)
(* An entry's text, date, author and quantity are left out; a quantity     *)
(* only decides whether an add that finds everything listed saves.         *)
(***************************************************************************)
EXTENDS Integers, Sequences, SequencesExt

CONSTANTS Item,      \* normalised keys
          Actor,     \* threads that call the store
          Process,   \* the gateway and the board service
          ProcOf,    \* the process of each thread
          Batch,     \* the arguments of add, remove and check
          MaxItems   \* MAX_ITEMS

ASSUME StoreAssumption ==
  /\ ProcOf \in [Actor -> Process]
  /\ Batch \subseteq Seq(Item)
  /\ MaxItems \in Nat

Nobody == "nobody"                  \* a lock nobody holds
ASSUME NobodyAssumption == Nobody \notin Actor

Json == "json"                      \* <list>.json
Tmp == "tmp"                        \* <list>.json.tmp
Path == {Json, Tmp}

Open == "open"
Bought == "bought"                  \* done is set
Entry == [key : Item, mark : {Open, Bought}]

Op == [do : {"add", "remove", "check", "uncheck"}, keys : Batch]
        \cup [do : {"clear", "clear all", "read"}, keys : {<<>>}]

VARIABLES disk,   \* what the files hold; a file that does not exist is empty
          torn,   \* the files that are not whole
          mutex,  \* for each process, who holds _LOCK
          flock,  \* who holds the lock file
          phase,  \* what each thread is doing
          new     \* the items it is about to save

vars == <<disk, torn, mutex, flock, phase, new>>
files == <<disk, torn>>
locks == <<mutex, flock>>

\* Inside `with _LOCK', and inside `with _os_lock(name)'.
InFlock == {"load", "write", "writing", "replace", "leave"}
InMutex == InFlock \cup {"flock"}
Phase == InMutex \cup {"idle", "mutex"}

-----------------------------------------------------------------------------
(* The operations on the list of entries                                   *)

Keys(list) == {list[n].key : n \in DOMAIN list}

WithMark(list, S, mark) ==
  [n \in DOMAIN list |->
     IF list[n].key \in S THEN [list[n] EXCEPT !.mark = mark] ELSE list[n]]

\* Mutant: the key of a new entry is not remembered for the rest of the call.
AddedBlindly(list, keys) ==
  WithMark(list, ToSet(keys), Open)
    \o [n \in 1 .. Len(SelectSeq(keys, LAMBDA k : k \notin Keys(list))) |->
          [key |-> SelectSeq(keys, LAMBDA k : k \notin Keys(list))[n], mark |-> Open]]

\* add: what is listed is re-opened if it was bought, what is not is appended.
Added(list, keys) ==
  FoldLeft(LAMBDA l, k : IF k \in Keys(l) THEN WithMark(l, {k}, Open)
                         ELSE Append(l, [key |-> k, mark |-> Open]),
           list, keys)

\* The entries of the list that are in S, in their order.
Kept(list, S) == FoldLeft(LAMBDA l, e : IF e \in S THEN Append(l, e) ELSE l, <<>>, list)

\* Mutant: clear keeps what was bought.
AppliedSwapped(o, list) ==
  CASE o.do = "add" -> Added(list, o.keys)
    [] o.do = "remove" -> Kept(list, {e \in Entry : e.key \notin ToSet(o.keys)})
    [] o.do = "check" -> WithMark(list, ToSet(o.keys), Bought)
    [] o.do = "uncheck" -> WithMark(list, ToSet(o.keys), Open)
    [] o.do = "clear" -> Kept(list, {e \in Entry : e.mark = Bought})
    [] o.do = "clear all" -> <<>>
    [] o.do = "read" -> list

Applied(o, list) ==
  CASE o.do = "add" -> Added(list, o.keys)
    [] o.do = "remove" -> Kept(list, {e \in Entry : e.key \notin ToSet(o.keys)})
    [] o.do = "check" -> WithMark(list, ToSet(o.keys), Bought)
    [] o.do = "uncheck" -> WithMark(list, ToSet(o.keys), Open)
    [] o.do = "clear" -> Kept(list, {e \in Entry : e.mark = Open})
    [] o.do = "clear all" -> <<>>
    [] o.do = "read" -> list

\* add raises list_full, and with it drops what it had added to its copy.
Refused(o, list) == o.do = "add" /\ Len(Added(list, o.keys)) > MaxItems

\* remove and clear save what they changed.  check saves whatever it finds,
\* changed or not; an add of what is listed may bring a fresher quantity.
Saves(o, list) ==
  \/ Applied(o, list) # list
  \/ o.do \in {"check", "uncheck", "add"} /\ ToSet(o.keys) \cap Keys(list) # {}

-----------------------------------------------------------------------------
Init ==
  /\ disk = [p \in Path |-> <<>>]
  /\ torn = {}
  /\ mutex = [p \in Process |-> Nobody]
  /\ flock = Nobody
  /\ phase = [a \in Actor |-> "idle"]
  /\ new = [a \in Actor |-> <<>>]

Goes(a, p) == phase' = [phase EXCEPT ![a] = p]

Call(a) ==
  /\ phase[a] = "idle"
  /\ Goes(a, "mutex")
  /\ UNCHANGED <<files, locks, new>>

TakeMutex(a) ==
  /\ phase[a] = "mutex"
  /\ mutex[ProcOf[a]] = Nobody
  /\ mutex' = [mutex EXCEPT ![ProcOf[a]] = a]
  /\ Goes(a, "flock")
  /\ UNCHANGED <<files, flock, new>>

\* Mutant: only the lock of the process is taken.
TakeFlockAnyway(a) ==
  /\ phase[a] = "flock"
  /\ flock' = a
  /\ Goes(a, "load")
  /\ UNCHANGED <<files, mutex, new>>

TakeFlock(a) ==
  /\ phase[a] = "flock"
  /\ flock = Nobody
  /\ flock' = a
  /\ Goes(a, "load")
  /\ UNCHANGED <<files, mutex, new>>

\* The lock file cannot be opened or locked (on Windows, not within ten
\* seconds): the exception leaves `with _LOCK'.
CannotLock(a) ==
  /\ phase[a] = "flock"
  /\ mutex' = [mutex EXCEPT ![ProcOf[a]] = Nobody]
  /\ Goes(a, "idle")
  /\ UNCHANGED <<files, flock, new>>

\* The body of an operation up to _save.
Change(a, o) ==
  /\ phase[a] = "load"
  /\ Json \notin torn
  /\ ~Refused(o, disk[Json])
  /\ Saves(o, disk[Json])
  /\ new' = [new EXCEPT ![a] = Applied(o, disk[Json])]
  /\ Goes(a, "write")
  /\ UNCHANGED <<files, locks>>

\* A body that raises or has nothing to save: unreadable or half-written
\* state, list_full, an invalid text, a read, or nothing to change.
SaveNothing(a) ==
  /\ phase[a] = "load"
  /\ Goes(a, "leave")
  /\ UNCHANGED <<files, locks, new>>

\* Mutant: the list's own file is written.
StartWriteInPlace(a) ==
  /\ phase[a] = "write"
  /\ torn' = torn \cup {Json}
  /\ Goes(a, "writing")
  /\ UNCHANGED <<disk, locks, new>>

\* tmp.write_text truncates the file and then fills it.
StartWrite(a) ==
  /\ phase[a] = "write"
  /\ torn' = torn \cup {Tmp}
  /\ Goes(a, "writing")
  /\ UNCHANGED <<disk, locks, new>>

FinishWrite(a) ==
  /\ phase[a] = "writing"
  /\ disk' = [disk EXCEPT ![Tmp] = new[a]]
  /\ torn' = torn \ {Tmp}
  /\ Goes(a, "replace")
  /\ UNCHANGED <<locks, new>>

Replace(a) ==
  /\ phase[a] = "replace"
  /\ disk' = [p \in Path |-> IF p = Json THEN disk[Tmp] ELSE <<>>]
  /\ torn' = IF Tmp \in torn THEN {Json} ELSE {}
  /\ Goes(a, "leave")
  /\ UNCHANGED <<locks, new>>

\* Mutant: the locks are not given back when the disk is full.
SaveFailsLocked(a) ==
  /\ phase[a] \in {"write", "writing", "replace"}
  /\ Goes(a, "idle")
  /\ UNCHANGED <<files, locks, new>>

\* An OSError in _save.
SaveFails(a) ==
  /\ phase[a] \in {"write", "writing", "replace"}
  /\ Goes(a, "leave")
  /\ UNCHANGED <<files, locks, new>>

\* Both with statements end.
Leave(a) ==
  /\ phase[a] = "leave"
  /\ flock' = Nobody
  /\ mutex' = [mutex EXCEPT ![ProcOf[a]] = Nobody]
  /\ new' = [new EXCEPT ![a] = <<>>]
  /\ Goes(a, "idle")
  /\ UNCHANGED files

\* A process dies.  The kernel gives its lock back; its temporary file stays.
Crash(p) ==
  /\ \E a \in Actor : ProcOf[a] = p /\ phase[a] # "idle"
  /\ phase' = [a \in Actor |-> IF ProcOf[a] = p THEN "idle" ELSE phase[a]]
  /\ mutex' = [mutex EXCEPT ![p] = Nobody]
  /\ flock' = IF flock # Nobody /\ ProcOf[flock] = p THEN Nobody ELSE flock
  /\ new' = [a \in Actor |-> IF ProcOf[a] = p THEN <<>> ELSE new[a]]
  /\ UNCHANGED files

Runs(a) ==
  \/ TakeMutex(a)
  \/ TakeFlock(a) \/ CannotLock(a)
  \/ (\E o \in Op : Change(a, o)) \/ SaveNothing(a)
  \/ StartWrite(a) \/ FinishWrite(a) \/ Replace(a) \/ SaveFails(a)
  \/ Leave(a)

Next ==
  \/ \E a \in Actor : Call(a) \/ Runs(a)
  \/ \E p \in Process : Crash(p)

Spec == Init /\ [][Next]_vars

\* A thread inside the store runs on.  Neither lock is a queue.
FairSpec == Spec /\ \A a \in Actor : WF_vars(Runs(a))
-----------------------------------------------------------------------------
(* Properties                                                              *)

\* Type invariant, with the discipline of the two locks: each is held by the
\* thread that is inside its with statement, and by nobody else.
TypeOK ==
  /\ disk \in [Path -> Seq(Entry)]
  /\ torn \subseteq Path
  /\ mutex \in [Process -> Actor \cup {Nobody}]
  /\ flock \in Actor \cup {Nobody}
  /\ phase \in [Actor -> Phase]
  /\ new \in [Actor -> Seq(Entry)]
  /\ \A a \in Actor :
       /\ phase[a] \in InMutex <=> mutex[ProcOf[a]] = a
       /\ phase[a] \in InFlock <=> flock = a

\* A crash mid-write never leaves a half-written list (_store.py 6-7).
NeverHalfWritten == Json \notin torn

\* No write of one process drops what another has written (_os_lock): every
\* change of the file is one operation applied to what the file held.
OperationsAreAtomic ==
  [][\E o \in Op : disk'[Json] = Applied(o, disk[Json])]_(disk[Json])

\* One entry for a key, whatever was added in one call or in many
\* (_store.py 4-6), and no more entries than MAX_ITEMS.
OneEntryPerKey ==
  /\ \A m, n \in DOMAIN disk[Json] :
       disk[Json][m].key = disk[Json][n].key => m = n
  /\ Len(disk[Json]) <= MaxItems

MarkOf(list, i) ==
  IF i \in Keys(list)
  THEN list[CHOOSE n \in DOMAIN list : list[n].key = i].mark
  ELSE "absent"

\* What each operation does to one item: an item asked for again after it was
\* bought is open again; checking and clearing never touch, invent or drop
\* any other.
Meaning(o, i, mark) ==
  CASE o.do = "add" -> IF i \in ToSet(o.keys) THEN Open ELSE mark
    [] o.do = "remove" -> IF i \in ToSet(o.keys) THEN "absent" ELSE mark
    [] o.do = "check" -> IF i \in ToSet(o.keys) /\ mark # "absent" THEN Bought ELSE mark
    [] o.do = "uncheck" -> IF i \in ToSet(o.keys) /\ mark # "absent" THEN Open ELSE mark
    [] o.do = "clear" -> IF mark = Bought THEN "absent" ELSE mark
    [] o.do = "clear all" -> "absent"
    [] o.do = "read" -> mark

\* On every list the store can come to, every operation means that, and
\* keeps the order of what it leaves.
OperationsMean ==
  \A o \in Op :
    LET list == disk[Json]
        after == Applied(o, list)
        kept == Keys(list) \cap Keys(after)
        Order(l) == LET k == Kept(l, {e \in Entry : e.key \in kept})
                    IN [n \in DOMAIN k |-> k[n].key]
    IN /\ \A i \in Item : MarkOf(after, i) = Meaning(o, i, MarkOf(list, i))
       /\ Order(list) = Order(after)

\* The list is a right one and stays one, whatever is asked of it next: one
\* entry for each item within the limit, and operations that do what their
\* names say.
ListRight == OneEntryPerKey /\ OperationsMean

\* The store implements the shopping list.

L == INSTANCE ShoppingList WITH items <- [i \in Item |-> MarkOf(disk[Json], i)]

ListSpec == L!ListSpec

\* Whoever has the lock file gives it back, however its operation fails.
LockFileFreed == \A a \in Actor : flock = a ~> flock # a
=============================================================================
