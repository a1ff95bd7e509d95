---------------------------- MODULE VaultTriage ----------------------------
(***************************************************************************)
(* vault-crons/vault-conflict-scan.py: every night the conflict files that *)
(* Syncthing has left in the vault are moved to inbox/conflicts/<day>/,    *)
(* while Syncthing goes on leaving them, David goes on resolving them, and *)
(* the scan may overlook a directory, fail at one file, or die.            *)
(***************************************************************************)
EXTENDS Integers, FiniteSets

CONSTANTS Conflict,   \* the conflict files and directories that ever arise
          Folder,     \* those that are directories
          Name,       \* what their paths become with __ for /
          Encoded,    \* which of them: two paths may become one name
          MaxDup,     \* the last .dup suffix that is tried (9998)
          MaxToday    \* bound: days

ASSUME TriageAssumption ==
  /\ Folder \subseteq Conflict
  /\ Encoded \in [Conflict -> Name]
  /\ MaxDup \in Nat
  /\ MaxToday \in Nat

Today == 0 .. MaxToday
DupCounter == 0 .. MaxDup

VARIABLES today,
          tree,      \* the conflicts in the live tree
          cut,       \* those of them of which a part has been deleted
          inbox,     \* what lies under inbox/conflicts, with its name
          index,     \* _INDEX.md of each day: what it lists
          arisen,    \* history: the conflicts there have been
          resolved,  \* history: those David has dealt with
          botched,   \* history: those at whose move a scan failed or died
          scan       \* the running scan

vaultFiles == <<tree, cut, inbox>>
triageHistory == <<arisen, resolved, botched>>
triageVars == <<today, vaultFiles, index, triageHistory, scan>>

\* A file or directory in the inbox: where it is, of which conflict it is, and
\* whether it is all of it.
Entry == [conflict : Conflict, day : Today, name : Name, dup : DupCounter, whole : BOOLEAN]

\* listed: history, what was there when the scan began; unseen: history, what
\* the walk does not come to; target: the entry that is being made, of which
\* there is one only at "move", "copy" and "delete".
Scan == [at : {"off", "walk", "move", "copy", "delete", "index"}, day : Today,
         listed : SUBSET Conflict, visited : SUBSET Conflict, unseen : SUBSET Conflict,
         target : SUBSET Entry, moved : SUBSET Entry, errors : BOOLEAN]
Idle == [at |-> "off", day |-> 0, listed |-> {}, visited |-> {}, unseen |-> {}, target |-> {},
         moved |-> {}, errors |-> FALSE]

-----------------------------------------------------------------------------
TriageInit ==
  /\ today = 0
  /\ tree = {} /\ cut = {} /\ inbox = {}
  /\ index = [d \in Today |-> {}]
  /\ arisen = {} /\ resolved = {} /\ botched = {}
  /\ scan = Idle

Arises(c) ==
  /\ c \notin arisen
  /\ arisen' = arisen \cup {c}
  /\ tree' = tree \cup {c}
  /\ UNCHANGED <<today, cut, inbox, index, resolved, botched, scan>>

\* David deletes a loser, wherever there is something of it.
Resolves(c) ==
  /\ c \in arisen \ resolved
  /\ resolved' = resolved \cup {c}
  /\ tree' = tree \ {c}
  /\ cut' = cut \ {c}
  /\ inbox' = {e \in inbox : e.conflict # c}
  /\ UNCHANGED <<today, index, arisen, botched, scan>>

DayPasses ==
  /\ today < MaxToday
  /\ today' = today + 1
  /\ UNCHANGED <<vaultFiles, index, triageHistory, scan>>

\* main up to os.walk: the inbox is today's, for the whole scan.
ScanStarts ==
  /\ scan.at = "off"
  /\ scan' = [Idle EXCEPT !.at = "walk", !.day = today, !.listed = tree]
  /\ UNCHANGED <<today, vaultFiles, index, triageHistory>>

\* os.walk without onerror: a directory that cannot be listed, or that got
\* another name before the descent, is passed over in silence.
Overlooks(c) ==
  /\ scan.at = "walk"
  /\ c \in tree \ (scan.visited \cup scan.unseen)
  /\ scan' = [scan EXCEPT !.unseen = @ \cup {c}]
  /\ UNCHANGED <<today, vaultFiles, index, triageHistory>>

Taken(name, day) == {e.dup : e \in {f \in inbox : f.name = name /\ f.day = day}}
Free(name, day) == DupCounter \ Taken(name, day)

\* Mutant: the path encoded in the name is trusted to be unique.
FreeDupNever(name, day) == 0

\* The while loop over dst.exists(): the first free suffix.
FreeDup(name, day) ==
  CHOOSE n \in Free(name, day) : 0 .. n - 1 \subseteq Taken(name, day)

\* One turn of the inner loop, up to shutil.move: there is no suffix left
\* (collision_exhausted), or the name of the destination is settled.
Visit(c) ==
  /\ scan.at = "walk"
  /\ c \in tree \ (scan.visited \cup scan.unseen)
  /\ LET visited == scan.visited \cup {c}
         name == Encoded[c]
     IN  IF Free(name, scan.day) = {}
         THEN scan' = [scan EXCEPT !.visited = visited, !.errors = TRUE]
         ELSE scan' = [scan EXCEPT !.at = "move", !.visited = visited,
                !.target = {[conflict |-> c, day |-> scan.day, name |-> name,
                             dup |-> FreeDup(name, scan.day), whole |-> c \notin cut]}]
  /\ UNCHANGED <<today, vaultFiles, index, triageHistory>>

-----------------------------------------------------------------------------
(* shutil.move: a rename; when that fails for whatever reason, a copy and   *)
(* then the deletion of the source, each of which may fail too.  What is    *)
(* written replaces what it finds under its name.                           *)

SamePlace(e, f) == e.name = f.name /\ e.day = f.day /\ e.dup = f.dup

Put(e) == inbox' = {f \in inbox : ~SamePlace(e, f)} \cup {e}

\* The source leaves the tree, the move is recorded, the walk goes on.
Leaves(c) ==
  /\ tree' = tree \ {c}
  /\ cut' = cut \ {c}
  /\ scan' = [scan EXCEPT !.at = "walk", !.moved = @ \cup scan.target, !.target = {}]

\* `except OSError': the error is noted, and the walk goes on.
Fails == scan' = [scan EXCEPT !.at = "walk", !.errors = TRUE, !.target = {}]

Renamed ==
  /\ scan.at = "move"
  /\ \E e \in scan.target : e.conflict \in tree /\ Put(e) /\ Leaves(e.conflict)
  /\ UNCHANGED <<today, index, triageHistory>>

\* Neither renamed nor copied: the source has gone, or nothing can be made.
MoveFails ==
  /\ scan.at = "move"
  /\ Fails
  /\ UNCHANGED <<today, vaultFiles, index, triageHistory>>

CopiesPart ==
  /\ scan.at = "move"
  /\ \E e \in scan.target : e.conflict \in tree /\ Put([e EXCEPT !.whole = FALSE])
  /\ scan' = [scan EXCEPT !.at = "copy"]
  /\ UNCHANGED <<today, tree, cut, index, triageHistory>>

CopiesAll ==
  /\ scan.at = "copy"
  /\ \E e \in scan.target : e.conflict \in tree /\ Put(e)
  /\ scan' = [scan EXCEPT !.at = "delete"]
  /\ UNCHANGED <<today, tree, cut, index, triageHistory>>

BotchedNow == botched \cup {e.conflict : e \in scan.target}

\* Mutant: the source is deleted although its copy failed half-way.
CopyBreaksUnnoticed ==
  /\ scan.at = "copy"
  /\ scan' = [scan EXCEPT !.at = "delete"]
  /\ UNCHANGED <<today, vaultFiles, index, triageHistory>>

\* No space, an unreadable part, a source that went away: what was copied stays.
CopyBreaks ==
  /\ scan.at = "copy"
  /\ Fails
  /\ botched' = BotchedNow
  /\ UNCHANGED <<today, vaultFiles, index, arisen, resolved>>

\* rmtree takes a directory away piece by piece.
DeletesPart ==
  /\ scan.at = "delete"
  /\ \E e \in scan.target : e.conflict \in tree \cap Folder /\ cut' = cut \cup {e.conflict}
  /\ UNCHANGED <<today, tree, inbox, index, triageHistory, scan>>

Deleted ==
  /\ scan.at = "delete"
  /\ \E e \in scan.target : e.conflict \in tree /\ Leaves(e.conflict)
  /\ UNCHANGED <<today, inbox, index, triageHistory>>

DeleteFails ==
  /\ scan.at = "delete"
  /\ Fails
  /\ botched' = BotchedNow
  /\ UNCHANGED <<today, vaultFiles, index, arisen, resolved>>

-----------------------------------------------------------------------------
\* Mutant: the first error ends the walk, and is not reported.
WalkEndsEarly ==
  /\ scan.at = "walk"
  /\ scan.listed \cap tree \subseteq scan.visited \cup scan.unseen \/ scan.errors
  /\ scan' = [scan EXCEPT !.at = "index", !.errors = FALSE]
  /\ UNCHANGED <<today, vaultFiles, index, triageHistory>>

\* The walk has been everywhere it could go: what arose behind it stays for the
\* next one.
WalkEnds ==
  /\ scan.at = "walk"
  /\ scan.listed \cap tree \subseteq scan.visited \cup scan.unseen
  /\ scan' = [scan EXCEPT !.at = "index"]
  /\ UNCHANGED <<today, vaultFiles, index, triageHistory>>

Ended(errors) ==
  scan' = [Idle EXCEPT !.errors = errors, !.listed = scan.listed, !.unseen = scan.unseen]

\* _INDEX.md is written anew, if anything was moved: a second scan of the day
\* forgets the first one's.  Then the scan ends, errors in its exit status.
ScanEnds ==
  /\ scan.at = "index"
  /\ \/ scan.moved = {} /\ UNCHANGED index /\ Ended(scan.errors)
     \/ /\ scan.moved # {}
        /\ index' = [index EXCEPT ![scan.day] = scan.moved]
        /\ Ended(scan.errors)
     \/ /\ scan.moved # {}
        /\ index' \in {index, [index EXCEPT ![scan.day] = {}]}
        /\ Ended(TRUE)
  /\ UNCHANGED <<today, vaultFiles, triageHistory>>

\* The scan is killed, and leaves what it was moving as it is; the next one
\* starts anew.
ScanDies ==
  /\ scan.at # "off"
  /\ scan' = Idle
  /\ botched' = IF scan.at \in {"copy", "delete"} THEN BotchedNow ELSE botched
  /\ UNCHANGED <<today, vaultFiles, index, arisen, resolved>>

TriageNext ==
  \/ \E c \in Conflict : Arises(c) \/ Resolves(c) \/ Overlooks(c) \/ Visit(c)
  \/ DayPasses
  \/ ScanStarts \/ WalkEnds \/ ScanEnds \/ ScanDies
  \/ Renamed \/ MoveFails \/ CopiesPart \/ CopiesAll \/ CopyBreaks
  \/ DeletesPart \/ Deleted \/ DeleteFails

TriageSpec == TriageInit /\ [][TriageNext]_triageVars

-----------------------------------------------------------------------------
TriageTypeOK ==
  /\ today \in Today
  /\ tree \subseteq Conflict /\ cut \subseteq Conflict
  /\ inbox \subseteq Entry
  /\ index \in [Today -> SUBSET Entry]
  /\ arisen \subseteq Conflict /\ resolved \subseteq Conflict /\ botched \subseteq Conflict
  /\ scan \in Scan

\* All of a conflict is to be found somewhere.
WholeSomewhere(c) == c \in tree \ cut \/ \E e \in inbox : e.conflict = c /\ e.whole

\* The conflict that is being copied, or deleted after it was copied.
BeingCopied == IF scan.at \in {"copy", "delete"} THEN {e.conflict : e \in scan.target} ELSE {}

\* No side of a conflict disappears on its way: until David has resolved it, all
\* of it is in the tree or all of it is in the inbox, wherever renames, copies
\* and deletions fail or the scan dies, over all nights, and although two paths
\* may be given one name.  It is in one place only, once, unless a scan that
\* copied it failed at it, said so or died.  And a scan that ended without an
\* error has left nothing in the tree of what was there when it began but what
\* its walk passed over (vault-conflict-scan.py:55-89).
ConflictsKept ==
  /\ \A c \in arisen \ resolved : WholeSomewhere(c)
  /\ \A c \in arisen \ (resolved \cup botched \cup BeingCopied) :
       Cardinality({e \in inbox : e.conflict = c}) = (IF c \in tree THEN 0 ELSE 1)
  /\ scan.at = "off" /\ ~scan.errors => scan.listed \cap tree \subseteq scan.unseen
=============================================================================
