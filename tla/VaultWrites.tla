---------------------------- MODULE VaultWrites ----------------------------
(***************************************************************************)
(* The two writing tools of the vault plugin (plugins/vault/handler.py):   *)
(* vault_write_memory replaces a file through a temporary one whose name   *)
(* all writers of that file share, vault_write_observation creates a file  *)
(* that must not exist.  No lock is taken: tool calls of several chats     *)
(* interleave at every system call, and their process may die.             *)
(*                                                                         *)
(* One memory file and the observations of one slug are modelled; a write  *)
(* is also the file (the inode) it creates, so that a name can hold what   *)
(* another writer is still filling.                                        *)
(***************************************************************************)
EXTENDS Integers, FiniteSets

CONSTANTS Write,    \* the calls of the two tools
          MaxClock  \* bound: minutes

ASSUME WritesAssumption == MaxClock \in Nat

Clock == 0 .. MaxClock
NoFile == "none"

ASSUME NoFileAssumption == NoFile \notin Write

VARIABLES now,          \* the clock
          write,        \* each call: where it is, and what it will answer
          inode,        \* what is in the file each call creates
          memory,       \* the memory file: whose inode it is
          tmp,          \* its temporary name, likewise
          observations  \* the observation of each minute, likewise

writeVars == <<now, write, inode, memory, tmp, observations>>

Kind == {"memory", "observation"}
At == {"new", "look", "unlink", "create", "fill", "replace", "cleanup",
       "createNew", "fillNew", "done"}
Answer == {"none", "ok", "invalid_input", "conflict", "write_failed"}

\* stamp: the minute a call began in, which names an observation;
\* before: history, the calls that had ended by then.
Writing == [at : At, kind : Kind, answer : Answer, stamp : Clock, before : SUBSET Write]

Files == Write \cup {NoFile}

Fresh == [at |-> "new", kind |-> "memory", answer |-> "none", stamp |-> 0, before |-> {}]

Moves(w, at) == write' = [write EXCEPT ![w].at = at]
Ends(w, answer) == write' = [write EXCEPT ![w].at = "done", ![w].answer = answer]
Done == {w \in Write : write[w].at = "done"}

\* The inode of a call is filled in one write; before it is empty.
Whole(w) == inode[w].whole

-----------------------------------------------------------------------------
WriteInit ==
  /\ now = 0
  /\ write = [w \in Write |-> Fresh]
  /\ inode = [w \in Write |-> [whole |-> FALSE, mover |-> NoFile]]
  /\ memory = NoFile
  /\ tmp = NoFile
  /\ observations = [m \in Clock |-> NoFile]

\* The checks of body, sources and slug or path: what they refuse has touched
\* no file.
Refuse(w) ==
  /\ write[w].at = "new"
  /\ Ends(w, "invalid_input")
  /\ UNCHANGED <<now, inode, memory, tmp, observations>>

Starts(w, kind, at) ==
  /\ write[w].at = "new"
  /\ write' = [write EXCEPT ![w] = [at |-> at, kind |-> kind, answer |-> "none",
                                    stamp |-> now, before |-> Done]]
  /\ UNCHANGED <<now, inode, memory, tmp, observations>>

\* vault_write_memory up to the rendered text.  What it carries over from the
\* frontmatter it finds, or loses when it cannot read it, is not modelled.
BeginMemory(w) == Starts(w, "memory", "look")

\* vault_write_observation up to os.open: the file is named for this minute.
BeginObservation(w) == Starts(w, "observation", "createNew")

\* tmp.exists(), and unlinking it, whoever's it is by then.
LookForTmp(w) ==
  /\ write[w].at = "look"
  /\ Moves(w, IF tmp # NoFile THEN "unlink" ELSE "create")
  /\ UNCHANGED <<now, inode, memory, tmp, observations>>

UnlinkTmp(w) ==
  /\ write[w].at = "unlink"
  /\ \/ tmp' = NoFile /\ Moves(w, "create")
     \/ UNCHANGED tmp /\ Ends(w, "write_failed")
  /\ UNCHANGED <<now, inode, memory, observations>>

\* O_CREAT | O_EXCL; any OSError is write_failed.
CreateTmp(w) ==
  /\ write[w].at = "create"
  /\ \/ tmp = NoFile /\ tmp' = w /\ Moves(w, "fill")
     \/ UNCHANGED tmp /\ Ends(w, "write_failed")
  /\ UNCHANGED <<now, inode, memory, observations>>

\* Mutant: what a full disk leaves behind is published like a whole file.
FillUnchecked(w) ==
  /\ write[w].at = "fill"
  /\ Moves(w, "replace")
  /\ inode' \in {inode, [inode EXCEPT ![w].whole = TRUE]}
  /\ UNCHANGED <<now, memory, tmp, observations>>

\* The payload goes into the inode that was opened, wherever its name is now.
Fill(w) ==
  /\ write[w].at = "fill"
  /\ \/ inode' = [inode EXCEPT ![w].whole = TRUE] /\ Moves(w, "replace")
     \/ UNCHANGED inode /\ Moves(w, "cleanup")
  /\ UNCHANGED <<now, memory, tmp, observations>>

Publishes(w) ==
  /\ tmp # NoFile
  /\ memory' = tmp
  /\ tmp' = NoFile
  /\ inode' = [inode EXCEPT ![tmp].mover = w]
  /\ Ends(w, "ok")

\* Mutant: a temporary file that is gone counts as published.
ReplaceMissingOk(w) ==
  /\ write[w].at = "replace"
  /\ \/ Publishes(w)
     \/ tmp = NoFile /\ Ends(w, "ok") /\ UNCHANGED <<inode, memory, tmp>>
  /\ UNCHANGED <<now, observations>>

\* os.replace(tmp, target): the temporary name, whoever's file it is; or an
\* OSError, as when it is gone.
Replace(w) ==
  /\ write[w].at = "replace"
  /\ \/ Publishes(w)
     \/ Moves(w, "cleanup") /\ UNCHANGED <<inode, memory, tmp>>
  /\ UNCHANGED <<now, observations>>

\* tmp.unlink(missing_ok=True) after an OSError.
CleanUp(w) ==
  /\ write[w].at = "cleanup"
  /\ tmp' = NoFile
  /\ Ends(w, "write_failed")
  /\ UNCHANGED <<now, inode, memory, observations>>

\* Mutant: the file of an observation is opened without O_EXCL.
CreateNewAlways(w) ==
  /\ write[w].at = "createNew"
  /\ observations' = [observations EXCEPT ![write[w].stamp] = w]
  /\ Moves(w, "fillNew")
  /\ UNCHANGED <<now, inode, memory, tmp>>

\* vault_write_observation: O_EXCL; an existing file is a conflict.
CreateNew(w) ==
  /\ write[w].at = "createNew"
  /\ IF observations[write[w].stamp] # NoFile
     THEN Ends(w, "conflict") /\ UNCHANGED observations
     ELSE \/ /\ observations' = [observations EXCEPT ![write[w].stamp] = w]
             /\ Moves(w, "fillNew")
          \/ Ends(w, "write_failed") /\ UNCHANGED observations
  /\ UNCHANGED <<now, inode, memory, tmp>>

\* The body is written in place; what a failing write leaves behind stays.
FillNew(w) ==
  /\ write[w].at = "fillNew"
  /\ \/ inode' = [inode EXCEPT ![w].whole = TRUE] /\ Ends(w, "ok")
     \/ UNCHANGED inode /\ Ends(w, "write_failed")
  /\ UNCHANGED <<now, memory, tmp, observations>>

MinutePasses ==
  /\ now < MaxClock
  /\ now' = now + 1
  /\ UNCHANGED <<write, inode, memory, tmp, observations>>

\* The gateway dies: whoever was writing is gone, the files stay as they are.
GatewayDies ==
  /\ \E w \in Write : write[w].at \notin {"new", "done"}
  /\ write' = [w \in Write |-> IF write[w].at = "new" THEN write[w]
                               ELSE [write[w] EXCEPT !.at = "done"]]
  /\ UNCHANGED <<now, inode, memory, tmp, observations>>

WriteNext ==
  \/ \E w \in Write :
       \/ Refuse(w) \/ BeginMemory(w) \/ BeginObservation(w)
       \/ LookForTmp(w) \/ UnlinkTmp(w) \/ CreateTmp(w)
       \/ Fill(w) \/ Replace(w) \/ CleanUp(w)
       \/ CreateNew(w) \/ FillNew(w)
  \/ MinutePasses
  \/ GatewayDies

WriteSpec == WriteInit /\ [][WriteNext]_writeVars

-----------------------------------------------------------------------------
WriteTypeOK ==
  /\ now \in Clock
  /\ write \in [Write -> Writing]
  /\ inode \in [Write -> [whole : BOOLEAN, mover : Files]]
  /\ memory \in Files
  /\ tmp \in Files
  /\ observations \in [Clock -> Files]

\* A writer that runs alone never leaves the memory file half written, wherever
\* it dies or its disk fills: only one that shares the temporary name with
\* another may have its file renamed before it is filled.
HalfOnlyByRace == memory # NoFile /\ ~Whole(memory) => inode[memory].mover # memory

\* A memory whose write was confirmed is never undone: what the file holds was
\* not written by a call that had ended when the confirmed one began, whatever
\* dead writers left under the temporary name and however live ones unlink it.
NotUndone ==
  \A w \in Write :
    write[w].kind = "memory" /\ write[w].answer = "ok"
      => memory # NoFile /\ memory \notin write[w].before

\* A confirmed observation is whole and stays under the name of its minute:
\* observations are append-only, two in one minute exclude each other.
ObservationsStay ==
  \A w \in Write :
    write[w].kind = "observation" /\ write[w].answer = "ok"
      => observations[write[w].stamp] = w /\ Whole(w)

\* What the two writing tools promise of the files they leave: the three above,
\* under every interleaving of their system calls, full disks and deaths.
WritesKept == HalfOnlyByRace /\ NotUndone /\ ObservationsStay
=============================================================================
