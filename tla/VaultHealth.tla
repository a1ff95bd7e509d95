---------------------------- MODULE VaultHealth ----------------------------
(***************************************************************************)
(* vault-crons/vault-health.py: the health block in the daily note that    *)
(* David (or Syncthing, for him) writes to as well.  The note is read,     *)
(* changed in memory and written in place, without a lock; the cron job    *)
(* runs once a day, a second time only by hand.  One day's note.           *)
(***************************************************************************)
EXTENDS Integers

CONSTANT Line   \* what David writes into the note

\* own: his lines above the block or under a heading of theirs; tail: those
\* right below the block, which its pattern takes for part of it.
Note == [made : BOOLEAN, own : SUBSET Line, tail : SUBSET Line, blocks : 0 .. 2]
Blank(made, blocks) == [made |-> made, own |-> {}, tail |-> {}, blocks |-> blocks]
NoNote == Blank(FALSE, 0)
EmptyNote == Blank(TRUE, 0)

VARIABLES note,
          health,   \* the running job, and the text it is to write
          written,  \* history: the lines David has written
          risked    \* history: those that were where the job may lose them

healthVars == <<note, health, written, risked>>

Stages == {"off", "append", "open", "fill"}
NoJob == [at |-> "off", text |-> NoNote]

OnDisk == note.own \cup note.tail

-----------------------------------------------------------------------------
HealthInit ==
  /\ note = NoNote
  /\ health = NoJob
  /\ written = {}
  /\ risked = {}

\* A line written while a job is about to rewrite the note is not in its text.
DavidWrites(line, where) ==
  /\ line \notin written
  /\ written' = written \cup {line}
  /\ \/ where = "own" /\ note' = [note EXCEPT !.made = TRUE, !.own = @ \cup {line}]
     \/ where = "tail" /\ note.blocks > 0 /\ note' = [note EXCEPT !.tail = @ \cup {line}]
  /\ risked' = IF where = "tail" \/ health.at \in {"open", "fill"}
               THEN risked \cup {line} ELSE risked
  /\ UNCHANGED health

\* pattern.sub with count=1: the first block, up to the next heading, becomes
\* the new one; a note that does not exist is made of the block alone.
Text ==
  IF note.made THEN [note EXCEPT !.tail = {}] ELSE Blank(TRUE, 1)

\* Mutant: the block is always appended.
JobReadsBlindly ==
  /\ health.at = "off"
  /\ health' = [NoJob EXCEPT !.at = "append"]
  /\ UNCHANGED <<note, written, risked>>

\* main: exists(), read_text() and search() decide on one of three writes.
JobReads ==
  /\ health.at = "off"
  /\ health' = IF note.made /\ note.blocks = 0
               THEN [NoJob EXCEPT !.at = "append"]
               ELSE [at |-> "open", text |-> Text]
  /\ UNCHANGED <<note, written, risked>>

\* Opened with "a": the block goes behind whatever the note holds by then.
JobAppends ==
  /\ health.at = "append"
  /\ \/ note' = [note EXCEPT !.made = TRUE, !.blocks = @ + 1]
     \/ UNCHANGED note
  /\ health' = NoJob
  /\ UNCHANGED <<written, risked>>

\* write_text: the note is truncated, then filled.
JobOpens ==
  /\ health.at = "open"
  /\ note' = EmptyNote
  /\ health' = [health EXCEPT !.at = "fill"]
  /\ UNCHANGED <<written, risked>>

JobFills ==
  /\ health.at = "fill"
  /\ note' = health.text
  /\ health' = NoJob
  /\ UNCHANGED <<written, risked>>

\* The note cannot be opened, or not be filled (exit code 1), or the job dies.
JobFails ==
  /\ health.at # "off"
  /\ risked' = IF health.at = "fill" THEN risked \cup health.text.own ELSE risked
  /\ health' = NoJob
  /\ UNCHANGED <<note, written>>

HealthNext ==
  \/ \E line \in Line, where \in {"own", "tail"} : DavidWrites(line, where)
  \/ JobReads \/ JobAppends \/ JobOpens \/ JobFills \/ JobFails

HealthSpec == HealthInit /\ [][HealthNext]_healthVars

-----------------------------------------------------------------------------
HealthTypeOK ==
  /\ note \in Note
  /\ health \in [at : Stages, text : Note]
  /\ written \subseteq Line
  /\ risked \subseteq Line

\* However often the job runs, fails or dies between David's edits, the note
\* holds one block at most, and what he wrote above it or under a heading of
\* its own is only lost if the job was rewriting the note as he wrote, or was
\* stopped in the middle of it.
NoteIntact ==
  /\ note.blocks <= 1
  /\ written \ (risked \cup (IF health.at = "fill" THEN health.text.own ELSE {})) \subseteq OnDisk
=============================================================================
