----------------------------- MODULE VaultDocs -----------------------------
(***************************************************************************)
(* What the reading tools of the vault plugin answer (plugins/vault): how  *)
(* a file's frontmatter becomes a staleness, and what vault_session_brief  *)
(* puts in front of the agent.  A frontmatter is the two keys that         *)
(* staleness reads.                                                        *)
(***************************************************************************)
EXTENDS Integers

CONSTANT DefaultDays   \* DEFAULT_STALENESS_DAYS, and the 14 of staleness_status

ASSUME DefaultAssumption == DefaultDays \in Nat \ {0}

\* _parse_flat_yaml and _coerce_scalar: last_compiled is a day (a date or a
\* datetime), absent, or anything else; a staleness_warning_after_days that is
\* absent or no number is 0.
Frontmatter == [compiled : {"day", "absent", "other"}, day : Int, threshold : Int]

\* parse: without both fences there is no frontmatter at all.
NoFrontmatter == [compiled |-> "absent", day |-> 0, threshold |-> 0]

Age(fm, today) == today - fm.day

\* staleness_status: missing, unparseable and future dates are unknown.
StalenessStatus(fm, today) ==
  IF fm.compiled # "day" \/ Age(fm, today) < 0 THEN "unknown"
  ELSE IF Age(fm, today) <= DefaultDays THEN "fresh" ELSE "stale"

\* Mutant: the file's own threshold replaces the state it is meant to refine.
ReadWithStalenessOwnOnly(fm, today) ==
  IF fm.threshold > 0
  THEN IF Age(fm, today) > fm.threshold THEN "stale" ELSE "fresh"
  ELSE StalenessStatus(fm, today)

\* _read_with_staleness: a file's own threshold turns fresh into stale; it
\* never turns stale into fresh.
ReadWithStaleness(fm, today) ==
  IF /\ StalenessStatus(fm, today) = "fresh"
     /\ fm.threshold > 0
     /\ Age(fm, today) > fm.threshold
  THEN "stale"
  ELSE StalenessStatus(fm, today)

\* A document the brief looks at, which may be missing.
NoDocument == [NoFrontmatter EXCEPT !.compiled = "none"]
Document == Frontmatter \cup {NoDocument}

\* The loop of vault_session_brief over INDEX.md and areas/schedule.md.
Warned(doc, today) ==
  doc # NoDocument /\ ReadWithStaleness(doc, today) \in {"stale", "unknown"}

\* A daily note of the brief: its name is a date of the last `days' days, it is
\* no symlink and can be read.
InWindow(note, today, days) ==
  /\ note.named /\ ~note.symlink /\ note.readable
  /\ today - (days - 1) <= note.date /\ note.date <= today

\* vault_session_brief; docs: what each of the two documents is, conflicts: what
\* _scan_conflicts finds under agents/hermes.
Brief(docs, notes, conflicts, today, days) ==
  [refused |-> days \notin 1 .. 31,
   blocking |-> conflicts # {},
   warned |-> {d \in DOMAIN docs : Warned(docs[d], today)},
   daily |-> {n \in notes : InWindow(n, today, days)}]

-----------------------------------------------------------------------------
\* Nothing out of date passes for current: the brief warns of a document exactly
\* when it is there and its last_compiled is no day, lies in the future, or is
\* older than the default or than what the file itself allows, whichever is
\* less; however wrong its frontmatter is, and whatever else is in the brief.
WarnedRight(docs, notes, conflicts, today, days) ==
  \A d \in DOMAIN docs :
    d \in Brief(docs, notes, conflicts, today, days).warned <=>
      /\ docs[d] # NoDocument
      /\ \/ docs[d].compiled # "day"
         \/ docs[d].day > today
         \/ today - docs[d].day > DefaultDays
         \/ docs[d].threshold > 0 /\ today - docs[d].day > docs[d].threshold
=============================================================================
