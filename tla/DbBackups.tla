----------------------------- MODULE DbBackups -----------------------------
(***************************************************************************)
(* monitoring/hermes-db-guard.sh: every tick of cron copies a database of  *)
(* the agent, checks the copy, renames it to the snapshot of the hour,     *)
(* copies that over the snapshot of the day, and removes what is too old.  *)
(* A tick may die between any two of its commands; the next one starts     *)
(* anew.  One tick at a time: cron starts one every fifteen minutes.       *)
(***************************************************************************)
EXTENDS Integers, FiniteSets

CONSTANTS Database,      \* the databases backup_db is called for
          RetainHourly,  \* its second argument, for each
          RetainDaily,   \* its third; 0 keeps every day
          HoursPerDay,
          MaxHour,       \* bound: the clock stops there
          MaxVersion     \* bound: writes of the agent

ASSUME BackupAssumption ==
  /\ RetainHourly \in [Database -> Nat \ {0}]
  /\ RetainDaily \in [Database -> Nat]
  /\ HoursPerDay \in Nat \ {0}
  /\ MaxHour \in Nat
  /\ MaxVersion \in Nat \ {0}

Hour == 0 .. MaxHour
Version == 1 .. MaxVersion
DayOfHour(h) == h \div HoursPerDay
Days == {DayOfHour(h) : h \in Hour}

None == 0    \* no such file
Torn == -1   \* a copy that was begun and not finished

VARIABLES db,       \* the database looked at; they share nothing
          hour,     \* the clock
          live,     \* the database: its version, and whether it is sound
          tick,     \* the running tick: where it is, its tags, its temporary file
          hourly,   \* hourly/: the version each hour's snapshot holds
          daily,    \* daily/: the same by day
          kept,     \* history: the version of the last sound snapshot made
          copied    \* history: the days whose snapshot was finished, or begun

backupVars == <<db, hour, live, tick, hourly, daily, kept, copied>>

Stage == {"off", "backup", "check", "move", "copy", "copying", "rotate"}
Off == [at |-> "off", hour |-> 0, copy |-> None, sound |-> TRUE]

TickGoes(stage) == tick' = [tick EXCEPT !.at = stage]

-----------------------------------------------------------------------------
BackupInit ==
  /\ db \in Database
  /\ hour = 0
  /\ live = [version |-> 1, sound |-> TRUE]
  /\ tick = Off
  /\ hourly = [h \in Hour |-> None]
  /\ daily = [d \in Days |-> None]
  /\ kept = None
  /\ copied = {}

\* The agent writes its database; it may be corrupted, and repaired by hand.
AgentWrites ==
  /\ live.version < MaxVersion
  /\ \E sound \in BOOLEAN : live' = [version |-> live.version + 1, sound |-> sound]
  /\ UNCHANGED <<db, hour, tick, hourly, daily, kept, copied>>

HourPasses ==
  /\ hour < MaxHour
  /\ hour' = hour + 1
  /\ UNCHANGED <<db, live, tick, hourly, daily, kept, copied>>

\* backup_db up to mktemp: the names carry the hour and the day of this moment.
TickStarts ==
  /\ tick.at = "off"
  /\ tick' = [Off EXCEPT !.at = "backup", !.hour = hour]
  /\ UNCHANGED <<db, hour, live, hourly, daily, kept, copied>>

\* .backup succeeds with what the database is now, or it fails or meets a lock
\* (rm -f "$tmp"; the rotation follows all the same).
Backup ==
  /\ tick.at = "backup"
  /\ \/ tick' = [tick EXCEPT !.at = "check", !.copy = live.version, !.sound = live.sound]
     \/ TickGoes("rotate")
  /\ UNCHANGED <<db, hour, live, hourly, daily, kept, copied>>

\* Mutant: the check looks at the exit status only.
QuickCheckBlind ==
  /\ tick.at = "check"
  /\ TickGoes("move") \/ TickGoes("rotate")
  /\ UNCHANGED <<db, hour, live, hourly, daily, kept, copied>>

\* PRAGMA quick_check on the copy; a lock refuses a sound one.
QuickCheck ==
  /\ tick.at = "check"
  /\ (tick.sound /\ TickGoes("move")) \/ TickGoes("rotate")
  /\ UNCHANGED <<db, hour, live, hourly, daily, kept, copied>>

\* mv -f within one file system.
Move ==
  /\ tick.at = "move"
  /\ hourly' = [hourly EXCEPT ![tick.hour] = tick.copy]
  /\ kept' = IF tick.sound THEN tick.copy ELSE kept
  /\ TickGoes("copy")
  /\ UNCHANGED <<db, hour, live, daily, copied>>

\* cp -f: truncates the day's snapshot, then fills it; a full disk leaves it
\* torn, and the script goes on.
CopyBegins ==
  /\ tick.at = "copy"
  /\ daily' = [daily EXCEPT ![DayOfHour(tick.hour)] = Torn]
  /\ copied' = copied \cup {DayOfHour(tick.hour)}
  /\ TickGoes("copying")
  /\ UNCHANGED <<db, hour, live, hourly, kept>>

CopyEnds ==
  /\ tick.at = "copying"
  /\ daily' = [daily EXCEPT ![DayOfHour(tick.hour)] = hourly[tick.hour]]
  /\ TickGoes("rotate")
  /\ UNCHANGED <<db, hour, live, hourly, kept, copied>>

CopyFails ==
  /\ tick.at = "copying"
  /\ TickGoes("rotate")
  /\ UNCHANGED <<db, hour, live, hourly, daily, kept, copied>>

Present(dir) == {x \in DOMAIN dir : dir[x] # None}

\* Mutant: ls -1 without -t, so that the oldest are listed first and kept.
NewestUnsorted(dir, n) ==
  {x \in Present(dir) : Cardinality({y \in Present(dir) : y < x}) < n}

\* ls -1t | head: the n newest; their times are those of their names.
Newest(dir, n) == {x \in Present(dir) : Cardinality({y \in Present(dir) : y > x}) < n}

Rotated(dir, n) == [x \in DOMAIN dir |-> IF x \in Newest(dir, n) THEN dir[x] ELSE None]

\* Mutant: without the test for 0, kanban.db would keep no day.
DailyRotatedAlways == Rotated(daily, RetainDaily[db])

DailyRotated == IF RetainDaily[db] > 0 THEN Rotated(daily, RetainDaily[db]) ELSE daily

\* The two rotations and the end of the tick, whatever came before.
Rotate ==
  /\ tick.at = "rotate"
  /\ hourly' = Rotated(hourly, RetainHourly[db])
  /\ daily' = DailyRotated
  /\ tick' = Off
  /\ UNCHANGED <<db, hour, live, kept, copied>>

\* The machine or the script dies; a temporary file stays behind under a name
\* nobody looks at again.
TickDies ==
  /\ tick.at # "off"
  /\ tick' = Off
  /\ UNCHANGED <<db, hour, live, hourly, daily, kept, copied>>

BackupNext ==
  \/ AgentWrites \/ HourPasses \/ TickStarts
  \/ Backup \/ QuickCheck \/ Move \/ CopyBegins \/ CopyEnds \/ CopyFails \/ Rotate
  \/ TickDies

BackupSpec == BackupInit /\ [][BackupNext]_backupVars

-----------------------------------------------------------------------------
BackupTypeOK ==
  /\ db \in Database
  /\ hour \in Hour
  /\ live \in [version : Version, sound : BOOLEAN]
  /\ tick \in [at : Stage, hour : Hour, copy : Version \cup {None}, sound : BOOLEAN]
  /\ hourly \in [Hour -> Version \cup {None}]
  /\ daily \in [Days -> Version \cup {None, Torn}]
  /\ kept \in Version \cup {None}
  /\ copied \in SUBSET Days

\* Wherever ticks die and whatever the rotation removes, the last sound
\* copy is there as an hourly snapshot, and every daily snapshot a
\* dying or failing cp has torn is made up for by one at least as new: a
\* corrupted database, a lock or a crash never costs the last good snapshot.
LastGoodKept ==
  /\ kept # None => kept \in {hourly[h] : h \in Hour}
  /\ \A d \in Days : daily[d] \in Version => daily[d] <= kept

\* The days of the last RetainDaily[db] snapshots begun are there, torn or
\* whole; when it is 0, all of them.
DaysKept ==
  \A d \in copied :
    \/ daily[d] # None
    \/ RetainDaily[db] > 0 /\ Cardinality({e \in copied : e > d}) >= RetainDaily[db]

\* What the guard promises of the snapshots: the two above.
SnapshotsKept == LastGoodKept /\ DaysKept
=============================================================================
