---------------------------- MODULE VaultProofs ----------------------------
(***************************************************************************)
(* What holds of the files around the vault and of the snapshots of the    *)
(* databases, for any number of writers, conflicts, lines, hours and       *)
(* versions.                                                               *)
(***************************************************************************)
EXTENDS MCVault, FiniteSetTheorems, WellFoundedInduction, TLAPS

-----------------------------------------------------------------------------
(* The daily note and the health job.                                      *)

\* Where the running job stands: before it appends there is no block, and the
\* text it will write has all of the lines that are not at risk.
JobKnows ==
  /\ health.at = "append" => note.made /\ note.blocks = 0
  /\ health.at \in {"open", "fill"} =>
       /\ health.text.made /\ health.text.blocks = 1 /\ health.text.tail = {}
       /\ written \ risked \subseteq health.text.own

NoteInv ==
  /\ HealthTypeOK
  /\ note.made \/ note = NoNote
  /\ note.tail \subseteq risked
  /\ JobKnows
  /\ NoteIntact

LEMMA NoteFields == NoNote \in Note /\ EmptyNote \in Note /\ Blank(TRUE, 1) \in Note
BY DEF EmptyNote, NoNote, Note, Blank

LEMMA NoteStarts == HealthInit => NoteInv
BY DEF HealthInit, NoteInv, HealthTypeOK, JobKnows, NoteIntact, NoNote, Blank, NoJob, Note, Stages,
       OnDisk

LEMMA NoteStep == NoteInv /\ [HealthNext]_healthVars => NoteInv'
<1> SUFFICES ASSUME NoteInv, [HealthNext]_healthVars PROVE NoteInv'
  OBVIOUS
<1> USE DEF NoteInv, HealthTypeOK, JobKnows, NoteIntact, Note, Stages, OnDisk
<1>1. CASE UNCHANGED healthVars
  BY <1>1 DEF healthVars
<1>2. ASSUME NEW line \in Line, NEW where \in {"own", "tail"}, DavidWrites(line, where)
      PROVE  NoteInv'
  <2>1. /\ line \notin written /\ written' = written \cup {line} /\ health' = health
        /\ risked \subseteq risked' /\ risked' \subseteq risked \cup {line}
        /\ health.at \in {"open", "fill"} => line \in risked'
    BY <1>2 DEF DavidWrites
  <2>2. CASE note' = [note EXCEPT !.made = TRUE, !.own = note.own \cup {line}]
    <3>1. note' = [made |-> TRUE, own |-> note.own \cup {line}, tail |-> note.tail,
                   blocks |-> note.blocks]
      BY <2>2
    <3>2. /\ note' \in Note /\ note'.made /\ note'.own = note.own \cup {line}
          /\ note'.tail = note.tail /\ note'.blocks = note.blocks
      BY <3>1
    <3>. QED BY <2>1, <3>2
  <2>3. CASE /\ note.blocks > 0 /\ line \in risked'
             /\ note' = [note EXCEPT !.tail = note.tail \cup {line}]
    <3>1. note.made
      BY <2>3 DEF NoNote, Blank
    <3>2. note' = [made |-> note.made, own |-> note.own, tail |-> note.tail \cup {line},
                   blocks |-> note.blocks]
      BY <2>3
    <3>3. /\ note' \in Note /\ note'.made = note.made /\ note'.own = note.own
          /\ note'.tail = note.tail \cup {line} /\ note'.blocks = note.blocks
      BY <3>2
    <3>. QED BY <2>1, <2>3, <3>1, <3>3
  <2>. QED BY <1>2, <2>2, <2>3 DEF DavidWrites
<1>3. CASE JobReads
  <2>1. health.at = "off" /\ UNCHANGED <<note, written, risked>>
    BY <1>3 DEF JobReads
  <2>2. CASE note.made /\ note.blocks = 0
    <3>1. health' = [at |-> "append", text |-> NoNote]
      BY <1>3, <2>2 DEF JobReads, NoJob
    <3>. QED BY <2>1, <2>2, <3>1 DEF NoNote, Blank
  <2>3. CASE note.made /\ note.blocks # 0
    <3>1. health' = [at |-> "open", text |-> [note EXCEPT !.tail = {}]]
      BY <1>3, <2>3 DEF JobReads, Text
    <3>2. /\ health'.at = "open" /\ health'.text \in Note
          /\ health'.text.made /\ health'.text.blocks = 1 /\ health'.text.tail = {}
          /\ health'.text.own = note.own
      BY <2>3, <3>1
    <3>3. health' \in [at : Stages, text : Note]
      BY <3>1, <3>2
    <3>4. written \ risked \subseteq note.own
      BY <2>1
    <3>. QED BY <2>1, <3>2, <3>3, <3>4
  <2>4. CASE ~note.made
    <3>1. note = NoNote /\ health' = [at |-> "open", text |-> Blank(TRUE, 1)]
      BY <1>3, <2>4 DEF JobReads, Text
    <3>2. health'.at = "open"
          /\ health'.text = [made |-> TRUE, own |-> {}, tail |-> {}, blocks |-> 1]
      BY <3>1 DEF Blank
    <3>b. health'.text \in Note
      BY <3>1, NoteFields
    <3>c. health'.text.made /\ health'.text.blocks = 1 /\ health'.text.tail = {}
      BY <3>2
    <3>a. /\ health'.at = "open" /\ health'.text \in Note
          /\ health'.text.made /\ health'.text.blocks = 1 /\ health'.text.tail = {}
      BY <3>2, <3>b, <3>c
    <3>3. health' \in [at : Stages, text : Note]
      BY <3>1, <3>a
    <3>4. written \ risked = {}
      BY <2>1, <3>1 DEF NoNote, Blank
    <3>. QED BY <2>1, <3>a, <3>3, <3>4
  <2>. QED BY <2>2, <2>3, <2>4
<1>4. CASE JobAppends
  <2>1. health.at = "append" /\ UNCHANGED <<written, risked>>
        /\ health' = [at |-> "off", text |-> NoNote]
    BY <1>4 DEF JobAppends, NoJob
  <2>2. health' \in [at : Stages, text : Note] /\ health'.at = "off"
    BY <2>1 DEF NoNote, Blank
  <2>3. CASE note' = note
    BY <2>1, <2>2, <2>3
  <2>4. CASE note' = [note EXCEPT !.made = TRUE, !.blocks = @ + 1]
    <3>1. note.blocks = 0
      BY <2>1
    <3>2. note' = [made |-> TRUE, own |-> note.own, tail |-> note.tail,
                   blocks |-> note.blocks + 1]
      BY <2>4
    <3>3. /\ note' \in Note /\ note'.made /\ note'.blocks = 1
          /\ note'.own = note.own /\ note'.tail = note.tail
      BY <3>1, <3>2
    <3>. QED BY <2>1, <2>2, <3>3
  <2>. QED BY <1>4, <2>3, <2>4 DEF JobAppends
<1>5. CASE JobOpens
  <2>1. health.at = "open" /\ UNCHANGED <<written, risked>>
        /\ health' = [health EXCEPT !.at = "fill"]
    BY <1>5 DEF JobOpens
  <2>2. /\ health' \in [at : Stages, text : Note] /\ health'.at = "fill"
        /\ health'.text = health.text
    BY <2>1
  <2>3. note' \in Note /\ note'.made /\ note'.blocks = 0 /\ note'.own = {} /\ note'.tail = {}
    BY <1>5, NoteFields DEF JobOpens, EmptyNote, Blank
  <2>. QED BY <2>1, <2>2, <2>3
<1>6. CASE JobFills
  <2>1. health.at = "fill" /\ UNCHANGED <<written, risked>> /\ note' = health.text
        /\ health' = [at |-> "off", text |-> NoNote]
    BY <1>6 DEF JobFills, NoJob
  <2>2. health' \in [at : Stages, text : Note] /\ health'.at = "off"
    BY <2>1 DEF NoNote, Blank
  <2>. QED BY <2>1, <2>2
<1>7. CASE JobFails
  BY <1>7 DEF JobFails, NoJob, NoNote, Blank
<1>. QED BY <1>1, <1>2, <1>3, <1>4, <1>5, <1>6, <1>7 DEF HealthNext

\* However many lines David writes and however often the job runs, fails or
\* dies, the note keeps what was not at risk, and one block.
THEOREM NoteSurvives == HealthSpec => []NoteIntact
<1>1. NoteInv => NoteIntact
  BY DEF NoteInv
<1>. QED BY <1>1, NoteStarts, NoteStep, PTL DEF HealthSpec

-----------------------------------------------------------------------------
(* The snapshots of the databases.                                         *)

\* A tick knows its hour: no snapshot is of a later one, until it ends.
InOrder ==
  /\ tick.hour <= hour
  /\ \A h \in Hour : hourly[h] # None => h <= hour /\ (tick.at # "off" => h <= tick.hour)

\* The last sound copy is the newest snapshot, so the last one to be rotated.
KeptNewest ==
  kept # None =>
    \E h \in Hour : hourly[h] = kept /\ \A g \in Hour : hourly[g] # None => g <= h

\* What a tick carries on its way from the copy to the day's snapshot.
TickCarries ==
  /\ kept <= live.version
  /\ tick.at \in {"check", "move"} =>
       tick.copy \in Version /\ kept <= tick.copy /\ tick.copy <= live.version
  /\ tick.at = "move" => tick.sound
  /\ tick.at \in {"copy", "copying"} => kept # None /\ hourly[tick.hour] = kept
  /\ tick.at = "copying" => DayOfHour(tick.hour) \in copied

DailyBehind ==
  \A d \in Days :
    /\ daily[d] \in Version => daily[d] <= kept
    /\ daily[d] # None => d \in copied

SnapshotInv ==
  BackupTypeOK /\ InOrder /\ KeptNewest /\ TickCarries /\ DailyBehind /\ DaysKept

LEMMA DaysFinite ==
  ASSUME NEW S \in SUBSET Days PROVE IsFiniteSet(S) /\ Cardinality(S) \in Nat
<1> DEFINE f == [h \in Hour |-> DayOfHour(h)]
<1>1. IsFiniteSet(Hour)
  BY BackupAssumption, FS_Interval DEF Hour
<1>2. f \in Surjection(Hour, Days)
  BY DEF Surjection, Days
<1>3. IsFiniteSet(Days)
  BY <1>1, <1>2, FS_Surjection
<1>. QED BY <1>3, FS_Subset, FS_CardinalityType

LEMMA SnapshotInvGives == SnapshotInv => SnapshotsKept
BY DEF SnapshotInv, KeptNewest, DailyBehind, SnapshotsKept, LastGoodKept

LEMMA SnapshotStarts == BackupInit => SnapshotInv
<1> SUFFICES ASSUME BackupInit PROVE SnapshotInv
  OBVIOUS
<1>1. BackupTypeOK
  BY BackupAssumption DEF BackupInit, BackupTypeOK, Hour, Version, Off, Stage
<1>2. InOrder /\ KeptNewest /\ TickCarries
  BY BackupAssumption DEF BackupInit, InOrder, KeptNewest, TickCarries, Off, Hour, None
<1>3. DailyBehind /\ DaysKept
  BY DEF BackupInit, DailyBehind, DaysKept, None, Version
<1>. QED BY <1>1, <1>2, <1>3 DEF SnapshotInv

LEMMA RotateKeeps == SnapshotInv /\ Rotate => SnapshotInv'
<1> SUFFICES ASSUME SnapshotInv, Rotate PROVE SnapshotInv'
  OBVIOUS
<1> USE DEF SnapshotInv, BackupTypeOK
<1>1. /\ hourly' = [h \in Hour |-> IF h \in Newest(hourly, RetainHourly[db])
                                   THEN hourly[h] ELSE None]
      /\ tick' = Off /\ UNCHANGED <<db, hour, live, kept, copied>>
  BY DEF Rotate, Rotated
<1>2. /\ RetainHourly[db] \in Nat /\ RetainHourly[db] > 0
      /\ RetainDaily[db] \in Nat
  BY BackupAssumption
<1>3. \/ daily' = daily
      \/ /\ RetainDaily[db] > 0
         /\ daily' = [d \in Days |-> IF d \in Newest(daily, RetainDaily[db])
                                     THEN daily[d] ELSE None]
  BY DEF Rotate, Rotated, DailyRotated
<1>4. BackupTypeOK'
  BY <1>1, <1>3, BackupAssumption DEF Off, Stage, Hour
<1>5. \A h \in Hour : hourly'[h] # None => hourly'[h] = hourly[h]
  BY <1>1
<1>6. InOrder'
  BY <1>1, <1>5, BackupAssumption DEF InOrder, Off, Hour
<1>7. KeptNewest'
  <2>1. SUFFICES ASSUME kept # None PROVE KeptNewest'
    BY <1>1 DEF KeptNewest
  <2>2. PICK h \in Hour : hourly[h] = kept /\ \A g \in Hour : hourly[g] # None => g <= h
    BY <2>1 DEF KeptNewest
  <2>3. {y \in Present(hourly) : y > h} = {}
    BY <2>2, BackupAssumption DEF Present, Hour
  <2>4. h \in Newest(hourly, RetainHourly[db])
    BY <1>2, <2>1, <2>2, <2>3, FS_EmptySet DEF Newest, Present
  <2>5. hourly'[h] = kept'
    BY <1>1, <2>2, <2>4
  <2>. QED BY <1>5, <2>2, <2>5 DEF KeptNewest
<1>8. TickCarries'
  BY <1>1 DEF TickCarries, Off
<1>9. \A d \in Days : daily'[d] # None => daily'[d] = daily[d]
  BY <1>3
<1>10. DailyBehind'
  BY <1>1, <1>9 DEF DailyBehind, Version, None
<1>11. DaysKept'
  <2>1. SUFFICES ASSUME NEW d \in copied, daily'[d] = None
                 PROVE  /\ RetainDaily[db] > 0
                        /\ Cardinality({e \in copied : e > d}) >= RetainDaily[db]
    BY <1>1 DEF DaysKept
  <2>2. CASE daily[d] = None
    BY <2>2 DEF DaysKept
  <2>3. CASE daily[d] # None
    <3>1. RetainDaily[db] > 0 /\ d \in Present(daily) /\ d \notin Newest(daily, RetainDaily[db])
      BY <1>3, <2>1, <2>3 DEF Present
    <3>2. ~(Cardinality({y \in Present(daily) : y > d}) < RetainDaily[db])
      BY <3>1 DEF Newest
    <3>3. {y \in Present(daily) : y > d} \subseteq {e \in copied : e > d}
      BY DEF DailyBehind, Present
    <3>4. Cardinality({y \in Present(daily) : y > d}) <= Cardinality({e \in copied : e > d})
      BY <3>3, DaysFinite, FS_Subset
    <3>5. /\ Cardinality({y \in Present(daily) : y > d}) \in Nat
          /\ Cardinality({e \in copied : e > d}) \in Nat
      BY DaysFinite DEF Present
    <3>. QED BY <1>2, <3>1, <3>2, <3>4, <3>5
  <2>. QED BY <2>2, <2>3
<1>. QED BY <1>4, <1>6, <1>7, <1>8, <1>10, <1>11

LEMMA SnapshotStep == SnapshotInv /\ [BackupNext]_backupVars => SnapshotInv'
<1> SUFFICES ASSUME SnapshotInv, [BackupNext]_backupVars PROVE SnapshotInv'
  OBVIOUS
<1>0. /\ MaxHour \in Nat /\ MaxVersion \in Nat
      /\ \A h \in Hour : h \in Nat
      /\ \A v \in Version : v \in Nat /\ v > 0
      /\ \A h \in Hour : DayOfHour(h) \in Days
  BY BackupAssumption DEF Hour, Version, Days
<1>a. hour \in Hour /\ tick.hour \in Hour /\ live.version \in Version
  BY DEF SnapshotInv, BackupTypeOK
<1>b. kept \in Version \/ kept = 0
  BY DEF SnapshotInv, BackupTypeOK, None
<1>c. hour \in Nat /\ tick.hour \in Nat /\ live.version \in Nat /\ kept \in Nat
  BY <1>0, <1>a, <1>b
<1> USE DEF SnapshotInv, BackupTypeOK
<1>1. CASE UNCHANGED backupVars
  BY <1>1 DEF backupVars, InOrder, KeptNewest, TickCarries, DailyBehind, DaysKept
<1>2. CASE AgentWrites
  <2>1. live' \in [version : Version, sound : BOOLEAN] /\ live'.version = live.version + 1
        /\ UNCHANGED <<db, hour, tick, hourly, daily, kept, copied>>
    BY <1>0, <1>2 DEF AgentWrites, Version
  <2>2. InOrder' /\ KeptNewest' /\ DailyBehind' /\ DaysKept'
    BY <2>1 DEF InOrder, KeptNewest, DailyBehind, DaysKept
  <2>3. kept' <= live'.version
    BY <1>c, <2>1 DEF TickCarries
  <2>4. tick.at \in {"check", "move"} => tick.copy <= live'.version
    <3>1. SUFFICES ASSUME tick.at \in {"check", "move"} PROVE tick.copy <= live'.version
      OBVIOUS
    <3>2. tick.copy \in Version /\ tick.copy <= live.version
      BY <3>1 DEF TickCarries
    <3>3. tick.copy \in Nat /\ live'.version = live.version + 1
      BY <1>0, <2>1, <3>2
    <3>. HIDE DEF SnapshotInv, BackupTypeOK
    <3>. QED BY <1>c, <3>2, <3>3
  <2>5. TickCarries'
    BY <2>1, <2>3, <2>4 DEF TickCarries
  <2>. QED BY <2>1, <2>2, <2>5
<1>3. CASE HourPasses
  <2>1. hour' \in Hour /\ hour <= hour'
        /\ UNCHANGED <<db, live, tick, hourly, daily, kept, copied>>
    BY <1>0, <1>3 DEF HourPasses, Hour
  <2>2. InOrder'
    BY <1>0, <1>c, <2>1 DEF InOrder
  <2>3. KeptNewest' /\ TickCarries' /\ DailyBehind' /\ DaysKept'
    BY <2>1 DEF KeptNewest, TickCarries, DailyBehind, DaysKept
  <2>. QED BY <2>1, <2>2, <2>3
<1>4. CASE TickStarts
  <2>1. /\ tick.at = "off" /\ tick' = [at |-> "backup", hour |-> hour, copy |-> None, sound |-> TRUE]
        /\ UNCHANGED <<db, hour, live, hourly, daily, kept, copied>>
    BY <1>4 DEF TickStarts, Off
  <2>2. BackupTypeOK'
    BY <2>1 DEF Stage
  <2>3. InOrder'
    BY <1>0, <1>c, <2>1 DEF InOrder
  <2>4. KeptNewest' /\ TickCarries' /\ DailyBehind' /\ DaysKept'
    BY <2>1 DEF KeptNewest, TickCarries, DailyBehind, DaysKept
  <2>. QED BY <2>2, <2>3, <2>4
<1>5. CASE Backup
  <2>1. /\ tick.at = "backup" /\ UNCHANGED <<db, hour, live, hourly, daily, kept, copied>>
        /\ \/ tick' = [tick EXCEPT !.at = "check", !.copy = live.version, !.sound = live.sound]
           \/ tick' = [tick EXCEPT !.at = "rotate"]
    BY <1>5 DEF Backup, TickGoes
  <2>2. BackupTypeOK'
    BY <2>1 DEF Stage
  <2>3. /\ tick'.at \in {"check", "rotate"} /\ tick'.hour = tick.hour
        /\ tick'.at = "check" => tick'.copy = live.version
    BY <2>1
  <2>4. InOrder'
    BY <2>1, <2>3 DEF InOrder
  <2>5. TickCarries'
    BY <1>0, <1>a, <1>c, <2>1, <2>3 DEF TickCarries
  <2>6. KeptNewest' /\ DailyBehind' /\ DaysKept'
    BY <2>1 DEF KeptNewest, DailyBehind, DaysKept
  <2>. QED BY <2>2, <2>4, <2>5, <2>6
<1>6. CASE QuickCheck
  BY <1>0, <1>6 DEF QuickCheck, TickGoes, Stage, InOrder, KeptNewest, TickCarries, DailyBehind,
                    DaysKept
<1>7. CASE Move
  <2>1. /\ tick.at = "move" /\ tick.sound /\ tick.copy \in Version
        /\ hourly' = [hourly EXCEPT ![tick.hour] = tick.copy] /\ kept' = tick.copy
        /\ tick' = [tick EXCEPT !.at = "copy"] /\ tick.hour \in Hour
        /\ UNCHANGED <<db, hour, live, daily, copied>>
    BY <1>7 DEF Move, TickGoes, TickCarries
  <2>2. BackupTypeOK'
    BY <2>1 DEF Stage
  <2>3. /\ tick'.at = "copy" /\ tick'.hour = tick.hour /\ hourly'[tick.hour] = tick.copy
        /\ \A h \in Hour : h # tick.hour => hourly'[h] = hourly[h]
    BY <2>1
  <2>4. tick.copy # None /\ kept <= tick.copy /\ tick.copy <= live.version
    BY <1>0, <2>1 DEF TickCarries, Version, None
  <2>5. InOrder'
    BY <1>0, <2>1, <2>3 DEF InOrder
  <2>6. KeptNewest'
    BY <1>0, <2>1, <2>3, <2>5 DEF KeptNewest, InOrder
  <2>7. TickCarries'
    BY <2>1, <2>3, <2>4 DEF TickCarries
  <2>8. DailyBehind'
    BY <1>0, <2>1, <2>4 DEF DailyBehind, Version, None
  <2>9. DaysKept'
    BY <2>1 DEF DaysKept
  <2>. QED BY <2>2, <2>5, <2>6, <2>7, <2>8, <2>9
<1>8. CASE CopyBegins
  <2> DEFINE day == DayOfHour(tick.hour)
  <2>1. /\ tick.at = "copy" /\ tick' = [tick EXCEPT !.at = "copying"] /\ day \in Days
        /\ daily' = [daily EXCEPT ![day] = Torn] /\ copied' = copied \cup {day}
        /\ UNCHANGED <<db, hour, live, hourly, kept>>
    BY <1>0, <1>8 DEF CopyBegins, TickGoes
  <2> HIDE DEF day
  <2>2. BackupTypeOK'
    BY <2>1 DEF Stage
  <2>3. InOrder' /\ KeptNewest'
    BY <2>1 DEF InOrder, KeptNewest
  <2>4. TickCarries'
    <3>1. tick'.at = "copying" /\ tick'.hour = tick.hour /\ day \in copied'
      BY <2>1
    <3>. QED BY <2>1, <3>1 DEF TickCarries, day
  <2>5. DailyBehind'
    BY <2>1 DEF DailyBehind, Version, Torn, None
  <2>6. DaysKept'
    <3>1. SUFFICES ASSUME NEW d \in copied', daily'[d] = None
                   PROVE  /\ RetainDaily[db] > 0
                          /\ Cardinality({e \in copied' : e > d}) >= RetainDaily[db]
      BY <2>1 DEF DaysKept
    <3>2. d \in copied /\ daily[d] = None
      BY <2>1, <3>1 DEF Torn, None
    <3>3. RetainDaily[db] > 0 /\ Cardinality({e \in copied : e > d}) >= RetainDaily[db]
      BY <3>2 DEF DaysKept
    <3>4. {e \in copied : e > d} \subseteq {e \in copied' : e > d}
      BY <2>1
    <3>5. copied' \subseteq Days
      BY <2>1
    <3>6. Cardinality({e \in copied : e > d}) <= Cardinality({e \in copied' : e > d})
      BY <3>4, <3>5, DaysFinite, FS_Subset
    <3>7. /\ Cardinality({e \in copied : e > d}) \in Nat
          /\ Cardinality({e \in copied' : e > d}) \in Nat /\ RetainDaily[db] \in Nat
      BY <3>5, DaysFinite, BackupAssumption
    <3>. QED BY <3>3, <3>6, <3>7
  <2>. QED BY <2>2, <2>3, <2>4, <2>5, <2>6
<1>9. CASE CopyEnds
  <2> DEFINE day == DayOfHour(tick.hour)
  <2>1. /\ tick.at = "copying" /\ tick' = [tick EXCEPT !.at = "rotate"] /\ day \in copied
        /\ daily' = [daily EXCEPT ![day] = kept] /\ kept # None /\ kept \in Version
        /\ UNCHANGED <<db, hour, live, hourly, kept, copied>>
    BY <1>9 DEF CopyEnds, TickGoes, TickCarries
  <2> HIDE DEF day
  <2>2. BackupTypeOK'
    BY <2>1 DEF Stage
  <2>3. InOrder' /\ KeptNewest'
    BY <2>1 DEF InOrder, KeptNewest
  <2>4. TickCarries'
    BY <2>1 DEF TickCarries
  <2>5. DailyBehind'
    BY <1>0, <2>1 DEF DailyBehind
  <2>6. DaysKept'
    BY <2>1 DEF DaysKept
  <2>. QED BY <2>2, <2>3, <2>4, <2>5, <2>6
<1>10. CASE CopyFails
  BY <1>10 DEF CopyFails, TickGoes, Stage, InOrder, KeptNewest, TickCarries, DailyBehind, DaysKept
<1>11. CASE Rotate
  BY <1>11, RotateKeeps
<1>12. CASE TickDies
  BY <1>0, <1>12, BackupAssumption
     DEF TickDies, Off, Stage, Hour, InOrder, KeptNewest, TickCarries, DailyBehind, DaysKept
<1>. QED BY <1>1, <1>2, <1>3, <1>4, <1>5, <1>6, <1>7, <1>8, <1>9, <1>10, <1>11, <1>12
         DEF BackupNext

\* For any number of hours and versions and any rotation, wherever ticks die
\* and the database is corrupted: the last good copy is there, no daily
\* snapshot is newer, and the days the rotation is to keep are kept.
THEOREM LastGoodSurvives == BackupSpec => []SnapshotsKept
<1>. QED BY SnapshotStarts, SnapshotStep, SnapshotInvGives, PTL DEF BackupSpec

-----------------------------------------------------------------------------
(* The two writing tools.                                                  *)

\* Where each call stands: its kind goes with its place, what it is about to
\* publish is whole and what it fills bears its minute's name, and once it has
\* seen to the temporary name, that name holds nothing of a call that had ended
\* when it began.
CallStands(w) ==
  /\ write[w].at \in {"look", "unlink", "create", "fill", "replace", "cleanup"}
       => write[w].kind = "memory"
  /\ write[w].at \in {"createNew", "fillNew"} => write[w].kind = "observation"
  /\ write[w].answer = "ok" => write[w].at = "done"
  /\ write[w].at = "replace" => Whole(w)
  /\ write[w].at = "fillNew" => observations[write[w].stamp] = w
  /\ write[w].before \subseteq Done
  /\ \/ write[w].at \in {"create", "fill", "replace"}
     \/ write[w].kind = "memory" /\ write[w].answer = "ok"
     => tmp \notin write[w].before

WriteInv ==
  /\ WriteTypeOK
  /\ \A w \in Write : CallStands(w)
  /\ WritesKept

LEMMA WritesStart == WriteInit => WriteInv
BY NoFileAssumption, WritesAssumption
   DEF WriteInit, WriteInv, WriteTypeOK, CallStands, WritesKept, HalfOnlyByRace, NotUndone,
       ObservationsStay, Fresh, Writing, At, Kind, Answer, Clock, Files, NoFile

\* A call that moves without touching a file, to a place that asks nothing of
\* it, disturbs nothing.
LEMMA MovesOn ==
  ASSUME WriteInv, NEW w \in Write, UNCHANGED <<now, inode, memory, tmp, observations>>,
         NEW r \in Writing, write' = [write EXCEPT ![w] = r],
         write[w].at # "done", r.answer # "ok", r.before \subseteq Done,
         r.at \in {"look", "unlink", "create", "fill", "replace", "cleanup"} => r.kind = "memory",
         r.at \in {"createNew", "fillNew"} => r.kind = "observation",
         r.at \notin {"replace", "fillNew", "fill"},
         r.at = "create" => tmp = NoFile
  PROVE  WriteInv'
<1> USE DEF WriteInv, WriteTypeOK
<1>1. WriteTypeOK'
  OBVIOUS
<1>2. Done \subseteq Done' /\ write'[w] = r /\ \A v \in Write \ {w} : write'[v] = write[v]
  BY DEF Done
<1>3. ASSUME NEW v \in Write PROVE CallStands(v)'
  <2>1. CASE v = w
    BY <1>2, <2>1, NoFileAssumption DEF CallStands, Writing
  <2>2. CASE v # w
    BY <1>2, <2>2 DEF CallStands, Whole
  <2>. QED BY <2>1, <2>2
<1>4. WritesKept'
  BY <1>2 DEF WritesKept, HalfOnlyByRace, NotUndone, ObservationsStay, Whole
<1>. QED BY <1>1, <1>3, <1>4

\* Likewise a call that ends without touching a file, and without success.
LEMMA EndsBadly ==
  ASSUME WriteInv, NEW w \in Write, NEW answer \in Answer, answer # "ok", Ends(w, answer),
         write[w].at # "done", UNCHANGED <<now, inode, memory, observations>>,
         tmp' \in {tmp, NoFile}
  PROVE  WriteInv'
<1> USE DEF WriteInv, WriteTypeOK
<1>1. /\ write' \in [Write -> Writing] /\ write'[w].at = "done" /\ write'[w].answer = answer
      /\ write'[w].before = write[w].before
      /\ \A v \in Write \ {w} : write'[v] = write[v]
  <2>1. write'[w] = [write[w] EXCEPT !.at = "done", !.answer = answer] /\ write[w] \in Writing
    BY DEF Ends
  <2>2. write'[w] \in Writing
    BY <2>1 DEF Writing, At
  <2>3. /\ write'[w].at = "done" /\ write'[w].answer = answer
        /\ write'[w].before = write[w].before
    BY <2>1 DEF Writing
  <2>. QED BY <2>2, <2>3 DEF Ends
<1>2. WriteTypeOK' /\ Done \subseteq Done'
  BY <1>1 DEF Files, Done
<1>3. \A v \in Write : NoFile \notin write[v].before
  BY NoFileAssumption DEF Writing
<1>4. ASSUME NEW v \in Write PROVE CallStands(v)'
  <2>1. CASE v = w
    BY <1>1, <1>2, <1>3, <2>1 DEF CallStands
  <2>2. CASE v # w
    BY <1>1, <1>2, <1>3, <2>2 DEF CallStands, Whole
  <2>. QED BY <2>1, <2>2
<1>5. WritesKept'
  BY <1>1 DEF WritesKept, HalfOnlyByRace, NotUndone, ObservationsStay, Whole
<1>. QED BY <1>2, <1>4, <1>5

LEMMA BeginKeeps ==
  ASSUME WriteInv, NEW w \in Write, BeginMemory(w) \/ BeginObservation(w)
  PROVE  WriteInv'
<1>1. PICK at \in {"look", "createNew"}, kind \in Kind :
        /\ Starts(w, kind, at)
        /\ at = "look" => kind = "memory"
        /\ at = "createNew" => kind = "observation"
  BY DEF BeginMemory, BeginObservation, Kind
<1> DEFINE r == [at |-> at, kind |-> kind, answer |-> "none", stamp |-> now, before |-> Done]
<1>2. r \in Writing
  BY DEF Writing, At, Answer, Done, WriteInv, WriteTypeOK
<1>3. write' = [write EXCEPT ![w] = r] /\ write[w].at = "new"
      /\ UNCHANGED <<now, inode, memory, tmp, observations>>
  BY <1>1 DEF Starts
<1>4. r.at = at /\ r.kind = kind /\ r.answer = "none" /\ r.before = Done
  OBVIOUS
<1>. HIDE DEF r
<1>. QED BY <1>1, <1>2, <1>3, <1>4, MovesOn

LEMMA MoveIs ==
  ASSUME WriteTypeOK, NEW w \in Write, NEW at \in At, Moves(w, at)
  PROVE  /\ write' \in [Write -> Writing] /\ \A v \in Write \ {w} : write'[v] = write[v]
         /\ write'[w].at = at /\ write'[w].kind = write[w].kind
         /\ write'[w].answer = write[w].answer /\ write'[w].before = write[w].before
         /\ write'[w].stamp = write[w].stamp
<1>1. write'[w] = [write[w] EXCEPT !.at = at] /\ write[w] \in Writing
  BY DEF Moves, WriteTypeOK
<1>2. [write[w] EXCEPT !.at = at] \in Writing
  BY <1>1 DEF Writing
<1>. QED BY <1>1, <1>2 DEF Moves, WriteTypeOK, Writing

\* What a call has opened becomes whole before the call goes on to rename it.
LEMMA FillKeeps == ASSUME WriteInv, NEW w \in Write, Fill(w) PROVE WriteInv'
<1> USE DEF WriteInv, WriteTypeOK
<1>1. /\ write[w].at = "fill" /\ UNCHANGED <<now, memory, tmp, observations>>
      /\ \/ inode' = [inode EXCEPT ![w].whole = TRUE] /\ Moves(w, "replace")
         \/ UNCHANGED inode /\ Moves(w, "cleanup")
  BY DEF Fill
<1>2. /\ write' \in [Write -> Writing] /\ \A v \in Write \ {w} : write'[v] = write[v]
      /\ write'[w].at \in {"replace", "cleanup"} /\ write'[w].kind = write[w].kind
      /\ write'[w].answer = write[w].answer /\ write'[w].before = write[w].before
      /\ write'[w].at = "replace" => inode' = [inode EXCEPT ![w].whole = TRUE]
  <2>1. "replace" \in At /\ "cleanup" \in At
    BY DEF At
  <2>. QED BY <1>1, <2>1, MoveIs
<1>3. /\ inode' \in [Write -> [whole : BOOLEAN, mover : Files]]
      /\ \A v \in Write : inode'[v].mover = inode[v].mover /\ (Whole(v) => inode'[v].whole)
      /\ write'[w].at = "replace" => inode'[w].whole
  <2>1. CASE inode' = [inode EXCEPT ![w].whole = TRUE]
    BY <2>1 DEF Whole
  <2>2. CASE inode' = inode
    BY <1>2, <2>2 DEF Whole
  <2>. QED BY <1>1, <2>1, <2>2
<1>4. WriteTypeOK' /\ Done \subseteq Done'
  BY <1>1, <1>2, <1>3 DEF Done
<1>5. ASSUME NEW v \in Write PROVE CallStands(v)'
  <2>1. CASE v = w
    BY <1>1, <1>2, <1>3, <1>4, <2>1 DEF CallStands, Whole
  <2>2. CASE v # w
    BY <1>1, <1>2, <1>3, <1>4, <2>2 DEF CallStands, Whole
  <2>. QED BY <2>1, <2>2
<1>6. HalfOnlyByRace'
  BY <1>1, <1>3 DEF WritesKept, HalfOnlyByRace, Whole, Files
<1>7. NotUndone'
  BY <1>1, <1>2, <1>3 DEF WritesKept, NotUndone, Whole, CallStands
<1>8. ObservationsStay'
  BY <1>1, <1>2, <1>3 DEF WritesKept, ObservationsStay, Whole, CallStands
<1>. QED BY <1>4, <1>5, <1>6, <1>7, <1>8 DEF WritesKept

\* The rename: what it publishes was never there for a call that had ended
\* before, and is whole if it is the caller's own.
LEMMA PublishKeeps ==
  ASSUME WriteInv, NEW w \in Write, write[w].at = "replace", Publishes(w),
         UNCHANGED <<now, observations>>
  PROVE  WriteInv'
<1> USE DEF WriteInv, WriteTypeOK
<1>1. /\ tmp \in Write /\ memory' = tmp /\ tmp' = NoFile /\ memory' # NoFile
      /\ inode' = [inode EXCEPT ![tmp].mover = w] /\ Ends(w, "ok")
  BY DEF Publishes, Files
<1>2. /\ write' \in [Write -> Writing] /\ \A v \in Write \ {w} : write'[v] = write[v]
      /\ write'[w].at = "done" /\ write'[w].kind = "memory" /\ write'[w].answer = "ok"
      /\ write'[w].before = write[w].before
  BY <1>1 DEF Ends, Writing, At, Answer, CallStands
<1>3. /\ inode' \in [Write -> [whole : BOOLEAN, mover : Files]]
      /\ \A v \in Write : inode'[v].whole = Whole(v)
      /\ inode'[tmp].mover = w
  BY <1>1 DEF Whole, Files
<1>4. WriteTypeOK' /\ Done \subseteq Done'
  BY <1>1, <1>2, <1>3 DEF Files, Done
<1>5. \A v \in Write : NoFile \notin write[v].before
  BY NoFileAssumption DEF Writing
<1>6. ASSUME NEW v \in Write PROVE CallStands(v)'
  <2>1. CASE v = w
    BY <1>1, <1>2, <1>3, <1>4, <1>5, <2>1 DEF CallStands
  <2>2. CASE v # w
    BY <1>1, <1>2, <1>3, <1>4, <1>5, <2>2 DEF CallStands, Whole
  <2>. QED BY <2>1, <2>2
<1>7. HalfOnlyByRace'
  BY <1>1, <1>3 DEF HalfOnlyByRace, CallStands, Whole
<1>8. NotUndone'
  <2>1. tmp \notin write[w].before
    BY DEF CallStands
  <2>2. \A v \in Write : write[v].kind = "memory" /\ write[v].answer = "ok"
                           => tmp \notin write[v].before
    BY DEF CallStands
  <2>. QED BY <1>1, <1>2, <2>1, <2>2 DEF NotUndone
<1>9. ObservationsStay'
  BY <1>2, <1>3 DEF WritesKept, ObservationsStay, Whole
<1>. QED BY <1>4, <1>6, <1>7, <1>8, <1>9 DEF WritesKept

LEMMA CreateKeeps ==
  ASSUME WriteInv, NEW w \in Write, write[w].at = "create", tmp = NoFile, tmp' = w,
         Moves(w, "fill"), UNCHANGED <<now, inode, memory, observations>>
  PROVE  WriteInv'
<1> USE DEF WriteInv, WriteTypeOK
<1>1. /\ write' \in [Write -> Writing] /\ \A v \in Write \ {w} : write'[v] = write[v]
      /\ write'[w].at = "fill" /\ write'[w].kind = write[w].kind
      /\ write'[w].answer = write[w].answer /\ write'[w].before = write[w].before
  BY DEF Moves, Writing, At
<1>2. WriteTypeOK' /\ Done \subseteq Done'
  BY <1>1 DEF Files, Done
<1>3. \A v \in Write : w \notin write[v].before
  BY DEF CallStands, Done
<1>4. ASSUME NEW v \in Write PROVE CallStands(v)'
  <2>1. CASE v = w
    BY <1>1, <1>2, <1>3, <2>1 DEF CallStands
  <2>2. CASE v # w
    BY <1>1, <1>2, <1>3, <2>2 DEF CallStands, Whole
  <2>. QED BY <2>1, <2>2
<1>5. WritesKept'
  BY <1>1 DEF WritesKept, HalfOnlyByRace, NotUndone, ObservationsStay, Whole, CallStands
<1>. QED BY <1>2, <1>4, <1>5

\* An observation takes the name of its minute only when it is free.
LEMMA CreateNewKeeps ==
  ASSUME WriteInv, NEW w \in Write, write[w].at = "createNew",
         observations[write[w].stamp] = NoFile,
         observations' = [observations EXCEPT ![write[w].stamp] = w],
         Moves(w, "fillNew"), UNCHANGED <<now, inode, memory, tmp>>
  PROVE  WriteInv'
<1> USE DEF WriteInv, WriteTypeOK
<1>1. /\ write' \in [Write -> Writing] /\ \A v \in Write \ {w} : write'[v] = write[v]
      /\ write'[w].at = "fillNew" /\ write'[w].kind = write[w].kind
      /\ write'[w].answer = write[w].answer /\ write'[w].before = write[w].before
      /\ write'[w].stamp = write[w].stamp
  <2>1. "fillNew" \in At
    BY DEF At
  <2>. QED BY <2>1, MoveIs
<1>2. \A v \in Write : write[v].stamp \in Clock
  BY DEF Writing
<1>3. /\ observations' \in [Clock -> Files] /\ observations'[write[w].stamp] = w
      /\ \A v \in Write : observations[write[v].stamp] = v
                            => observations'[write[v].stamp] = v
  BY <1>2, NoFileAssumption DEF Files
<1>4. WriteTypeOK' /\ Done \subseteq Done'
  BY <1>1, <1>3 DEF Done
<1>5. ASSUME NEW v \in Write PROVE CallStands(v)'
  <2>1. CASE v = w
    BY <1>1, <1>3, <1>4, <2>1 DEF CallStands
  <2>2. CASE v # w
    BY <1>1, <1>3, <1>4, <2>2 DEF CallStands, Whole
  <2>. QED BY <2>1, <2>2
<1>6. HalfOnlyByRace' /\ NotUndone'
  BY <1>1 DEF WritesKept, HalfOnlyByRace, NotUndone, Whole
<1>7. ObservationsStay'
  BY <1>1, <1>3 DEF WritesKept, ObservationsStay, Whole, CallStands
<1>. QED BY <1>4, <1>5, <1>6, <1>7 DEF WritesKept

LEMMA FillNewKeeps ==
  ASSUME WriteInv, NEW w \in Write, write[w].at = "fillNew",
         inode' = [inode EXCEPT ![w].whole = TRUE], Ends(w, "ok"),
         UNCHANGED <<now, memory, tmp, observations>>
  PROVE  WriteInv'
<1> USE DEF WriteInv, WriteTypeOK
<1>1. /\ write' \in [Write -> Writing] /\ \A v \in Write \ {w} : write'[v] = write[v]
      /\ write'[w].at = "done" /\ write'[w].kind = "observation" /\ write'[w].answer = "ok"
      /\ write'[w].before = write[w].before /\ write'[w].stamp = write[w].stamp
  BY DEF Ends, Writing, At, Answer, CallStands
<1>2. /\ inode' \in [Write -> [whole : BOOLEAN, mover : Files]] /\ inode'[w].whole
      /\ \A v \in Write : inode'[v].mover = inode[v].mover /\ (Whole(v) => inode'[v].whole)
  BY DEF Whole
<1>3. WriteTypeOK' /\ Done \subseteq Done'
  BY <1>1, <1>2 DEF Done
<1>4. ASSUME NEW v \in Write PROVE CallStands(v)'
  <2>1. CASE v = w
    BY <1>1, <1>2, <1>3, <2>1 DEF CallStands, Whole
  <2>2. CASE v # w
    BY <1>1, <1>2, <1>3, <2>2 DEF CallStands, Whole
  <2>. QED BY <2>1, <2>2
<1>5. HalfOnlyByRace' /\ NotUndone'
  BY <1>1, <1>2 DEF WritesKept, HalfOnlyByRace, NotUndone, Whole, Files
<1>6. observations[write[w].stamp] = w
  BY DEF CallStands
<1>7. ObservationsStay'
  BY <1>1, <1>2, <1>6 DEF WritesKept, ObservationsStay, Whole
<1>. QED BY <1>3, <1>4, <1>5, <1>7 DEF WritesKept

\* Death ends the calls that were under way, as they stand.
LEMMA DeathKeeps == WriteInv /\ GatewayDies => WriteInv'
<1> SUFFICES ASSUME WriteInv, GatewayDies PROVE WriteInv'
  OBVIOUS
<1> USE DEF WriteInv, WriteTypeOK
<1>1. /\ UNCHANGED <<now, inode, memory, tmp, observations>>
      /\ write' = [w \in Write |-> IF write[w].at = "new" THEN write[w]
                                   ELSE [write[w] EXCEPT !.at = "done"]]
  BY DEF GatewayDies
<1>2. ASSUME NEW w \in Write
      PROVE  /\ write'[w] \in Writing
             /\ write'[w].at \in {"new", "done"} /\ (write[w].at = "done" => write'[w].at = "done")
             /\ write'[w].kind = write[w].kind /\ write'[w].answer = write[w].answer
             /\ write'[w].before = write[w].before /\ write'[w].stamp = write[w].stamp
             /\ write'[w].answer = "ok" => write'[w].at = "done"
  <2>1. write[w] \in Writing /\ (write[w].answer = "ok" => write[w].at = "done")
    BY DEF CallStands
  <2>2. CASE write[w].at = "new"
    BY <1>1, <2>1, <2>2
  <2>3. CASE write[w].at # "new"
    <3>1. write'[w] = [write[w] EXCEPT !.at = "done"]
      BY <1>1, <2>3
    <3>. QED BY <2>1, <3>1 DEF Writing, At
  <2>. QED BY <2>2, <2>3
<1>3. WriteTypeOK' /\ Done \subseteq Done'
  BY <1>1, <1>2 DEF Done
<1>4. \A w \in Write : CallStands(w)'
  BY <1>1, <1>2, <1>3 DEF CallStands
<1>5. WritesKept'
  BY <1>1, <1>2 DEF WritesKept, HalfOnlyByRace, NotUndone, ObservationsStay, Whole
<1>. QED BY <1>3, <1>4, <1>5

LEMMA WriteStep == WriteInv /\ [WriteNext]_writeVars => WriteInv'
<1> SUFFICES ASSUME WriteInv, [WriteNext]_writeVars PROVE WriteInv'
  OBVIOUS
<1>1. WriteTypeOK /\ \A w \in Write : CallStands(w) /\ write[w] \in Writing
  BY DEF WriteInv, WriteTypeOK
<1>2. CASE UNCHANGED writeVars
  BY <1>2 DEF writeVars, WriteInv, WriteTypeOK, CallStands, Done, WritesKept, HalfOnlyByRace,
              NotUndone, ObservationsStay, Whole
<1>3. ASSUME NEW w \in Write, NEW at \in {"look", "unlink", "create", "cleanup"}, Moves(w, at),
             write[w].at \in {"look", "unlink", "replace", "fill"},
             at = "create" => tmp = NoFile,
             UNCHANGED <<now, inode, memory, tmp, observations>>
      PROVE  WriteInv'
  <2> DEFINE r == [write[w] EXCEPT !.at = at]
  <2>1. r \in Writing /\ r.at = at /\ r.kind = "memory" /\ r.answer # "ok" /\ r.before \subseteq Done
    BY <1>1, <1>3 DEF Writing, At, CallStands
  <2>2. write' = [write EXCEPT ![w] = r]
    BY <1>1, <1>3 DEF Moves, WriteTypeOK
  <2>. HIDE DEF r
  <2>. QED BY <1>3, <2>1, <2>2, MovesOn
<1>4. ASSUME NEW w \in Write, UnlinkTmp(w), tmp' = NoFile, Moves(w, "create")
      PROVE  WriteInv'
  <2>1. /\ write[w].at = "unlink" /\ UNCHANGED <<now, inode, memory, observations>>
    BY <1>4 DEF UnlinkTmp
  <2>2. /\ write' \in [Write -> Writing] /\ \A v \in Write \ {w} : write'[v] = write[v]
        /\ write'[w].at = "create" /\ write'[w].kind = write[w].kind
        /\ write'[w].answer = write[w].answer /\ write'[w].before = write[w].before
    <3>1. "create" \in At
      BY DEF At
    <3>. QED BY <1>1, <1>4, <3>1, MoveIs
  <2>3. WriteTypeOK' /\ Done \subseteq Done'
    BY <1>1, <1>4, <2>1, <2>2 DEF WriteTypeOK, Done, Files
  <2>4. \A v \in Write : NoFile \notin write[v].before
    BY <1>1, NoFileAssumption DEF Writing
  <2>5. ASSUME NEW v \in Write PROVE CallStands(v)'
    <3>1. CASE v = w
      BY <1>1, <1>4, <2>1, <2>2, <2>3, <2>4, <3>1 DEF CallStands
    <3>2. CASE v # w
      BY <1>1, <1>4, <2>1, <2>2, <2>3, <2>4, <3>2 DEF CallStands, Whole
    <3>. QED BY <3>1, <3>2
  <2>6. WritesKept'
    BY <1>1, <2>1, <2>2
       DEF WriteInv, WritesKept, HalfOnlyByRace, NotUndone, ObservationsStay, Whole, CallStands
  <2>. QED BY <2>3, <2>5, <2>6 DEF WriteInv
<1>5. ASSUME NEW w \in Write, Refuse(w) PROVE WriteInv'
  BY <1>5, EndsBadly DEF Refuse, Answer
<1>6. ASSUME NEW w \in Write, LookForTmp(w) PROVE WriteInv'
  BY <1>3, <1>6 DEF LookForTmp
<1>7. ASSUME NEW w \in Write, UnlinkTmp(w) PROVE WriteInv'
  BY <1>4, <1>7, EndsBadly DEF UnlinkTmp, Answer
<1>8. ASSUME NEW w \in Write, CreateTmp(w) PROVE WriteInv'
  BY <1>8, CreateKeeps, EndsBadly DEF CreateTmp, Answer
<1>9. ASSUME NEW w \in Write, Replace(w) PROVE WriteInv'
  BY <1>3, <1>9, PublishKeeps DEF Replace
<1>10. ASSUME NEW w \in Write, CleanUp(w) PROVE WriteInv'
  BY <1>10, EndsBadly DEF CleanUp, Answer
<1>11. ASSUME NEW w \in Write, CreateNew(w) PROVE WriteInv'
  BY <1>11, CreateNewKeeps, EndsBadly DEF CreateNew, Answer
<1>12. ASSUME NEW w \in Write, FillNew(w) PROVE WriteInv'
  BY <1>12, FillNewKeeps, EndsBadly DEF FillNew, Answer
<1>13. CASE MinutePasses
  BY <1>13, WritesAssumption
     DEF MinutePasses, WriteInv, WriteTypeOK, CallStands, Done, WritesKept, HalfOnlyByRace,
         NotUndone, ObservationsStay, Whole, Clock
<1>. QED BY <1>2, <1>5, <1>6, <1>7, <1>8, <1>9, <1>10, <1>11, <1>12, <1>13, BeginKeeps,
            FillKeeps, DeathKeeps DEF WriteNext

\* However many calls of the two writing tools interleave, fail and die: a
\* memory is half written only by a race for its temporary name, no confirmed
\* one is undone, and a confirmed observation stays whole under its name.
THEOREM WritesSurvive == WriteSpec => []WritesKept
<1>1. WriteInv => WritesKept
  BY DEF WriteInv
<1>. QED BY <1>1, WritesStart, WriteStep, PTL DEF WriteSpec

-----------------------------------------------------------------------------
(* The conflict scan.                                                      *)

\* If a name is free there is a first one (the initial segments below the free
\* names are ordered by inclusion).
LEMMA FreeDupIsFree ==
  ASSUME NEW name, NEW day, Free(name, day) # {}
  PROVE  FreeDup(name, day) \in Free(name, day)
<1> DEFINE F == Free(name, day)
           Below == {0 .. n - 1 : n \in F}
<1>1. F \subseteq DupCounter /\ \A n \in DupCounter : n \in Nat
  BY DEF DupCounter, Free
<1>2. Below # {}
  OBVIOUS
<1>3. Below \subseteq FiniteSubsetsOf(Nat)
  <2>1. SUFFICES ASSUME NEW n \in F PROVE 0 .. n - 1 \in FiniteSubsetsOf(Nat)
    OBVIOUS
  <2>2. IsFiniteSet(0 .. n - 1)
    BY <1>1, FS_Interval
  <2>. QED BY <1>1, <2>2 DEF FiniteSubsetsOf
<1>4. \E x \in Below : \A y \in Below : <<y, x>> \notin StrictSubsetOrdering(Nat)
  BY <1>2, <1>3, FS_StrictSubsetOrderingWellFounded, WFMin
<1>5. PICK n \in F : \A m \in F : <<0 .. m - 1, 0 .. n - 1>> \notin StrictSubsetOrdering(Nat)
  BY <1>4
<1>6. ASSUME NEW m \in 0 .. n - 1 PROVE m \in Taken(name, day)
  <2>1. m \in Nat /\ n \in Nat /\ m < n
    BY <1>1
  <2>2. m \in DupCounter
    BY <1>1, <2>1, TriageAssumption DEF DupCounter
  <2>3. 0 .. m - 1 \subseteq 0 .. n - 1 /\ m \in 0 .. n - 1 /\ m \notin 0 .. m - 1
    BY <2>1
  <2>4. 0 .. m - 1 \in SUBSET Nat /\ 0 .. n - 1 \in SUBSET Nat
    BY <2>1
  <2>5. <<0 .. m - 1, 0 .. n - 1>> \in StrictSubsetOrdering(Nat)
    BY <2>3, <2>4 DEF StrictSubsetOrdering
  <2>6. m \notin F
    BY <1>5, <2>5
  <2>. QED BY <2>2, <2>6 DEF Free
<1>7. n \in Free(name, day) /\ 0 .. n - 1 \subseteq Taken(name, day)
  BY <1>6
<1>. QED BY <1>7 DEF FreeDup

\* It is in the tree or in the inbox, and there once.
Once(c) ==
  /\ \A e \in inbox : e.conflict = c => c \notin tree
  /\ \A e, f \in inbox : e.conflict = c /\ f.conflict = c => e = f

\* Where the conflicts are: what is not resolved is whole somewhere, and in one
\* place unless it is being copied or a scan failed at it.
Placed ==
  /\ resolved \subseteq arisen
  /\ cut \subseteq tree
  /\ tree \subseteq arisen \ resolved
  /\ \A e \in inbox : e.conflict \in arisen \ resolved
  /\ \A c \in arisen \ resolved : WholeSomewhere(c)
  /\ \A c \in arisen \ (resolved \cup botched \cup BeingCopied) : Once(c)

\* The move under way goes to a free name; from the beginning of a copy to its
\* end what stands there is a part; and the source is deleted only when all of it
\* is in the inbox, once unless an earlier scan failed at it.
MoveKnows ==
  /\ scan.at \notin {"move", "copy", "delete"} => scan.target = {}
  /\ scan.at \in {"move", "copy", "delete"} =>
       \E e \in Entry : scan.target = {e} /\ e.conflict \in arisen
  /\ scan.at = "move" =>
       \A e \in scan.target : \A f \in inbox : ~SamePlace(e, f)
  /\ scan.at \in {"move", "copy"} =>
       \A e \in scan.target : e.conflict \in tree => (e.whole <=> e.conflict \notin cut)
  /\ scan.at = "copy" => \A e \in scan.target : \A f \in inbox :
       /\ SamePlace(e, f) => ~f.whole
       /\ f.conflict = e.conflict /\ e.conflict \notin botched => SamePlace(e, f)
  /\ scan.at = "delete" => \A e \in scan.target :
       /\ e.conflict \in tree => \E f \in inbox : f.conflict = e.conflict /\ f.whole
       /\ \A f \in inbox : f.conflict = e.conflict /\ e.conflict \notin botched => f = e

\* Unless the scan has met an error, only the source of its move is left of what
\* it has visited, and nothing but what it passed over of what it began with once
\* its walk has ended.
WalkKnows ==
  /\ scan.listed \subseteq arisen
  /\ ~scan.errors =>
       scan.listed \cap scan.visited \cap tree \subseteq {e.conflict : e \in scan.target}
  /\ scan.at \in {"off", "index"} /\ ~scan.errors => scan.listed \cap tree \subseteq scan.unseen

TriageInv == TriageTypeOK /\ Placed /\ MoveKnows /\ WalkKnows

LEMMA IdleIs == /\ Idle \in Scan /\ Idle.at = "off" /\ Idle.listed = {} /\ Idle.visited = {}
                /\ Idle.target = {} /\ ~Idle.errors
BY TriageAssumption DEF Idle, Scan, Today

LEMMA TriageStarts == TriageInit => TriageInv
<1> SUFFICES ASSUME TriageInit PROVE TriageInv
  OBVIOUS
<1>1. TriageTypeOK
  BY IdleIs, TriageAssumption DEF TriageInit, TriageTypeOK, Today
<1>2. Placed
  BY DEF TriageInit, Placed
<1>3. MoveKnows /\ WalkKnows
  BY IdleIs DEF TriageInit, MoveKnows, WalkKnows
<1>. QED BY <1>1, <1>2, <1>3 DEF TriageInv

\* What the world does to the conflicts while a scan runs or none does.
LEMMA WorldKeeps ==
  ASSUME TriageInv, NEW c \in Conflict, Arises(c) \/ Resolves(c)
  PROVE  TriageInv'
<1> USE DEF TriageInv, TriageTypeOK
<1>1. CASE Arises(c)
  <2>1. /\ c \notin arisen /\ arisen' = arisen \cup {c} /\ tree' = tree \cup {c}
        /\ UNCHANGED <<today, cut, inbox, index, resolved, botched, scan>>
    BY <1>1 DEF Arises
  <2>2. TriageTypeOK'
    BY <2>1
  <2>3. c \notin resolved /\ c \notin tree /\ c \notin cut /\ \A e \in inbox : e.conflict # c
    BY <2>1 DEF Placed
  <2>4. /\ \A b \in arisen \ resolved : WholeSomewhere(b) => WholeSomewhere(b)'
        /\ WholeSomewhere(c)'
    BY <2>1, <2>3 DEF WholeSomewhere
  <2>5. BeingCopied' = BeingCopied
    BY <2>1 DEF BeingCopied
  <2>6. /\ \A b \in arisen : Once(b) => Once(b)'
        /\ Once(c)'
    BY <2>1, <2>3 DEF Once
  <2>7. Placed'
    BY <2>1, <2>3, <2>4, <2>5, <2>6 DEF Placed
  <2>8. MoveKnows' /\ WalkKnows'
    BY <2>1 DEF MoveKnows, WalkKnows
  <2>. QED BY <2>2, <2>7, <2>8
<1>2. CASE Resolves(c)
  <2>1. /\ c \in arisen \ resolved /\ resolved' = resolved \cup {c} /\ tree' = tree \ {c}
        /\ cut' = cut \ {c} /\ inbox' = {e \in inbox : e.conflict # c}
        /\ UNCHANGED <<today, index, arisen, botched, scan>>
    BY <1>2 DEF Resolves
  <2>2. TriageTypeOK'
    BY <2>1
  <2>3. \A b \in arisen \ (resolved \cup {c}) : WholeSomewhere(b) => WholeSomewhere(b)'
    BY <2>1 DEF WholeSomewhere
  <2>4. BeingCopied' = BeingCopied
    BY <2>1 DEF BeingCopied
  <2>5. \A b \in arisen \ (resolved \cup {c}) : Once(b) => Once(b)'
    BY <2>1 DEF Once
  <2>6. Placed'
    BY <2>1, <2>3, <2>4, <2>5 DEF Placed
  <2>7. MoveKnows'
    BY <2>1 DEF MoveKnows
  <2>8. WalkKnows'
    BY <2>1 DEF WalkKnows
  <2>. QED BY <2>2, <2>6, <2>7, <2>8
<1>. QED BY <1>1, <1>2

\* What the walk sees or does not see: one more conflict visited, or passed over.
LEMMA VisitKeeps ==
  ASSUME TriageInv, NEW c \in Conflict, Overlooks(c) \/ Visit(c)
  PROVE  TriageInv'
<1> USE DEF TriageInv, TriageTypeOK
<1>1. /\ c \in tree \ (scan.visited \cup scan.unseen) /\ scan.at = "walk"
      /\ UNCHANGED <<today, tree, cut, inbox, index, arisen, resolved, botched>>
  BY DEF Overlooks, Visit, vaultFiles, triageHistory
<1>2. BeingCopied = {}
  BY <1>1 DEF BeingCopied
<1>3. ASSUME scan' \in Scan, scan'.at \notin {"copy", "delete"} PROVE Placed'
  <2>1. BeingCopied' = {}
    BY <1>3 DEF BeingCopied
  <2>2. \A b \in Conflict : (Once(b) => Once(b)') /\ (WholeSomewhere(b) => WholeSomewhere(b)')
    BY <1>1 DEF Once, WholeSomewhere
  <2>. QED BY <1>1, <1>2, <2>1, <2>2 DEF Placed
<1>4. CASE Overlooks(c)
  <2>1. /\ scan' \in Scan /\ scan'.at = "walk" /\ scan'.target = scan.target
        /\ scan'.listed = scan.listed /\ scan'.errors = scan.errors
        /\ scan'.visited = scan.visited
    <3>1. scan' = [scan EXCEPT !.unseen = scan.unseen \cup {c}]
      BY <1>4 DEF Overlooks
    <3>2. scan.unseen \cup {c} \subseteq Conflict
      BY DEF Scan
    <3>. QED BY <1>1, <3>1, <3>2 DEF Scan
  <2>2. MoveKnows' /\ WalkKnows'
    BY <1>1, <2>1 DEF MoveKnows, WalkKnows
  <2>. QED BY <1>1, <1>3, <2>1, <2>2
<1>6. CASE Visit(c) /\ Free(Encoded[c], scan.day) = {}
  <2>1. /\ scan' \in Scan /\ scan'.at = "walk" /\ scan'.target = scan.target
        /\ scan'.listed = scan.listed /\ scan'.errors
    <3>1. scan' = [scan EXCEPT !.visited = scan.visited \cup {c}, !.errors = TRUE]
      BY <1>6 DEF Visit
    <3>2. scan.visited \cup {c} \subseteq Conflict
      BY DEF Scan
    <3>. QED BY <1>1, <3>1, <3>2 DEF Scan
  <2>2. MoveKnows' /\ WalkKnows'
    BY <1>1, <2>1 DEF MoveKnows, WalkKnows
  <2>. QED BY <1>1, <1>3, <2>1, <2>2
<1>5. CASE Visit(c) /\ Free(Encoded[c], scan.day) # {}
  <2> DEFINE e == [conflict |-> c, day |-> scan.day, name |-> Encoded[c],
                   dup |-> FreeDup(Encoded[c], scan.day), whole |-> c \notin cut]
  <2>1. scan' = [scan EXCEPT !.at = "move", !.visited = scan.visited \cup {c}, !.target = {e}]
    BY <1>5 DEF Visit
  <2>2. e.dup \in DupCounter /\ e.dup \notin Taken(e.name, e.day)
    BY <1>5, FreeDupIsFree DEF Free
  <2>3. scan.day \in Today /\ Encoded[c] \in Name
    BY TriageAssumption DEF Scan
  <2>4. e \in Entry /\ e.conflict = c /\ (e.whole <=> c \notin cut)
    BY <2>2, <2>3 DEF Entry
  <2>5. \A f \in inbox : ~SamePlace(e, f)
    BY <2>2 DEF Taken, SamePlace
  <2> HIDE DEF e
  <2>6. /\ scan' \in Scan /\ scan'.at = "move" /\ scan'.listed = scan.listed
        /\ scan'.target = {e} /\ scan'.visited = scan.visited \cup {c}
        /\ scan'.errors = scan.errors
    <3>1. {e} \in SUBSET Entry /\ scan.visited \cup {c} \in SUBSET Conflict
      BY <2>4 DEF Scan
    <3>2. scan' = [at |-> "move", day |-> scan.day, listed |-> scan.listed,
                   visited |-> scan.visited \cup {c}, unseen |-> scan.unseen, target |-> {e},
                   moved |-> scan.moved, errors |-> scan.errors]
      BY <2>1 DEF Scan
    <3>. QED BY <3>1, <3>2 DEF Scan
  <2>7. c \in arisen
    BY <1>1 DEF Placed
  <2>8. MoveKnows'
    BY <1>1, <2>4, <2>5, <2>6, <2>7 DEF MoveKnows, SamePlace
  <2>9. WalkKnows'
    BY <1>1, <2>4, <2>6 DEF WalkKnows, MoveKnows
  <2>. QED BY <1>1, <1>3, <2>6, <2>8, <2>9
<1>. QED BY <1>4, <1>5, <1>6

\* The source leaves the tree by the rename, or after the copy.
LEMMA LeavingKeeps ==
  ASSUME TriageInv, Renamed \/ Deleted
  PROVE  TriageInv'
<1> USE DEF TriageInv, TriageTypeOK
<1>1. PICK e \in scan.target : e.conflict \in tree /\ Leaves(e.conflict) /\ (Renamed => Put(e))
  BY DEF Renamed, Deleted
<1>2. /\ tree' = tree \ {e.conflict} /\ cut' = cut \ {e.conflict}
      /\ scan' = [scan EXCEPT !.at = "walk", !.moved = scan.moved \cup scan.target, !.target = {}]
      /\ UNCHANGED <<today, index, arisen, resolved, botched>>
      /\ \/ scan.at = "move" /\ Renamed
         \/ scan.at = "delete" /\ inbox' = inbox
  BY <1>1 DEF Leaves, Renamed, Deleted, triageHistory
<1>3. e \in Entry /\ scan.target = {e} /\ e.conflict \in arisen \ resolved
  BY <1>1, <1>2 DEF MoveKnows, Placed
<1>4. /\ scan' \in Scan /\ scan'.at = "walk" /\ scan'.listed = scan.listed /\ scan'.target = {}
      /\ scan'.visited = scan.visited /\ scan'.errors = scan.errors
  BY <1>2 DEF Scan
<1>5. \/ inbox' = inbox \cup {e} /\ scan.at = "move"
      \/ inbox' = inbox /\ scan.at = "delete"
  <2>1. CASE scan.at = "move"
    <3>1. inbox' = {f \in inbox : ~SamePlace(e, f)} \cup {e}
      BY <1>1, <1>2, <2>1 DEF Put
    <3>. QED BY <2>1, <3>1, <1>3 DEF MoveKnows
  <2>. QED BY <1>2, <2>1
<1>6. WholeSomewhere(e.conflict)'
  <2>1. CASE scan.at = "delete"
    BY <1>1, <1>3, <1>5, <2>1 DEF MoveKnows, WholeSomewhere
  <2>2. CASE scan.at = "move"
    BY <1>1, <1>3, <1>5, <2>2 DEF MoveKnows, WholeSomewhere, Placed
  <2>. QED BY <1>5, <2>1, <2>2
<1>7. \A b \in (arisen \ resolved) \ {e.conflict} : WholeSomewhere(b) => WholeSomewhere(b)'
  BY <1>2, <1>5 DEF WholeSomewhere
<1>8. \A b \in arisen \ {e.conflict} : Once(b) => Once(b)'
  BY <1>2, <1>5 DEF Once
<1>9. e.conflict \notin botched => Once(e.conflict)'
  <2>1. CASE scan.at = "delete"
    BY <1>2, <1>3, <1>5, <2>1 DEF MoveKnows, Once
  <2>2. CASE scan.at = "move"
    <3>1. e.conflict \notin botched => Once(e.conflict)
      BY <1>3, <2>2 DEF Placed, BeingCopied
    <3>. QED BY <1>1, <1>2, <1>3, <1>5, <2>2, <3>1 DEF Once
  <2>. QED BY <1>5, <2>1, <2>2
<1>10. BeingCopied \subseteq {e.conflict} /\ BeingCopied' = {}
  BY <1>3, <1>4 DEF BeingCopied
<1>11. Placed'
  BY <1>1, <1>2, <1>3, <1>5, <1>6, <1>7, <1>8, <1>9, <1>10 DEF Placed
<1>12. MoveKnows' /\ WalkKnows'
  BY <1>2, <1>3, <1>4 DEF MoveKnows, WalkKnows
<1>13. inbox' \subseteq Entry
  BY <1>3, <1>5
<1>. QED BY <1>2, <1>4, <1>11, <1>12, <1>13

\* The copy begins: what is put is a part, at a free place.
LEMMA PartialKeeps ==
  ASSUME TriageInv, CopiesPart
  PROVE  TriageInv'
<1> USE DEF TriageInv, TriageTypeOK
<1>1. PICK e \in scan.target : e.conflict \in tree /\ Put([e EXCEPT !.whole = FALSE])
  BY DEF CopiesPart
<1> DEFINE part == [e EXCEPT !.whole = FALSE]
<1>2. /\ scan.at = "move" /\ scan' = [scan EXCEPT !.at = "copy"]
      /\ UNCHANGED <<today, tree, cut, index, arisen, resolved, botched>>
  BY DEF CopiesPart, triageHistory
<1>3. e \in Entry /\ scan.target = {e} /\ e.conflict \in arisen \ resolved
  BY <1>1, <1>2 DEF MoveKnows, Placed
<1>4. /\ part \in Entry /\ part.conflict = e.conflict /\ ~part.whole
      /\ \A f : SamePlace(part, f) <=> SamePlace(e, f)
      /\ SamePlace(e, part)
  BY <1>3 DEF Entry, SamePlace
<1>5. inbox' = inbox \cup {part}
  <2>1. inbox' = {f \in inbox : ~SamePlace(part, f)} \cup {part}
    BY <1>1 DEF Put
  <2>. QED BY <1>2, <1>3, <1>4, <2>1 DEF MoveKnows
<1> HIDE DEF part
<1>6. /\ scan' \in Scan /\ scan'.at = "copy" /\ scan'.listed = scan.listed
      /\ scan'.target = scan.target /\ scan'.visited = scan.visited
      /\ scan'.errors = scan.errors
  BY <1>2 DEF Scan
<1>7. BeingCopied = {} /\ BeingCopied' = {e.conflict}
  BY <1>2, <1>3, <1>6 DEF BeingCopied
<1>8. \A b \in arisen \ resolved : WholeSomewhere(b) => WholeSomewhere(b)'
  BY <1>2, <1>5 DEF WholeSomewhere
<1>9. \A b \in arisen \ {e.conflict} : Once(b) => Once(b)'
  BY <1>2, <1>4, <1>5 DEF Once
<1>10. Placed'
  BY <1>2, <1>3, <1>4, <1>5, <1>7, <1>8, <1>9 DEF Placed
<1>11. e.conflict \notin botched => \A f \in inbox : f.conflict # e.conflict
  BY <1>1, <1>3, <1>7 DEF Placed, Once
<1>12. MoveKnows'
  BY <1>2, <1>3, <1>4, <1>5, <1>6, <1>11 DEF MoveKnows
<1>13. WalkKnows'
  BY <1>2, <1>6 DEF WalkKnows
<1>. QED BY <1>2, <1>4, <1>5, <1>6, <1>10, <1>12, <1>13

\* The copy ends: all of what the tree held stands where the part stood.
LEMMA CopiedKeeps ==
  ASSUME TriageInv, CopiesAll
  PROVE  TriageInv'
<1> USE DEF TriageInv, TriageTypeOK
<1>1. PICK e \in scan.target : e.conflict \in tree /\ Put(e)
  BY DEF CopiesAll
<1>2. /\ scan.at = "copy" /\ scan' = [scan EXCEPT !.at = "delete"]
      /\ UNCHANGED <<today, tree, cut, index, arisen, resolved, botched>>
  BY DEF CopiesAll, triageHistory
<1>3. e \in Entry /\ scan.target = {e} /\ e.conflict \in arisen \ resolved
  BY <1>1, <1>2 DEF MoveKnows, Placed
<1>4. inbox' = {f \in inbox : ~SamePlace(e, f)} \cup {e}
  BY <1>1 DEF Put
<1>5. \A f \in inbox : f.whole => f \in inbox'
  BY <1>2, <1>3, <1>4 DEF MoveKnows
<1>6. /\ scan' \in Scan /\ scan'.at = "delete" /\ scan'.listed = scan.listed
      /\ scan'.target = scan.target /\ scan'.visited = scan.visited
      /\ scan'.errors = scan.errors
  BY <1>2 DEF Scan
<1>7. BeingCopied = {e.conflict} /\ BeingCopied' = {e.conflict}
  BY <1>2, <1>3, <1>6 DEF BeingCopied
<1>8. \A b \in arisen \ resolved : WholeSomewhere(b) => WholeSomewhere(b)'
  BY <1>2, <1>5 DEF WholeSomewhere
<1>9. \A b \in arisen \ {e.conflict} : Once(b) => Once(b)'
  BY <1>2, <1>4 DEF Once
<1>10. Placed'
  BY <1>2, <1>3, <1>4, <1>7, <1>8, <1>9 DEF Placed
<1>11. \E f \in inbox' : f.conflict = e.conflict /\ f.whole
  <2>1. CASE e.whole
    BY <1>4, <2>1
  <2>2. CASE ~e.whole
    <3>1. e.conflict \in cut
      BY <1>1, <1>2, <1>3, <2>2 DEF MoveKnows
    <3>2. PICK f \in inbox : f.conflict = e.conflict /\ f.whole
      BY <1>3, <3>1 DEF Placed, WholeSomewhere
    <3>. QED BY <1>5, <3>2
  <2>. QED BY <2>1, <2>2
<1>12. \A f \in inbox' : f.conflict = e.conflict /\ e.conflict \notin botched => f = e
  BY <1>2, <1>3, <1>4 DEF MoveKnows
<1>13. MoveKnows'
  BY <1>2, <1>3, <1>6, <1>11, <1>12 DEF MoveKnows
<1>14. WalkKnows'
  BY <1>2, <1>6 DEF WalkKnows
<1>. QED BY <1>2, <1>3, <1>4, <1>6, <1>10, <1>13, <1>14

\* A failing move, copy or deletion, and a scan that dies, leave what there is.
LEMMA FailureKeeps ==
  ASSUME TriageInv, MoveFails \/ CopyBreaks \/ DeleteFails \/ ScanDies
  PROVE  TriageInv'
<1> USE DEF TriageInv, TriageTypeOK
<1>1. /\ UNCHANGED <<today, tree, cut, inbox, index, arisen, resolved>>
      /\ scan' = Idle \/ Fails
  BY DEF MoveFails, CopyBreaks, DeleteFails, ScanDies, vaultFiles, triageHistory
<1>2. /\ scan' \in Scan /\ scan'.at \in {"off", "walk"} /\ scan'.target = {}
      /\ scan'.listed \subseteq scan.listed
      /\ scan'.errors \/ scan'.listed = {}
  BY <1>1, IdleIs DEF Fails, Scan
<1>3. botched \cup BeingCopied = botched'
  BY DEF MoveFails, CopyBreaks, DeleteFails, ScanDies, BeingCopied, BotchedNow, triageHistory
<1>4. botched' \subseteq Conflict
  <2>1. \A e \in scan.target : e.conflict \in Conflict
    BY DEF Scan, Entry
  <2>. QED BY <1>3, <2>1 DEF BeingCopied
<1>5. BeingCopied' = {}
  BY <1>2 DEF BeingCopied
<1>6. \A b \in Conflict : (Once(b) => Once(b)') /\ (WholeSomewhere(b) => WholeSomewhere(b)')
  BY <1>1 DEF Once, WholeSomewhere
<1>7. Placed'
  BY <1>1, <1>3, <1>5, <1>6 DEF Placed
<1>8. MoveKnows' /\ WalkKnows'
  BY <1>1, <1>2 DEF MoveKnows, WalkKnows
<1>. QED BY <1>1, <1>2, <1>4, <1>7, <1>8

\* A piece of the source is deleted after its copy.
LEMMA PartKeeps ==
  ASSUME TriageInv, DeletesPart
  PROVE  TriageInv'
<1> USE DEF TriageInv, TriageTypeOK
<1>1. PICK e \in scan.target : e.conflict \in tree /\ cut' = cut \cup {e.conflict}
  BY DEF DeletesPart
<1>2. /\ scan.at = "delete"
      /\ UNCHANGED <<today, tree, inbox, index, arisen, resolved, botched, scan>>
  BY DEF DeletesPart, triageHistory
<1>3. WholeSomewhere(e.conflict)'
  BY <1>1, <1>2 DEF MoveKnows, WholeSomewhere
<1>4. \A b \in arisen \ {e.conflict} : WholeSomewhere(b) => WholeSomewhere(b)'
  BY <1>1, <1>2 DEF WholeSomewhere
<1>5. /\ \A b \in arisen : Once(b) => Once(b)'
      /\ BeingCopied' = BeingCopied
  BY <1>2 DEF Once, BeingCopied
<1>6. Placed'
  BY <1>1, <1>2, <1>3, <1>4, <1>5 DEF Placed
<1>7. MoveKnows' /\ WalkKnows'
  BY <1>2 DEF MoveKnows, WalkKnows
<1>. QED BY <1>1, <1>2, <1>6, <1>7

\* Where a scan starts, its walk ends and it ends: no file changes.
LEMMA BetweenKeeps ==
  ASSUME TriageInv, DayPasses \/ ScanStarts \/ WalkEnds \/ ScanEnds
  PROVE  TriageInv'
<1> USE DEF TriageInv, TriageTypeOK
<1>1. /\ UNCHANGED <<tree, cut, inbox, arisen, resolved, botched>>
      /\ today' \in Today
  <2>1. CASE DayPasses
    BY <2>1, TriageAssumption DEF DayPasses, vaultFiles, triageHistory, Today
  <2>2. CASE ScanStarts \/ WalkEnds \/ ScanEnds
    BY <2>2 DEF ScanStarts, WalkEnds, ScanEnds, vaultFiles, triageHistory
  <2>. QED BY <2>1, <2>2
<1>2. \A b \in Conflict : (Once(b) => Once(b)') /\ (WholeSomewhere(b) => WholeSomewhere(b)')
  BY <1>1 DEF Once, WholeSomewhere
<1>3. CASE DayPasses
  <2>1. scan' = scan /\ index' = index
    BY <1>3 DEF DayPasses
  <2>2. BeingCopied' = BeingCopied
    BY <2>1 DEF BeingCopied
  <2>. QED BY <1>1, <1>2, <2>1, <2>2 DEF Placed, MoveKnows, WalkKnows
<1>4. ASSUME scan.at \notin {"move", "copy", "delete"}, scan' \in Scan,
             scan'.at \notin {"move", "copy", "delete"}, scan'.target = {}
      PROVE  Placed' /\ MoveKnows'
  <2>1. BeingCopied = {} /\ BeingCopied' = {}
    BY <1>4 DEF BeingCopied
  <2>. QED BY <1>1, <1>2, <1>4, <2>1 DEF Placed, MoveKnows
<1>5. CASE ScanStarts
  <2>1. /\ scan' = [Idle EXCEPT !.at = "walk", !.day = today, !.listed = tree] /\ index' = index
        /\ scan.at = "off"
    BY <1>5 DEF ScanStarts
  <2>2. /\ scan' \in Scan /\ scan'.at = "walk" /\ scan'.listed = tree /\ scan'.visited = {}
        /\ scan'.target = {}
    BY <2>1 DEF Idle, Scan
  <2>. QED BY <1>1, <1>4, <2>1, <2>2 DEF Placed, WalkKnows
<1>6. CASE WalkEnds
  <2>1. /\ scan' \in Scan /\ scan'.at = "index" /\ scan'.listed = scan.listed
        /\ scan'.target = scan.target /\ scan'.visited = scan.visited
        /\ scan'.unseen = scan.unseen /\ scan'.errors = scan.errors /\ scan.at = "walk"
        /\ scan.listed \cap tree \subseteq scan.visited \cup scan.unseen /\ index' = index
    BY <1>6 DEF WalkEnds, Scan
  <2>2. scan.target = {}
    BY <2>1 DEF MoveKnows
  <2>. QED BY <1>1, <1>4, <2>1, <2>2 DEF WalkKnows
<1>7. CASE ScanEnds
  <2>1. scan.at = "index" /\ index' \in [Today -> SUBSET Entry]
    BY <1>7 DEF ScanEnds, Scan
  <2>2. PICK errors \in {scan.errors, TRUE} : Ended(errors)
    BY <1>7 DEF ScanEnds
  <2>3. /\ scan' = [Idle EXCEPT !.errors = errors, !.listed = scan.listed,
                                !.unseen = scan.unseen]
        /\ errors \in BOOLEAN /\ scan.listed \subseteq Conflict /\ scan.unseen \subseteq Conflict
        /\ (~errors => ~scan.errors)
    BY <2>2 DEF Ended, Scan
  <2>4. /\ scan' \in Scan /\ scan'.at = "off" /\ scan'.listed = scan.listed
        /\ scan'.visited = {} /\ scan'.unseen = scan.unseen /\ scan'.target = {}
        /\ scan'.errors = errors
    BY <2>3, IdleIs DEF Idle, Scan
  <2>. QED BY <1>1, <1>4, <2>1, <2>3, <2>4 DEF WalkKnows
<1>. QED BY <1>3, <1>5, <1>6, <1>7

LEMMA TriageStep == TriageInv /\ [TriageNext]_triageVars => TriageInv'
<1> SUFFICES ASSUME TriageInv, [TriageNext]_triageVars PROVE TriageInv'
  OBVIOUS
<1>1. CASE UNCHANGED triageVars
  BY <1>1 DEF triageVars, vaultFiles, triageHistory, TriageInv, TriageTypeOK, Placed, MoveKnows,
              WalkKnows, Once, WholeSomewhere, BeingCopied
<1>. QED BY <1>1, WorldKeeps, VisitKeeps, LeavingKeeps, PartialKeeps, CopiedKeeps,
            FailureKeeps, PartKeeps, BetweenKeeps DEF TriageNext

LEMMA TriageInvGives == TriageInv => ConflictsKept
<1> SUFFICES ASSUME TriageInv PROVE ConflictsKept
  OBVIOUS
<1>1. ASSUME NEW c \in arisen \ (resolved \cup botched \cup BeingCopied)
      PROVE  Cardinality({e \in inbox : e.conflict = c}) = (IF c \in tree THEN 0 ELSE 1)
  <2>1. Once(c) /\ WholeSomewhere(c)
    BY <1>1 DEF TriageInv, Placed
  <2>2. CASE c \in tree
    <3>1. {e \in inbox : e.conflict = c} = {}
      BY <2>1, <2>2 DEF Once
    <3>. QED BY <2>2, <3>1, FS_EmptySet
  <2>3. CASE c \notin tree
    <3>1. PICK e \in inbox : {f \in inbox : f.conflict = c} = {e}
      BY <2>1, <2>3 DEF Once, WholeSomewhere
    <3>. QED BY <2>3, <3>1, FS_Singleton
  <2>. QED BY <2>2, <2>3
<1>. QED BY <1>1 DEF TriageInv, Placed, WalkKnows, ConflictsKept

\* For any number of conflicts, however their paths are encoded, and wherever
\* renames, copies and deletions fail or scans die: all of each is in the tree or
\* in the inbox until it is resolved, once unless a scan failed at it, and a scan
\* without an error has moved all it began with that its walk came to.
THEOREM ConflictsSurvive == TriageSpec => []ConflictsKept
<1>. QED BY TriageStarts, TriageStep, TriageInvGives, PTL DEF TriageSpec

-----------------------------------------------------------------------------
(* The session brief.                                                      *)

\* Of any documents, whatever frontmatter they have, on any day and with any
\* default, the brief warns exactly as it should.
THEOREM BriefRight ==
  ASSUME NEW docs, \A d \in DOMAIN docs : docs[d] \in Document,
         NEW notes, NEW conflicts, NEW day \in Int, NEW days
  PROVE  WarnedRight(docs, notes, conflicts, day, days)
<1> SUFFICES ASSUME NEW d \in DOMAIN docs
             PROVE  d \in Brief(docs, notes, conflicts, day, days).warned <=>
                      /\ docs[d] # NoDocument
                      /\ \/ docs[d].compiled # "day"
                         \/ docs[d].day > day
                         \/ day - docs[d].day > DefaultDays
                         \/ docs[d].threshold > 0 /\ day - docs[d].day > docs[d].threshold
  BY DEF WarnedRight
<1>1. d \in Brief(docs, notes, conflicts, day, days).warned <=> Warned(docs[d], day)
  BY DEF Brief
<1>2. CASE docs[d] = NoDocument
  BY <1>1, <1>2 DEF Warned
<1>3. CASE docs[d] # NoDocument
  <2>1. docs[d] \in Frontmatter /\ DefaultDays \in Nat
    BY <1>3, DefaultAssumption DEF Document
  <2>2. docs[d].day \in Int /\ docs[d].threshold \in Int
    BY <2>1 DEF Frontmatter
  <2>. QED BY <1>1, <1>3, <2>1, <2>2 DEF Warned, ReadWithStaleness, StalenessStatus, Age
<1>. QED BY <1>2, <1>3

\* So it does in every state in which it is asked for.
THEOREM BriefIsRight ==
  ASSUME \A d \in DOMAIN doc.docs : doc.docs[d] \in Document, doc.today \in Int
  PROVE  BriefWarnsRight
BY BriefRight DEF BriefWarnsRight

=============================================================================
