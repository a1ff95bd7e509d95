------------------------------ MODULE MCVault ------------------------------
(***************************************************************************)
(* The parts around the vault and the backups share nothing, so that one   *)
(* run checks each on its own: the subject moves, the others stay as they  *)
(* were initially.                                                         *)
(***************************************************************************)
EXTENDS VaultWrites, VaultTriage, VaultHealth, VaultDocs, DbBackups

VARIABLES subject,
          doc       \* what the brief finds, of which nothing moves

vars == <<subject, doc, writeVars, triageVars, healthVars, backupVars>>

\* Two paths, a directory's and a file's, that are encoded alike.
MCEncoded == [c \in Conflict |-> "a"]

MCRetainHourly == [d \in Database |-> 2]
MCRetainDaily == [d \in Database |-> IF d = "kanban.db" THEN 0 ELSE 1]

MCDocument ==
  {d \in [compiled : {"day", "absent", "other"}, day : 0 .. 4, threshold : 0 .. 3] :
     d.compiled = "day" \/ d.day = 0} \cup {NoDocument}

MCVaultDocs == [docs : [{"INDEX.md", "areas/schedule.md"} -> MCDocument], today : {3}]

Init ==
  /\ subject \in {"writes", "triage", "health", "docs", "backups"}
  /\ IF subject = "docs" THEN doc \in MCVaultDocs ELSE doc = [docs |-> <<>>, today |-> 0]
  /\ WriteInit /\ TriageInit /\ HealthInit /\ BackupInit
  /\ subject # "backups" => db = "state.db"

Next ==
  /\ UNCHANGED <<subject, doc>>
  /\ \/ /\ subject = "writes" /\ WriteNext
        /\ UNCHANGED <<triageVars, healthVars, backupVars>>
     \/ /\ subject = "triage" /\ TriageNext
        /\ UNCHANGED <<writeVars, healthVars, backupVars>>
     \/ /\ subject = "health" /\ HealthNext
        /\ UNCHANGED <<writeVars, triageVars, backupVars>>
     \/ /\ subject = "backups" /\ BackupNext
        /\ UNCHANGED <<writeVars, triageVars, healthVars>>

Spec == Init /\ [][Next]_vars

\* The brief warns of what is out of date and of nothing else (WarnedRight).
BriefWarnsRight == WarnedRight(doc.docs, {}, {}, doc.today, 7)
=============================================================================
