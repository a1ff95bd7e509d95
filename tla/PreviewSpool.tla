---------------------------- MODULE PreviewSpool ----------------------------
(***************************************************************************)
(* The spool of preview files (invoice-relay previews.py): a drafted       *)
(* document is written to a directory that every worker prunes before it   *)
(* writes, and the agent is told the path.  Workers run side by side and   *)
(* nothing locks the directory.                                            *)
(***************************************************************************)
EXTENDS Naturals, FiniteSets

CONSTANTS Draft,      \* the draft calls, each rendering a document of its own
          FileOf,     \* the file each is named for by its request_id
          Spoolers,   \* workers that may be at it at once (MAX_CONCURRENT)
          MaxFiles,   \* preview_max_files
          Retention,  \* preview_retention_seconds
          MaxNow      \* bound on the clock

ASSUME SpoolAssumption ==
  Spoolers \in Nat \ {0} /\ MaxFiles \in Nat \ {0} /\ Retention \in Nat /\ DOMAIN FileOf = Draft

VARIABLES files,    \* what each file holds, and since when
          step,     \* where each draft is
          listed,   \* what its prune found, with the times of then
          doomed,   \* what its prune still has to remove
          now,      \* the clock
          born,     \* when each draft's file was opened
          touched,  \* when it was opened or, if it was, written
          told,     \* the drafts whose path the agent was told
          left,     \* the files each left behind it, for the property
          alone     \* the drafts no other draft ran beside, for the property

spoolVars == <<files, step, listed, doomed, now, born, touched, told, left, alone>>

FileName == {FileOf[d] : d \in Draft}
NoFile == [of |-> {}, mtime |-> 0]
Exists(f) == files[f] # NoFile

Spooling == {d \in Draft : step[d] \notin {"start", "end"}}

SpoolInit ==
  /\ files = [f \in FileName |-> NoFile]
  /\ step = [d \in Draft |-> "start"]
  /\ listed = [d \in Draft |-> <<>>]
  /\ doomed = [d \in Draft |-> {}]
  /\ now = 1
  /\ born = [d \in Draft |-> 0]
  /\ touched = [d \in Draft |-> 0]
  /\ told = {}
  /\ left = [d \in Draft |-> 0]
  /\ alone = Draft

\* The directory is made if it is missing and its files are listed with their
\* times. A file another worker removes meanwhile makes the listing fail,
\* and nothing is pruned.
List(d) ==
  /\ step[d] = "start" /\ Cardinality(Spooling) < Spoolers
  /\ alone' = IF Spooling = {} THEN alone ELSE alone \ ({d} \cup Spooling)
  /\ \/ /\ listed' = [listed EXCEPT ![d] =
               [f \in {g \in FileName : Exists(g)} |-> files[f].mtime]]
        /\ step' = [step EXCEPT ![d] = "expire"]
     \/ /\ \E e \in Spooling : doomed[e] # {}
        /\ step' = [step EXCEPT ![d] = "open"]
        /\ UNCHANGED listed
  /\ UNCHANGED <<files, doomed, now, born, touched, told, left>>

Older(d, f, g) == listed[d][f] < listed[d][g]

\* Mutant: the newest go first.
ExcessNewest(d, kept) ==
  {X \in SUBSET kept :
     /\ Cardinality(X) = IF Cardinality(kept) > MaxFiles THEN Cardinality(kept) - MaxFiles ELSE 0
     /\ \A f \in X, g \in kept \ X : ~Older(d, f, g)}

\* The choices of the oldest files beyond the count; files of one time may
\* come in any order.
Excess(d, kept) ==
  {X \in SUBSET kept :
     /\ Cardinality(X) = IF Cardinality(kept) > MaxFiles THEN Cardinality(kept) - MaxFiles ELSE 0
     /\ \A f \in X, g \in kept \ X : ~Older(d, g, f)}

\* Of the files listed the expired ones go, by the time they have now, and
\* of the others the oldest beyond the count.
Choose(d) ==
  /\ step[d] = "expire"
  /\ LET expired == {f \in DOMAIN listed[d] : Exists(f) /\ now - files[f].mtime > Retention}
     IN \E X \in Excess(d, DOMAIN listed[d] \ expired) :
          doomed' = [doomed EXCEPT ![d] = expired \cup X]
  /\ step' = [step EXCEPT ![d] = "unlink"]
  /\ UNCHANGED <<files, listed, now, born, touched, told, left, alone>>

\* One file is removed at a time; one that is gone already is passed over.
Unlink(d) ==
  /\ step[d] = "unlink" /\ doomed[d] # {}
  /\ \E f \in doomed[d] :
       /\ files' = [files EXCEPT ![f] = NoFile]
       /\ doomed' = [doomed EXCEPT ![d] = @ \ {f}]
  /\ UNCHANGED <<step, listed, now, born, touched, told, left, alone>>

\* The file is created or emptied. An OSError up to the write falls back to
\* the inline answer; the file stays as it is by then.
Open(d) ==
  /\ step[d] = "open" \/ (step[d] = "unlink" /\ doomed[d] = {})
  /\ listed' = [listed EXCEPT ![d] = <<>>]
  /\ \/ /\ files' = [files EXCEPT ![FileOf[d]] = [of |-> {d}, mtime |-> now]]
        /\ born' = [born EXCEPT ![d] = now]
        /\ touched' = [touched EXCEPT ![d] = now]
        /\ step' = [step EXCEPT ![d] = "write"]
     \/ /\ step' = [step EXCEPT ![d] = "end"]
        /\ UNCHANGED <<files, born, touched>>
  /\ UNCHANGED <<doomed, now, told, left, alone>>

\* The bytes go where the descriptor leads, which is a file no name leads to
\* once the name was removed or taken.
Written(d) ==
  IF d \in files[FileOf[d]].of
  THEN [files EXCEPT ![FileOf[d]].mtime = now]
  ELSE files

Write(d) ==
  /\ step[d] = "write"
  /\ step' = [step EXCEPT ![d] = "end"]
  /\ files' = Written(d)
  /\ left' = [left EXCEPT ![d] = Cardinality({f \in FileName : Exists(f)})]
  /\ told' = told \cup {d}
  /\ touched' = [touched EXCEPT ![d] = now]
  /\ UNCHANGED <<listed, doomed, now, born, alone>>

WriteFails(d) ==
  /\ step[d] = "write"
  /\ step' = [step EXCEPT ![d] = "end"]
  /\ UNCHANGED <<files, listed, doomed, now, born, touched, told, left, alone>>

Pass ==
  /\ now < MaxNow
  /\ now' = now + 1
  /\ UNCHANGED <<files, step, listed, doomed, born, touched, told, left, alone>>

SpoolNext ==
  \/ \E d \in Draft : List(d) \/ Choose(d) \/ Unlink(d) \/ Open(d) \/ Write(d) \/ WriteFails(d)
  \/ Pass

SpoolSpec == SpoolInit /\ [][SpoolNext]_spoolVars

-----------------------------------------------------------------------------
\* A path the agent was told leads to the preview it was told of, whichever
\* workers prune at the same time, unless it expired, another request had its
\* name, or the directory filled with files no older; and a draft that no
\* other ran beside leaves at most one file over the count (spool, prune).
PreviewsKept ==
  /\ \A d \in told :
       \/ d \in files[FileOf[d]].of
       \/ now - born[d] > Retention
       \/ \E e \in Draft \ {d} : FileOf[e] = FileOf[d] /\ touched[e] > 0
       \/ Cardinality({e \in Draft \ {d} : touched[e] >= born[d]}) >= MaxFiles
  /\ \A d \in told \cap alone : left[d] <= MaxFiles + 1
=============================================================================
