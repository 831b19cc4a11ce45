---------------------------- MODULE FileReplace ----------------------------
(***************************************************************************)
(* How a draft's two files are replaced: project.cutlass (persist.rs of    *)
(* cutlass-models) and its sidecar meta.json (drafts/meta.rs).  Both write *)
(* and sync a temporary beside the destination and rename it over; where   *)
(* that fails they move the old file to a private backup, rename again,    *)
(* and move the backup back when that fails too.  Any call may fail, and   *)
(* the process may end between any two of them.                            *)
(*                                                                         *)
(* A document is the number of the edit that made it; backups of equal     *)
(* documents count as one, so that removing one removes them all.          *)
(***************************************************************************)
EXTENDS Naturals

CONSTANTS
  Draft,    \* the draft directories this root can have
  NoDraft,  \* no directory
  Nothing   \* no file, or one that is not known to be there

Name == {"project", "meta"}
Place == Draft \X Name
Document == Nat

ASSUME DraftAssumption == NoDraft \notin Draft /\ Nothing \notin Document

VARIABLES
  dir,     \* drafts whose directory exists
  file,    \* what is at each destination
  aside,   \* what is in its backups
  kept,    \* what was last put there, while the draft was not deleted
  job      \* the replacement the worker is at

disk == <<dir, file, aside, kept>>

Jobs ==
  [step : {"idle", "stage", "install", "aside", "swap", "restore", "done", "failed"},
   draft : Draft \cup {NoDraft}, name : Name, doc : Document,
   old : Document \cup {Nothing},  \* what this replacement has put aside
   temp : BOOLEAN,                 \* its temporary exists
   last : BOOLEAN]                 \* it ends the change of the session

NoJob ==
  [step |-> "idle", draft |-> NoDraft, name |-> "meta", doc |-> 0,
   old |-> Nothing, temp |-> FALSE, last |-> FALSE]

EmptyDisk ==
  /\ dir = {}
  /\ file = [p \in Place |-> Nothing]
  /\ aside = [p \in Place |-> {}]
  /\ kept = [p \in Place |-> Nothing]

StartJob(d, name, doc) ==
  [NoJob EXCEPT !.step = "stage", !.draft = d, !.name = name, !.doc = doc]

At(step) == job.step = step
Goto(step) == job' = [job EXCEPT !.step = step]
Give == job' = [job EXCEPT !.step = "failed", !.temp = FALSE]
Destination == <<job.draft, job.name>>

(* The temporary reaches the destination: the replacement is committed.    *)
Put ==
  /\ job.temp
  /\ file' = [file EXCEPT ![Destination] = job.doc]
  /\ kept' = [kept EXCEPT ![Destination] = job.doc]
  /\ job' = [job EXCEPT !.step = "done", !.temp = FALSE]

-----------------------------------------------------------------------------
\* A fault: the directory is created when it is missing.
StageAnywhere ==
  /\ At("stage")
  /\ \/ dir' = dir \cup {job.draft} /\ job' = [job EXCEPT !.step = "install", !.temp = TRUE]
     \/ Give /\ UNCHANGED dir
  /\ UNCHANGED <<file, aside, kept>>

(* A temporary is created in the draft's directory, which must be there.   *)
Stage ==
  /\ At("stage")
  /\ \/ job.draft \in dir /\ job' = [job EXCEPT !.step = "install", !.temp = TRUE]
     \/ Give
  /\ UNCHANGED disk

(* One rename; when it fails, the long way is for a file that is there.    *)
Install ==
  /\ At("install")
  /\ \/ Put
     \/ file[Destination] = Nothing /\ Give /\ UNCHANGED <<file, kept>>
     \/ file[Destination] # Nothing /\ Goto("aside") /\ UNCHANGED <<file, kept>>
  /\ UNCHANGED <<dir, aside>>

\* A fault: the old file is removed to make room.
RemoveOld ==
  /\ At("aside")
  /\ \/ /\ file[Destination] # Nothing
        /\ job' = [job EXCEPT !.step = "swap", !.old = file[Destination]]
        /\ file' = [file EXCEPT ![Destination] = Nothing]
     \/ Give /\ UNCHANGED file
  /\ UNCHANGED <<dir, aside, kept>>

(* The old file moves to a backup of its own, or stays where it is.        *)
MoveAside ==
  /\ At("aside")
  /\ \/ /\ file[Destination] # Nothing
        /\ job' = [job EXCEPT !.step = "swap", !.old = file[Destination]]
        /\ aside' = [aside EXCEPT ![Destination] = @ \cup {file[Destination]}]
        /\ file' = [file EXCEPT ![Destination] = Nothing]
     \/ Give /\ UNCHANGED <<file, aside>>
  /\ UNCHANGED <<dir, kept>>

(* The backup is removed afterwards, as far as it can be.                  *)
Swap ==
  /\ At("swap")
  /\ \/ Put /\ aside' \in {aside, [aside EXCEPT ![Destination] = @ \ {job.old}]}
     \/ Goto("restore") /\ UNCHANGED <<file, aside, kept>>
  /\ UNCHANGED dir

(* The backup moves back, or is retained.                                  *)
Restore ==
  /\ At("restore")
  /\ Give
  /\ \/ /\ job.old \in aside[Destination]
        /\ file' = [file EXCEPT ![Destination] = job.old]
        /\ aside' = [aside EXCEPT ![Destination] = @ \ {job.old}]
     \/ UNCHANGED <<file, aside>>
  /\ UNCHANGED <<dir, kept>>

Replace == Stage \/ Install \/ MoveAside \/ Swap \/ Restore

(* The directory moves to a tombstone with all that is in it.              *)
RemoveDirectory(d) ==
  /\ d \in dir
  /\ dir' = dir \ {d}
  /\ file' = [p \in Place |-> IF p[1] = d THEN Nothing ELSE file[p]]
  /\ aside' = [p \in Place |-> IF p[1] = d THEN {} ELSE aside[p]]
  /\ kept' = [p \in Place |-> IF p[1] = d THEN Nothing ELSE kept[p]]
  /\ job' = IF job.draft = d THEN [job EXCEPT !.temp = FALSE] ELSE job

-----------------------------------------------------------------------------
(* What was last put in a draft is at its destination, or there is nothing *)
(* there and it is in a backup, whatever fails and wherever the process    *)
(* ends: a replacement never deletes the original before the new file has  *)
(* taken its place, and an older file never comes back.                    *)
KeptSomewhere ==
  \A p \in Place :
    kept[p] # Nothing =>
      \/ file[p] = kept[p]
      \/ file[p] = Nothing /\ kept[p] \in aside[p]
=============================================================================
