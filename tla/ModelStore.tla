----------------------------- MODULE ModelStore -----------------------------
(***************************************************************************)
(* What provisioning promises of the models directory, whatever happens to *)
(* downloads and processes: a file appears under its name only with the    *)
(* bytes the manifest names, a directory model appears whole, and          *)
(* inference is loaded only from a complete set.                           *)
(***************************************************************************)
CONSTANTS
  File,     \* the files of the selected models
  DirOf,    \* the directory a file belongs to, NoDir for a loose one
  NoDir

VARIABLES
  files,    \* what is under each file's own name: "none", "good" or "bad"
  dirs,     \* the directories that exist
  loaded    \* the models are being loaded or served

Dirs       == {DirOf[f] : f \in File} \ {NoDir}
Members(d) == {f \in File : DirOf[f] = d}

Init == files = [f \in File |-> "none"] /\ dirs = {} /\ loaded = FALSE

\* A loose file is installed, or one that a directory lost is repaired.
Install(f) ==
  /\ ~loaded /\ files[f] = "none" /\ DirOf[f] \in dirs \cup {NoDir}
  /\ files' = [files EXCEPT ![f] = "good"]
  /\ UNCHANGED <<dirs, loaded>>

\* A directory model appears with every file, or the user puts one back.
PutDirectory(d) ==
  /\ ~loaded /\ d \notin dirs /\ dirs' = dirs \cup {d}
  /\ files' = [f \in File |-> IF f \in Members(d) THEN "good" ELSE files[f]]
  /\ UNCHANGED loaded

Load ==
  /\ ~loaded /\ \A f \in File : files[f] = "good"
  /\ loaded' = TRUE
  /\ UNCHANGED <<files, dirs>>

Exit == loaded /\ loaded' = FALSE /\ UNCHANGED <<files, dirs>>

\* The user deletes a file, or a directory with what is in it.
Delete(f) ==
  /\ ~loaded /\ files[f] # "none"
  /\ files' = [files EXCEPT ![f] = "none"]
  /\ UNCHANGED <<dirs, loaded>>

DeleteDirectory(d) ==
  /\ ~loaded /\ dirs' = dirs \ {d}
  /\ files' = [f \in File |-> IF f \in Members(d) THEN "none" ELSE files[f]]
  /\ UNCHANGED loaded

Next ==
  \/ \E f \in File : Install(f) \/ Delete(f)
  \/ \E d \in Dirs : PutDirectory(d) \/ DeleteDirectory(d)
  \/ Load \/ Exit

Spec == Init /\ [][Next]_<<files, dirs, loaded>>
=============================================================================
