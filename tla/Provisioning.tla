---------------------------- MODULE Provisioning ----------------------------
(***************************************************************************)
(* How crates/diktafond brings the selected models to disk before it loads *)
(* them (manifest.rs ensure_files, fetch.rs): every file of the selection  *)
(* in turn, each resumed from a .partial if an earlier run left one, tried *)
(* again when that may help, checked against the manifest's sha256 and     *)
(* renamed into place; files of a directory model are collected in         *)
(* <dir>.downloading and the directory is renamed when all are there.      *)
(*                                                                         *)
(* The daemon may be killed at any step, and is started again by its       *)
(* client. A partial is its length and whether its bytes are a prefix of   *)
(* the file the manifest names; what one is after a loss of power, or      *)
(* after an application update that names another file, is left open.      *)
(***************************************************************************)
EXTENDS Integers, Sequences, FiniteSets

CONSTANTS
  Selected,   \* the files of the selected models, in the order they are fetched
  DirOf,      \* the directory a file belongs to, NoDir for a loose one
  NoDir,
  Size,       \* the bytes of a file, in chunks
  Retries,    \* RETRY_DELAYS.len()
  MaxFaults,  \* bound: replies and bodies that are not what a good source sends
  MaxMishaps  \* bound: kills, losses of power, updates, deletions by the user

File    == {Selected[i] : i \in 1 .. Len(Selected)}
Dirs    == {DirOf[f] : f \in File} \ {NoDir}
Members(d) == {f \in File : DirOf[f] = d}

ASSUME ProvisioningAssumption ==
  /\ Selected \in Seq(File) /\ DirOf \in [File -> Dirs \cup {NoDir}]
  /\ Size \in Nat \ {0} /\ Retries \in Nat
  /\ MaxFaults \in Nat /\ MaxMishaps \in Nat

Place   == File \X {"final", "staging"}
Absent  == [len |-> -1, good |-> TRUE]
Partial == [len : 0 .. Size + 1, good : BOOLEAN] \cup {Absent}

VARIABLES
  step,     \* where the daemon is; "down" when none runs
  at,       \* the file ensure_files is at
  tries,    \* retries this fetch has used
  disk,     \* what is complete at each place: "none", "good" or "bad"
  partial,  \* the .partial of each place
  finals,   \* the directories of models that exist
  stagings, \* the directories that have a .downloading beside them
  faults, mishaps

store == <<disk, partial, finals, stagings>>
vars  == <<step, at, tries, store, faults, mishaps>>

-----------------------------------------------------------------------------
\* Mutant of Target: no staging.
TargetInPlace(f) == <<f, "final">>

\* download_path: where f is downloaded to.
Target(f) == IF DirOf[f] \in finals \cup {NoDir} THEN <<f, "final">> ELSE <<f, "staging">>

\* Nothing to do: in its final place, or verified in the staging directory.
Present(f) == disk[<<f, "final">>] # "none" \/ disk[Target(f)] # "none"

current == Target(Selected[at])
Have    == partial[current]

\* A directory is complete when every member the manifest lists is staged.
Complete(d) == \A f \in Members(d) : disk[<<f, "staging">>] # "none"

-----------------------------------------------------------------------------
Init ==
  /\ step = "down" /\ at = 1 /\ tries = 0
  /\ disk = [p \in Place |-> "none"] /\ partial = [p \in Place |-> Absent]
  /\ finals = {} /\ stagings = {}
  /\ faults = 0 /\ mishaps = 0

\* The client finds no daemon and spawns one.
Boot ==
  /\ step = "down" /\ step' = "scan" /\ at' = 1
  /\ UNCHANGED <<tries, store, faults, mishaps>>

Skip ==
  /\ step = "scan" /\ at <= Len(Selected) /\ Present(Selected[at])
  /\ at' = at + 1
  /\ UNCHANGED <<step, tries, store, faults, mishaps>>

\* create_dir_all of the target's parent, then fetch.
BeginFetch ==
  /\ step = "scan" /\ at <= Len(Selected) /\ ~Present(Selected[at])
  /\ step' = "attempt" /\ tries' = 0
  /\ LET d == DirOf[Selected[at]] IN
     /\ stagings' = IF current[2] = "staging" THEN stagings \cup {d} ELSE stagings
     /\ finals' = IF current[2] = "final" /\ d # NoDir THEN finals \cup {d} ELSE finals
  /\ UNCHANGED <<at, disk, partial, faults, mishaps>>

\* An attempt that failed in a way another may mend.
Again ==
  IF tries < Retries THEN step' = "attempt" /\ tries' = tries + 1
                     ELSE step' = "down" /\ tries' = 0

\* An attempt whose failure is marked Permanent: start_up fails and the daemon exits.
GiveUp == step' = "down" /\ tries' = 0

\* Mutant of Verified: the hash of a partial is not compared.
VerifiedByLength(p) == p.len = Size

\* sha256_of agrees with the manifest.
Verified(p) == p.len = Size /\ p.good

\* Mutant of Discarded: a partial with the wrong hash is left for the next run.
DiscardedNever == UNCHANGED partial

Discarded == partial' = [partial EXCEPT ![current] = Absent]

\* verify_and_finalize; mending says whether a mismatch is worth a retry.
VerifyAndFinalize(mending) ==
  \/ /\ Verified(Have)
     /\ disk' = [disk EXCEPT ![current] = IF Have.good THEN "good" ELSE "bad"]
     /\ partial' = [partial EXCEPT ![current] = Absent]
     /\ step' = "scan" /\ tries' = 0 /\ at' = at + 1
  \/ /\ ~Verified(Have)
     /\ Discarded
     /\ IF mending THEN Again ELSE GiveUp
     /\ UNCHANGED <<disk, at>>

-----------------------------------------------------------------------------
\* fetch_once looks at the partial first.

\* A crash between the last byte and the rename.
AttemptVerifies ==
  /\ step = "attempt" /\ Have.len = Size
  /\ VerifyAndFinalize(TRUE)
  /\ UNCHANGED <<finals, stagings, faults, mishaps>>

AttemptRequests ==
  /\ step = "attempt" /\ Have.len # Size
  /\ step' = "request"
  /\ IF Have.len > Size THEN Discarded ELSE UNCHANGED partial
  /\ UNCHANGED <<at, tries, disk, finals, stagings, faults, mishaps>>

Fault == faults < MaxFaults /\ faults' = faults + 1

\* A Range header is sent when the partial is not empty, and honoured.
Resumed ==
  /\ step = "request" /\ Have.len > 0 /\ step' = "body"
  /\ UNCHANGED <<at, tries, store, faults, mishaps>>

\* 200: a fresh download, or the server ignored the range.
Restarted ==
  /\ step = "request" /\ step' = "body"
  /\ partial' = [partial EXCEPT ![current] = [len |-> 0, good |-> TRUE]]
  /\ UNCHANGED <<at, tries, disk, finals, stagings, faults, mishaps>>

\* 206 from another place than was asked for, or without saying from where.
ResumedElsewhere ==
  /\ step = "request" /\ Have.len > 0 /\ Fault
  /\ Discarded /\ Again
  /\ UNCHANGED <<at, disk, finals, stagings, mishaps>>

\* 416 while there is a partial: only the hash can bless it.
NotSatisfiable ==
  /\ step = "request" /\ Have.len > 0 /\ Fault
  /\ VerifyAndFinalize(TRUE)
  /\ UNCHANGED <<finals, stagings, mishaps>>

\* Any other 4xx.
Denied ==
  /\ step = "request" /\ Fault
  /\ GiveUp
  /\ UNCHANGED <<at, store, mishaps>>

\* No answer, or another status.
Unanswered ==
  /\ step = "request" /\ Fault
  /\ Again
  /\ UNCHANGED <<at, store, mishaps>>

Chunk(good) ==
  /\ step = "body" /\ Have.len < Size
  /\ partial' = [partial EXCEPT ![current] = [len |-> Have.len + 1, good |-> Have.good /\ good]]
  /\ IF good THEN UNCHANGED faults ELSE Fault
  /\ UNCHANGED <<step, at, tries, disk, finals, stagings, mishaps>>

\* More than the file's size is sent: nothing of it is kept.
Overrun ==
  /\ step = "body" /\ Have.len = Size /\ Fault
  /\ Discarded /\ Again
  /\ UNCHANGED <<at, disk, finals, stagings, mishaps>>

\* The body stalls, breaks or ends early; what arrived stays for the next attempt.
BodyFails ==
  /\ step = "body" /\ Fault
  /\ Again
  /\ UNCHANGED <<at, store, mishaps>>

\* A mismatch here is taken for a source that disagrees with the manifest.
BodyEnds ==
  /\ step = "body" /\ Have.len = Size
  /\ VerifyAndFinalize(FALSE)
  /\ UNCHANGED <<finals, stagings, faults, mishaps>>

-----------------------------------------------------------------------------
\* promote_completed_directories, a directory at a time.

Scanned == step = "scan" /\ at > Len(Selected)

Promote(d) ==
  /\ Scanned /\ d \in stagings \ finals /\ Complete(d)
  /\ finals' = finals \cup {d} /\ stagings' = stagings \ {d}
  /\ disk' = [p \in Place |->
       IF p[1] \notin Members(d) THEN disk[p]
       ELSE IF p[2] = "final" THEN disk[<<p[1], "staging">>] ELSE "none"]
  /\ partial' = [p \in Place |->
       IF p[1] \notin Members(d) THEN partial[p]
       ELSE IF p[2] = "final" THEN partial[<<p[1], "staging">>] ELSE Absent]
  /\ UNCHANGED <<step, at, tries, faults, mishaps>>

\* What an earlier run left beside a directory that is there.
RemoveStaging(d) ==
  /\ Scanned /\ d \in stagings \cap finals
  /\ stagings' = stagings \ {d}
  /\ disk' = [p \in Place |-> IF p \in Members(d) \X {"staging"} THEN "none" ELSE disk[p]]
  /\ partial' = [p \in Place |-> IF p \in Members(d) \X {"staging"} THEN Absent ELSE partial[p]]
  /\ UNCHANGED <<step, at, tries, finals, faults, mishaps>>

\* The models are loaded and served.
Load ==
  /\ Scanned
  /\ \A d \in stagings : d \notin finals /\ ~Complete(d)
  /\ step' = "ready"
  /\ UNCHANGED <<at, tries, store, faults, mishaps>>

-----------------------------------------------------------------------------
\* What happens to the daemon and to its files from outside.

Mishap == mishaps < MaxMishaps /\ mishaps' = mishaps + 1

Killed ==
  /\ step # "down" /\ Mishap
  /\ step' = "down" /\ tries' = 0
  /\ UNCHANGED <<at, store, faults>>

\* A loss of power also takes what was not yet written of the partial. (Nothing is
\* synced before the rename, fetch.rs 154-175: a file just finalized may lose bytes
\* too. That is not modelled: what has its own name is never verified again.)
PowerLost ==
  /\ step = "body" /\ Have.len > 0 /\ Mishap
  /\ step' = "down" /\ tries' = 0
  /\ partial' = [partial EXCEPT ![current].good = FALSE]
  /\ UNCHANGED <<at, disk, finals, stagings, faults>>

\* Another release of the manifest names another file, of another size, under
\* a name that is still being downloaded. (A file that is there under its final or
\* staged name is skipped whatever a new manifest names, manifest.rs 367 and 376:
\* such an update changes nothing here.)
Updated(p, n) ==
  /\ step = "down" /\ partial[p] # Absent /\ Mishap
  /\ partial' = [partial EXCEPT ![p] = [len |-> n, good |-> FALSE]]
  /\ UNCHANGED <<step, at, tries, disk, finals, stagings, faults>>

UserDeletes(f) ==
  /\ step = "down" /\ disk[<<f, "final">>] # "none" /\ Mishap
  /\ disk' = [disk EXCEPT ![<<f, "final">>] = "none"]
  /\ UNCHANGED <<step, at, tries, partial, finals, stagings, faults>>

UserDeletesDirectory(d) ==
  /\ step = "down" /\ d \in finals /\ Mishap
  /\ finals' = finals \ {d}
  /\ disk' = [p \in Place |-> IF p \in Members(d) \X {"final"} THEN "none" ELSE disk[p]]
  /\ partial' = [p \in Place |-> IF p \in Members(d) \X {"final"} THEN Absent ELSE partial[p]]
  /\ UNCHANGED <<step, at, tries, stagings, faults>>

\* The user copies a complete model directory into place.
UserRestoresDirectory(d) ==
  /\ step = "down" /\ d \notin finals /\ Mishap
  /\ finals' = finals \cup {d}
  /\ disk' = [p \in Place |-> IF p \in Members(d) \X {"final"} THEN "good" ELSE disk[p]]
  /\ UNCHANGED <<step, at, tries, partial, stagings, faults>>

-----------------------------------------------------------------------------
Fetch ==
  \/ AttemptVerifies \/ AttemptRequests
  \/ Resumed \/ Restarted \/ ResumedElsewhere \/ NotSatisfiable \/ Denied \/ Unanswered
  \/ \E good \in BOOLEAN : Chunk(good)
  \/ Overrun \/ BodyFails \/ BodyEnds

EnsureFiles ==
  \/ Boot \/ Skip \/ BeginFetch \/ Load
  \/ \E d \in Dirs : Promote(d) \/ RemoveStaging(d)

Outside ==
  \/ Killed \/ PowerLost
  \/ \E p \in Place, n \in 1 .. Size + 1 : Updated(p, n)
  \/ \E f \in File : UserDeletes(f)
  \/ \E d \in Dirs : UserDeletesDirectory(d) \/ UserRestoresDirectory(d)

Next == Fetch \/ EnsureFiles \/ Outside

Spec == Init /\ [][Next]_vars

\* The client spawns a daemon whenever there is none, requests and bodies are
\* under timeouts, and everything else is one thread's own progress.
FairSpec == Spec /\ WF_vars(Fetch \/ EnsureFiles)

-----------------------------------------------------------------------------
TypeOK ==
  /\ step \in {"down", "scan", "attempt", "request", "body", "ready"}
  /\ at \in 1 .. Len(Selected) + 1 /\ tries \in 0 .. Retries
  /\ disk \in [Place -> {"none", "good", "bad"}] /\ partial \in [Place -> Partial]
  /\ finals \subseteq Dirs /\ stagings \subseteq Dirs
  /\ faults \in 0 .. MaxFaults /\ mishaps \in 0 .. MaxMishaps
  /\ step \in {"attempt", "request", "body"} => at <= Len(Selected)
  /\ step = "body" => Have # Absent /\ Have.len <= Size
  /\ step = "request" => Have.len < Size

\* Nothing gets a file's own name, or a place in staging, unchecked: a resumed,
\* mirrored or interrupted download is only ever renamed with the manifest's hash
\* (fetch.rs: the hash is what makes resumed downloads safe at all). What becomes of
\* a file after that, no later start asks.
OnlyVerified == \A p \in Place : disk[p] # "bad"

\* The detailed provisioning implements the promise: each name changes by one
\* verified file, a directory appears whole, models are loaded only complete.
Store == INSTANCE ModelStore WITH
  files  <- [f \in File |-> disk[<<f, "final">>]],
  dirs   <- finals,
  loaded <- step = "ready"

Implements == Store!Spec

\* Partials left by kills, losses of power and updates, failed attempts and
\* permanent failures do not keep the models from being complete in the end.
ProvisionedInTheEnd == <>[](step = "ready")
=============================================================================
