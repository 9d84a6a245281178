--------------------------- MODULE Inference_proofs ---------------------------
(***************************************************************************)
(* The models and the worker that holds them.                              *)
(*                                                                         *)
(* Provisioning: for every selection of files and directories, every file  *)
(* size and number of retries, faults and mishaps, what is installed is    *)
(* verified, and provisioning implements the ModelStore. What makes the    *)
(* models complete when they are loaded is the invariant Behind: every     *)
(* file ensure_files has passed is in its final place, or staged while its *)
(* directory does not exist. It rests on Homeless (nothing is under a      *)
(* directory that does not exist) and StagedHome.                          *)
(*                                                                         *)
(* Inference: for every catalog and selection, every length of context,    *)
(* prompt and clip, and whatever provisioning goes through. Its invariants *)
(* are of one step's words each, strengthened by what a session has been   *)
(* found to hold when it gets past its flush.                              *)
(***************************************************************************)
EXTENDS Inference, TLAPS, FiniteSetTheorems

InFlight == step \in {"attempt", "request", "body"}

Placed(f) ==
  \/ disk[<<f, "final">>] # "none"
  \/ DirOf[f] \notin finals \cup {NoDir} /\ disk[<<f, "staging">>] # "none"

Homeless   == \A f \in File : DirOf[f] \notin finals \cup {NoDir} => disk[<<f, "final">>] = "none"
StagedHome == \A f \in File : disk[<<f, "staging">>] # "none" => DirOf[f] \in stagings
Targeted   == InFlight => /\ disk[current] = "none"
                          /\ current[2] = "staging" => DirOf[Selected[at]] \in stagings
Behind     == step \notin {"down", "ready"} => \A i \in 1 .. at - 1 : Placed(Selected[i])

InstallInv == TypeOK /\ OnlyVerified /\ Homeless /\ StagedHome /\ Targeted /\ Behind

-----------------------------------------------------------------------------
(* Where files and their directories are. *)

\* The file at an index of the selection, and its directory.
LEMMA FileAt ==
  ASSUME NEW i \in 1 .. Len(Selected)
  PROVE  Selected[i] \in File /\ DirOf[Selected[i]] \in Dirs \cup {NoDir}
BY ProvisioningAssumption DEF ProvisioningAssumption, File

\* A file of the selection is at some index, and its directory is one of Dirs or none.
LEMMA FileHasIndex ==
  ASSUME NEW f \in File
  PROVE  /\ \E i \in 1 .. Len(Selected) : f = Selected[i]
         /\ DirOf[f] \in Dirs \cup {NoDir} /\ NoDir \notin Dirs
         /\ <<f, "final">> \in Place /\ <<f, "staging">> \in Place
BY ProvisioningAssumption DEF ProvisioningAssumption, File, Place, Dirs

\* The place a fetch downloads to is the final one exactly if the directory exists.
LEMMA CurrentPlace ==
  ASSUME at \in 1 .. Len(Selected)
  PROVE  /\ current \in Place /\ current[1] = Selected[at]
         /\ \/ /\ current = <<Selected[at], "final">> /\ current[2] = "final"
               /\ DirOf[Selected[at]] \in finals \cup {NoDir}
            \/ /\ current = <<Selected[at], "staging">> /\ current[2] = "staging"
               /\ DirOf[Selected[at]] \notin finals \cup {NoDir}
<1>1. Selected[at] \in File BY FileAt
<1>2. CASE DirOf[Selected[at]] \in finals \cup {NoDir}
  BY <1>1, <1>2, FileHasIndex DEF current, Target
<1>3. CASE DirOf[Selected[at]] \notin finals \cup {NoDir}
  BY <1>1, <1>3, FileHasIndex DEF current, Target
<1> QED BY <1>2, <1>3

\* A fetch in flight is for a file of the selection, from a partial of its type.
LEMMA FlightType ==
  ASSUME TypeOK, InFlight
  PROVE  /\ at \in 1 .. Len(Selected) /\ current \in Place
         /\ Have \in Partial /\ Have.len \in -1 .. Size + 1 /\ Have.good \in BOOLEAN
         /\ Size \in Nat \ {0} /\ Len(Selected) \in Nat
<1>1. Len(Selected) \in Nat /\ Size \in Nat \ {0}
  BY ProvisioningAssumption DEF ProvisioningAssumption
<1>2. at \in 1 .. Len(Selected) BY <1>1 DEF TypeOK, InFlight
<1>3. current \in Place BY <1>2, CurrentPlace
<1>4. Have \in Partial BY <1>3 DEF TypeOK, Have
<1>5. Have.len \in -1 .. Size + 1 /\ Have.good \in BOOLEAN
  <2>1. CASE Have \in [len : 0 .. Size + 1, good : BOOLEAN]
    <3>1. Have.len \in 0 .. Size + 1 BY <2>1
    <3>2. Have.good \in BOOLEAN BY <2>1
    <3>3. \A n \in 0 .. Size + 1 : n \in -1 .. Size + 1 BY <1>1
    <3> QED BY <3>1, <3>2, <3>3
  <2>2. CASE Have = [len |-> -1, good |-> TRUE]
    <3>1. Have.len = -1 BY <2>2
    <3>2. Have.good \in BOOLEAN BY <2>2
    <3>3. -1 \in -1 .. Size + 1 BY <1>1
    <3> QED BY <3>1, <3>2, <3>3
  <2> QED BY <1>4, <2>1, <2>2 DEF Partial, Absent
<1> QED BY <1>1, <1>2, <1>3, <1>4, <1>5

-----------------------------------------------------------------------------
(* The initial state, and the steps that leave what is complete alone. *)

LEMMA InitInstallInv == Init => InstallInv
<1> SUFFICES ASSUME Init PROVE InstallInv OBVIOUS
<1>1. TypeOK
  BY ProvisioningAssumption DEF ProvisioningAssumption, Init, TypeOK, Partial
<1>2. \A f \in File : disk[<<f, "final">>] = "none" /\ disk[<<f, "staging">>] = "none"
  BY FileHasIndex DEF Init
<1>3. OnlyVerified /\ Homeless /\ StagedHome
  BY <1>2 DEF Init, OnlyVerified, Homeless, StagedHome
<1>4. Targeted /\ Behind BY DEF Init, Targeted, Behind, InFlight
<1> QED BY <1>1, <1>3, <1>4 DEF InstallInv

\* A step that changes nothing complete keeps InstallInv if it keeps the types, and
\* the fetch in flight stays at its file or ends.
LEMMA NothingComplete ==
  ASSUME InstallInv, TypeOK', UNCHANGED <<disk, finals, stagings>>,
         \/ step' \in {"down", "ready"}
         \/ step' = "scan" /\ at' = 1
         \/ at' = at /\ InFlight /\ InFlight'
  PROVE  InstallInv'
<1>1. OnlyVerified' /\ Homeless' /\ StagedHome'
  BY DEF InstallInv, OnlyVerified, Homeless, StagedHome
<1>2. CASE step' \in {"down", "ready"}
  BY <1>1, <1>2 DEF InstallInv, Targeted, Behind, InFlight
<1>3. CASE step' = "scan" /\ at' = 1
  <2>1. \A i \in 1 .. at' - 1 : FALSE BY <1>3
  <2> QED BY <1>1, <1>3, <2>1 DEF InstallInv, Targeted, Behind, InFlight
<1>4. CASE at' = at /\ InFlight /\ InFlight'
  <2>1. current' = current BY <1>4 DEF current, Target
  <2>2. Targeted' BY <1>4, <2>1 DEF InstallInv, Targeted
  <2>3. Behind' BY <1>4 DEF InstallInv, Behind, InFlight, Placed
  <2> QED BY <1>1, <2>2, <2>3 DEF InstallInv
<1> QED BY <1>2, <1>3, <1>4

\* The two ways an attempt can end without its file, and what they leave of the partial.
LEMMA AgainType ==
  ASSUME TypeOK, InFlight, Again \/ GiveUp, at' = at, UNCHANGED <<disk, finals, stagings, mishaps>>,
         Discarded \/ UNCHANGED partial, faults' \in 0 .. MaxFaults
  PROVE  TypeOK' /\ (step' = "down" \/ InFlight')
<1>1. at \in 1 .. Len(Selected) /\ current \in Place /\ Len(Selected) \in Nat BY FlightType
<1>2. partial' \in [Place -> Partial] BY <1>1 DEF TypeOK, Discarded, Partial
<1>3. tries' \in 0 .. Retries /\ (step' = "down" \/ step' = "attempt")
  BY ProvisioningAssumption DEF ProvisioningAssumption, TypeOK, Again, GiveUp
<1> QED BY <1>1, <1>2, <1>3 DEF TypeOK, InFlight

-----------------------------------------------------------------------------
(* The steps of a fetch. *)

\* A partial that fails verification changes nothing complete.
LEMMA Unverified ==
  ASSUME InstallInv, InFlight, ~Verified(Have), NEW m \in BOOLEAN, VerifyAndFinalize(m),
         UNCHANGED <<finals, stagings, mishaps>>, faults' \in 0 .. MaxFaults
  PROVE  InstallInv'
<1>1. (Again \/ GiveUp) /\ Discarded /\ UNCHANGED <<disk, at>> BY DEF VerifyAndFinalize
<1>2. TypeOK' /\ (step' = "down" \/ InFlight') BY <1>1, AgainType DEF InstallInv
<1> QED BY <1>1, <1>2, NothingComplete

\* A verified partial fills the place of its file, and nothing else.
LEMMA Finalized ==
  ASSUME InstallInv, InFlight, Verified(Have), NEW m \in BOOLEAN, VerifyAndFinalize(m),
         UNCHANGED <<finals, stagings, mishaps>>, faults' \in 0 .. MaxFaults
  PROVE  /\ InstallInv' /\ disk' = [disk EXCEPT ![current] = "good"]
         /\ at' = at + 1 /\ step' = "scan"
<1>1. /\ disk' = [disk EXCEPT ![current] = "good"]
      /\ partial' = [partial EXCEPT ![current] = Absent]
      /\ step' = "scan" /\ tries' = 0 /\ at' = at + 1
  BY DEF VerifyAndFinalize, Verified
<1>2. /\ at \in 1 .. Len(Selected) /\ current \in Place /\ Len(Selected) \in Nat
      /\ Selected[at] \in File
  BY FlightType, FileAt DEF InstallInv
<1>3. TypeOK'
  <2>1. partial' \in [Place -> Partial] /\ disk' \in [Place -> {"none", "good", "bad"}]
    BY <1>1, <1>2 DEF InstallInv, TypeOK, Partial
  <2>2. tries' \in 0 .. Retries /\ at' \in 1 .. Len(Selected) + 1
    BY <1>1, <1>2, ProvisioningAssumption DEF ProvisioningAssumption
  <2> QED BY <1>1, <2>1, <2>2 DEF InstallInv, TypeOK
<1>4. OnlyVerified' BY <1>1, <1>2 DEF InstallInv, TypeOK, OnlyVerified
<1>5. ASSUME NEW f \in File
      PROVE  /\ disk'[<<f, "final">>] = IF current = <<f, "final">> THEN "good"
                                        ELSE disk[<<f, "final">>]
             /\ disk'[<<f, "staging">>] = IF current = <<f, "staging">> THEN "good"
                                          ELSE disk[<<f, "staging">>]
  BY <1>1, <1>2, FileHasIndex DEF InstallInv, TypeOK
<1>a. \A f \in File :
        /\ current = <<f, "final">> => DirOf[f] \in finals \cup {NoDir}
        /\ current = <<f, "staging">> => DirOf[f] \in stagings
  BY <1>2, CurrentPlace DEF InstallInv, Targeted
<1>6. Homeless'
  BY <1>5, <1>a DEF InstallInv, Homeless
<1>7. StagedHome'
  BY <1>5, <1>a DEF InstallInv, StagedHome
<1>8. Targeted' BY <1>1 DEF Targeted, InFlight
<1>9. Behind'
  <2> SUFFICES ASSUME NEW i \in 1 .. at' - 1 PROVE Placed(Selected[i])'
    BY DEF Behind
  <2>1. i \in 1 .. at /\ i \in 1 .. Len(Selected) BY <1>1, <1>2
  <2>2. Selected[i] \in File BY <2>1, FileAt
  <2>3. CASE i = at
    BY <1>2, <1>5, <2>2, <2>3, CurrentPlace DEF Placed
  <2>4. CASE i # at
    <3>1. Placed(Selected[i]) BY <1>2, <2>1, <2>4 DEF InstallInv, Behind, InFlight
    <3> QED BY <1>5, <2>2, <3>1 DEF Placed
  <2> QED BY <2>3, <2>4
<1> QED BY <1>1, <1>3, <1>4, <1>6, <1>7, <1>8, <1>9 DEF InstallInv

\* Every step of a fetch keeps InstallInv.
LEMMA FetchInstallInv == ASSUME InstallInv, Fetch PROVE InstallInv'
<1>0. TypeOK /\ InFlight BY DEF InstallInv, Fetch, AttemptVerifies, AttemptRequests, Resumed,
  Restarted, ResumedElsewhere, NotSatisfiable, Denied, Unanswered, Chunk, Overrun, BodyFails,
  BodyEnds, InFlight
<1>1. /\ at \in 1 .. Len(Selected) /\ current \in Place
      /\ Have \in Partial /\ Have.len \in -1 .. Size + 1 /\ Have.good \in BOOLEAN
      /\ Size \in Nat \ {0} /\ Len(Selected) \in Nat
  BY <1>0, FlightType
<1>2. MaxFaults \in Nat /\ faults \in 0 .. MaxFaults /\ (Fault => faults' \in 0 .. MaxFaults)
  BY <1>0, ProvisioningAssumption DEF ProvisioningAssumption, TypeOK, Fault
<1>3. CASE AttemptVerifies \/ NotSatisfiable \/ BodyEnds
  BY <1>0, <1>2, <1>3, Unverified, Finalized
     DEF AttemptVerifies, NotSatisfiable, BodyEnds, TypeOK
<1>4. CASE ResumedElsewhere \/ Denied \/ Unanswered \/ Overrun \/ BodyFails
  <2>1. /\ Again \/ GiveUp
        /\ Discarded \/ UNCHANGED partial
        /\ UNCHANGED <<at, disk, finals, stagings, mishaps>>
        /\ faults' \in 0 .. MaxFaults
    BY <1>0, <1>2, <1>4 DEF ResumedElsewhere, Denied, Unanswered, Overrun, BodyFails, store,
       TypeOK
  <2>2. TypeOK' /\ (step' = "down" \/ InFlight') BY <1>0, <2>1, AgainType
  <2> QED BY <1>0, <2>1, <2>2, NothingComplete
<1>5. CASE AttemptRequests
  <2>1. partial' \in [Place -> Partial] /\ partial'[current] \in Partial
        /\ partial'[current].len < Size
    <3>1. CASE Have.len > Size
      BY <1>0, <1>1, <1>5, <3>1 DEF AttemptRequests, Discarded, TypeOK, Partial, Absent
    <3>2. CASE Have.len < Size
      BY <1>0, <1>1, <1>5, <3>2 DEF AttemptRequests, TypeOK, Have
    <3> QED BY <1>1, <1>5, <3>1, <3>2 DEF AttemptRequests
  <2>2. current' = current BY <1>5 DEF AttemptRequests, current, Target
  <2>3. TypeOK' BY <1>0, <1>1, <1>5, <2>1, <2>2 DEF AttemptRequests, TypeOK, Have
  <2> QED BY <1>0, <1>5, <2>3, NothingComplete DEF AttemptRequests, InFlight
<1>6. CASE Resumed
  <2>1. current' = current BY <1>6 DEF Resumed, store, current, Target
  <2>2. Have' = Have /\ Have # Absent /\ Have.len <= Size
    BY <1>0, <1>1, <1>6, <2>1 DEF Resumed, store, Have, Absent, TypeOK
  <2>3. TypeOK' BY <1>0, <1>1, <1>6, <2>2 DEF Resumed, store, TypeOK
  <2> QED BY <1>0, <1>6, <2>3, NothingComplete DEF Resumed, store, InFlight
<1>7. CASE Restarted
  <2>1. [len |-> 0, good |-> TRUE] \in Partial BY <1>1 DEF Partial
  <2>2. current' = current BY <1>7 DEF Restarted, current, Target
  <2>3. partial' \in [Place -> Partial] /\ Have' = [len |-> 0, good |-> TRUE]
    BY <1>0, <1>1, <1>7, <2>1, <2>2 DEF Restarted, TypeOK, Have
  <2>4. Have' # Absent /\ Have'.len <= Size BY <1>1, <2>3 DEF Absent
  <2>5. TypeOK' BY <1>0, <1>1, <1>7, <2>3, <2>4 DEF Restarted, TypeOK
  <2> QED BY <1>0, <1>7, <2>5, NothingComplete DEF Restarted, InFlight
<1>8. ASSUME NEW good \in BOOLEAN, Chunk(good) PROVE InstallInv'
  <2>1. Have.len \in 0 .. Size - 1
    <3>1. Have # Absent /\ Have.len < Size BY <1>0, <1>8 DEF Chunk, TypeOK
    <3>2. Have \in [len : 0 .. Size + 1, good : BOOLEAN] BY <1>1, <3>1 DEF Partial
    <3>3. Have.len \in 0 .. Size + 1 BY <3>2
    <3> QED BY <1>1, <3>1, <3>3
  <2> DEFINE p == [len |-> Have.len + 1, good |-> Have.good /\ good]
  <2>2. p \in Partial /\ p # Absent /\ p.len <= Size BY <1>1, <2>1 DEF Partial, Absent
  <2>3. current' = current BY <1>8 DEF Chunk, current, Target
  <2>4. partial' \in [Place -> Partial] /\ Have' = p
    <3>1. partial' = [partial EXCEPT ![current] = p] BY <1>8 DEF Chunk
    <3> HIDE DEF p
    <3> QED BY <1>0, <1>1, <2>2, <2>3, <3>1 DEF TypeOK, Have
  <2>5. faults' \in 0 .. MaxFaults
    BY <1>0, <1>2, <1>8 DEF Chunk, TypeOK
  <2> HIDE DEF p
  <2>6. TypeOK' BY <1>0, <1>1, <1>8, <2>2, <2>4, <2>5 DEF Chunk, TypeOK
  <2> QED BY <1>0, <1>8, <2>6, NothingComplete DEF Chunk, InFlight
<1> QED BY <1>3, <1>4, <1>5, <1>6, <1>7, <1>8 DEF Fetch

-----------------------------------------------------------------------------
(* The steps of ensure_files. *)

\* Skip passes a file that is placed.
LEMMA SkipInstallInv == ASSUME InstallInv, Skip PROVE InstallInv'
<1>0. TypeOK /\ at \in 1 .. Len(Selected) /\ Len(Selected) \in Nat /\ at' = at + 1
      /\ step = "scan" /\ step' = "scan" /\ UNCHANGED <<disk, partial, finals, stagings>>
  BY ProvisioningAssumption DEF ProvisioningAssumption, InstallInv, TypeOK, Skip, store
<1>1. TypeOK' BY <1>0 DEF Skip, TypeOK
<1>2. OnlyVerified' /\ Homeless' /\ StagedHome' /\ Targeted'
  BY <1>0 DEF InstallInv, OnlyVerified, Homeless, StagedHome, Targeted, InFlight
<1>3. Behind'
  <2> SUFFICES ASSUME NEW i \in 1 .. at' - 1 PROVE Placed(Selected[i])'
    BY DEF Behind
  <2>1. CASE i = at
    <3>1. Placed(Selected[i])
      BY <1>0, <2>1, FileAt DEF Skip, Present, Target, Placed
    <3> QED BY <1>0, <3>1 DEF Placed
  <2>2. CASE i # at
    <3>1. Placed(Selected[i]) BY <1>0, <2>2 DEF InstallInv, Behind
    <3> QED BY <1>0, <3>1 DEF Placed
  <2> QED BY <2>1, <2>2
<1> QED BY <1>1, <1>2, <1>3 DEF InstallInv

\* A fetch that begins finds its place empty, and makes its directory; the
\* directory of a model that is there is never made.
LEMMA BeginFetchInstallInv == ASSUME InstallInv, BeginFetch PROVE InstallInv' /\ finals' = finals
<1>0. /\ TypeOK /\ at \in 1 .. Len(Selected) /\ step = "scan" /\ step' = "attempt" /\ at' = at
      /\ disk' = disk /\ Selected[at] \in File
  BY FileAt, ProvisioningAssumption
     DEF ProvisioningAssumption, InstallInv, TypeOK, BeginFetch
<1>1. finals' = finals BY <1>0, CurrentPlace DEF BeginFetch
<1>2. current' = current BY <1>0, <1>1 DEF current, Target
<1>3. stagings' \subseteq Dirs /\ stagings \subseteq stagings'
      /\ (current[2] = "staging" => DirOf[Selected[at]] \in stagings')
  <2>1. DirOf[Selected[at]] \in Dirs \cup {NoDir} BY <1>0, FileAt
  <2> QED BY <1>0, <2>1, CurrentPlace DEF BeginFetch, TypeOK
<1>4. TypeOK'
  <2>1. tries' \in 0 .. Retries BY ProvisioningAssumption DEF ProvisioningAssumption, BeginFetch
  <2> QED BY <1>0, <1>1, <1>3, <2>1 DEF BeginFetch, TypeOK
<1>5. OnlyVerified' /\ Homeless' /\ StagedHome'
  BY <1>0, <1>1, <1>3 DEF InstallInv, OnlyVerified, Homeless, StagedHome
<1>6. Targeted'
  <2>1. disk[current] = "none" BY <1>0 DEF BeginFetch, Present, current
  <2> QED BY <1>0, <1>2, <1>3, <2>1 DEF Targeted
<1>7. Behind' BY <1>0, <1>1 DEF InstallInv, Behind, Placed
<1> QED BY <1>1, <1>4, <1>5, <1>6, <1>7 DEF InstallInv

\* What is complete when a place of the files of a directory was set to v.
After(d, where, v) == [p \in Place |-> IF p \in Members(d) \X {where} THEN v ELSE disk[p]]

LEMMA Emptied ==
  ASSUME TypeOK, NEW d \in Dirs, NEW where \in {"final", "staging"}, NEW v \in {"none", "good"}
  PROVE  /\ After(d, where, v) \in [Place -> {"none", "good", "bad"}]
         /\ \A f \in File, w \in {"final", "staging"} :
              After(d, where, v)[<<f, w>>] =
                IF DirOf[f] = d /\ w = where THEN v ELSE disk[<<f, w>>]
<1>1. After(d, where, v) \in [Place -> {"none", "good", "bad"}] BY DEF TypeOK, After
<1>2. ASSUME NEW f \in File, NEW w \in {"final", "staging"}
      PROVE  After(d, where, v)[<<f, w>>] =
               IF DirOf[f] = d /\ w = where THEN v ELSE disk[<<f, w>>]
  <2>1. <<f, w>> \in Place BY DEF Place
  <2>2. <<f, w>> \in Members(d) \X {where} <=> DirOf[f] = d /\ w = where BY DEF Members
  <2> QED BY <2>1, <2>2 DEF After
<1> QED BY <1>1, <1>2

\* The same for the partials.
LEMMA EmptiedPartials ==
  ASSUME TypeOK, NEW S
  PROVE  [p \in Place |-> IF p \in S THEN Absent ELSE partial[p]] \in [Place -> Partial]
BY DEF TypeOK, Partial

LEMMA RemoveStagingInstallInv ==
  ASSUME InstallInv, NEW d \in Dirs, RemoveStaging(d)
  PROVE  InstallInv' /\ \A f \in File : disk'[<<f, "final">>] = disk[<<f, "final">>]
<1>0. /\ TypeOK /\ step = "scan" /\ step' = "scan" /\ at' = at /\ finals' = finals /\ d \in finals
      /\ stagings' = stagings \ {d}
  BY DEF InstallInv, RemoveStaging, Scanned
<1>1. /\ disk' \in [Place -> {"none", "good", "bad"}]
      /\ \A f \in File : /\ disk'[<<f, "final">>] = disk[<<f, "final">>]
                         /\ disk'[<<f, "staging">>] = IF DirOf[f] = d THEN "none"
                                                      ELSE disk[<<f, "staging">>]
  <2>1. disk' = After(d, "staging", "none") BY DEF RemoveStaging, After
  <2> QED BY <1>0, <2>1, Emptied
<1>2. TypeOK' BY <1>0, <1>1, EmptiedPartials DEF RemoveStaging, TypeOK
<1>3. OnlyVerified' BY <1>0 DEF InstallInv, OnlyVerified, RemoveStaging
<1>4. Homeless' /\ StagedHome' BY <1>0, <1>1 DEF InstallInv, Homeless, StagedHome
<1>5. Targeted' BY <1>0 DEF Targeted, InFlight
<1>6. Behind'
  <2> SUFFICES ASSUME NEW i \in 1 .. at - 1 PROVE Placed(Selected[i])'
    BY <1>0 DEF Behind
  <2>1. Selected[i] \in File
    BY <1>0, FileAt, ProvisioningAssumption DEF ProvisioningAssumption, TypeOK
  <2>2. Placed(Selected[i]) BY <1>0 DEF InstallInv, Behind
  <2> QED BY <1>0, <1>1, <2>1, <2>2 DEF Placed
<1> QED BY <1>1, <1>2, <1>3, <1>4, <1>5, <1>6 DEF InstallInv

\* A directory that is promoted has every file of the manifest, verified.
LEMMA PromoteInstallInv ==
  ASSUME InstallInv, NEW d \in Dirs, Promote(d)
  PROVE  InstallInv' /\ \A f \in File : disk'[<<f, "final">>] = IF DirOf[f] = d THEN "good"
                                                          ELSE disk[<<f, "final">>]
<1>0. /\ TypeOK /\ step = "scan" /\ step' = "scan" /\ at' = at /\ d \notin finals
      /\ finals' = finals \cup {d} /\ stagings' = stagings \ {d} /\ Complete(d)
  BY DEF InstallInv, Promote, Scanned
<1>1. ASSUME NEW f \in File
      PROVE  /\ disk'[<<f, "final">>] = IF DirOf[f] = d THEN disk[<<f, "staging">>]
                                        ELSE disk[<<f, "final">>]
             /\ disk'[<<f, "staging">>] = IF DirOf[f] = d THEN "none" ELSE disk[<<f, "staging">>]
             /\ DirOf[f] = d => disk[<<f, "staging">>] = "good"
  <2>1. <<f, "final">> \in Place /\ <<f, "staging">> \in Place BY FileHasIndex
  <2>2. f \in Members(d) <=> DirOf[f] = d BY DEF Members
  <2>3. DirOf[f] = d => disk[<<f, "staging">>] = "good"
    BY <1>0, <2>1, <2>2 DEF Complete, InstallInv, OnlyVerified, TypeOK
  <2> QED BY <2>1, <2>2, <2>3 DEF Promote
<1>2. disk' \in [Place -> {"none", "good", "bad"}] /\ partial' \in [Place -> Partial]
  <2>1. \A p \in Place : p[1] \in File /\ p[2] \in {"final", "staging"}
                          /\ <<p[1], "staging">> \in Place
    BY DEF Place
  <2> QED BY <1>0, <2>1 DEF Promote, TypeOK, Partial
<1>3. TypeOK' BY <1>0, <1>2 DEF Promote, TypeOK
<1>4. OnlyVerified'
  <2>1. \A p \in Place : <<p[1], "staging">> \in Place BY DEF Place
  <2> QED BY <1>0, <2>1 DEF Promote, InstallInv, OnlyVerified
<1>5. Homeless' /\ StagedHome' BY <1>0, <1>1 DEF InstallInv, Homeless, StagedHome
<1>6. Targeted' BY <1>0 DEF Targeted, InFlight
<1>7. Behind'
  <2> SUFFICES ASSUME NEW i \in 1 .. at - 1 PROVE Placed(Selected[i])'
    BY <1>0 DEF Behind
  <2>1. Selected[i] \in File
    BY <1>0, FileAt, ProvisioningAssumption DEF ProvisioningAssumption, TypeOK
  <2>2. Placed(Selected[i]) BY <1>0 DEF InstallInv, Behind
  <2> QED BY <1>0, <1>1, <2>1, <2>2 DEF Placed
<1> QED BY <1>1, <1>3, <1>4, <1>5, <1>6, <1>7 DEF InstallInv

\* Models are loaded only when each of their files is in its place.
LEMMA LoadComplete ==
  ASSUME InstallInv, Load
  PROVE  \A f \in File : disk[<<f, "final">>] = "good"
<1> SUFFICES ASSUME NEW f \in File PROVE disk[<<f, "final">>] = "good" OBVIOUS
<1>0. TypeOK /\ step = "scan" /\ at = Len(Selected) + 1 /\ Len(Selected) \in Nat
  BY ProvisioningAssumption DEF ProvisioningAssumption, InstallInv, TypeOK, Load, Scanned
<1>1. ASSUME NEW g \in File PROVE Placed(g)
  <2>1. PICK i \in 1 .. Len(Selected) : g = Selected[i] BY FileHasIndex
  <2>2. i \in 1 .. at - 1 BY <1>0
  <2> QED BY <1>0, <2>1, <2>2 DEF InstallInv, Behind
<1>2. disk[<<f, "final">>] # "none"
  <2> SUFFICES ASSUME disk[<<f, "final">>] = "none" PROVE FALSE OBVIOUS
  <2>1. DirOf[f] \notin finals \cup {NoDir} /\ DirOf[f] \in stagings
    BY <1>1 DEF Placed, InstallInv, StagedHome
  <2>2. \A g \in Members(DirOf[f]) : disk[<<g, "staging">>] # "none"
    BY <1>1, <2>1 DEF Members, Placed, InstallInv, Homeless
  <2>3. Complete(DirOf[f]) BY <2>2 DEF Complete
  <2> QED BY <2>1, <2>3 DEF Load
<1> QED BY <1>0, <1>2, FileHasIndex DEF InstallInv, OnlyVerified, TypeOK

\* Booting and loading change nothing on disk.
LEMMA BootLoadInstallInv == ASSUME InstallInv, Boot \/ Load PROVE InstallInv'
<1>1. TypeOK'
  BY ProvisioningAssumption
     DEF ProvisioningAssumption, InstallInv, TypeOK, Boot, Load, Scanned, store
<1> QED BY <1>1, NothingComplete DEF Boot, Load, store

\* Every step of ensure_files keeps InstallInv.
LEMMA EnsureFilesInstallInv == ASSUME InstallInv, EnsureFiles PROVE InstallInv'
BY SkipInstallInv, BeginFetchInstallInv, RemoveStagingInstallInv, PromoteInstallInv, BootLoadInstallInv DEF EnsureFiles

-----------------------------------------------------------------------------
(* What happens from outside, and the invariant. *)

\* A kill, a loss of power and an update leave what is complete alone.
LEMMA InterruptedInstallInv ==
  ASSUME InstallInv, Killed \/ PowerLost \/ (\E p \in Place, n \in 1 .. Size + 1 : Updated(p, n))
  PROVE  InstallInv'
<1>0. TypeOK /\ Size \in Nat /\ MaxMishaps \in Nat /\ Retries \in Nat /\ mishaps \in 0 .. MaxMishaps
  BY ProvisioningAssumption DEF ProvisioningAssumption, InstallInv, TypeOK
<1>1. Mishap => mishaps' \in 0 .. MaxMishaps BY <1>0 DEF Mishap
<1>2. CASE Killed
  <2>1. TypeOK' BY <1>0, <1>1, <1>2 DEF Killed, TypeOK, store
  <2> QED BY <1>2, <2>1, NothingComplete DEF Killed, store
<1>3. CASE PowerLost
  <2>1. current \in Place /\ Have \in Partial /\ Have.len > 0
    BY <1>0, <1>3, FlightType DEF PowerLost, InFlight
  <2>2. [Have EXCEPT !.good = FALSE] \in Partial
    <3>1. Have \in [len : 0 .. Size + 1, good : BOOLEAN]
      <4>1. Have # [len |-> -1, good |-> TRUE] BY <2>1
      <4> QED BY <2>1, <4>1 DEF Partial, Absent
    <3> QED BY <3>1 DEF Partial
  <2>3. partial' \in [Place -> Partial]
    <3>1. partial' = [partial EXCEPT ![current] = [Have EXCEPT !.good = FALSE]]
      BY <1>3 DEF PowerLost, Have
    <3> QED BY <1>0, <2>1, <2>2, <3>1 DEF TypeOK
  <2>4. TypeOK' BY <1>0, <1>1, <1>3, <2>3 DEF PowerLost, TypeOK
  <2> QED BY <1>3, <2>4, NothingComplete DEF PowerLost
<1>4. ASSUME NEW p \in Place, NEW n \in 1 .. Size + 1, Updated(p, n) PROVE InstallInv'
  <2>1. [len |-> n, good |-> FALSE] \in Partial BY <1>0 DEF Partial
  <2>2. partial' \in [Place -> Partial] BY <1>0, <1>4, <2>1 DEF Updated, TypeOK
  <2>3. TypeOK' BY <1>0, <1>1, <1>4, <2>2 DEF Updated, TypeOK
  <2> QED BY <1>4, <2>3, NothingComplete DEF Updated
<1> QED BY <1>2, <1>3, <1>4

\* The user only acts while no daemon runs: what has to be kept is the state of the disk.
LEMMA WhileDown ==
  ASSUME InstallInv, TypeOK', OnlyVerified', Homeless', StagedHome', step' = "down"
  PROVE  InstallInv'
BY DEF InstallInv, Targeted, Behind, InFlight

LEMMA UserInstallInv ==
  ASSUME InstallInv,
         \/ \E f \in File : UserDeletes(f)
         \/ \E d \in Dirs : UserDeletesDirectory(d) \/ UserRestoresDirectory(d)
  PROVE  InstallInv'
<1>0. TypeOK /\ (Mishap => mishaps' \in 0 .. MaxMishaps)
  BY ProvisioningAssumption DEF ProvisioningAssumption, InstallInv, TypeOK, Mishap
<1>1. ASSUME NEW f \in File, UserDeletes(f) PROVE InstallInv'
  <2>1. \A g \in File :
          /\ disk'[<<g, "final">>] = IF g = f THEN "none" ELSE disk[<<g, "final">>]
          /\ disk'[<<g, "staging">>] = disk[<<g, "staging">>]
    BY <1>0, <1>1, FileHasIndex DEF UserDeletes, TypeOK
  <2>2. TypeOK' BY <1>0, <1>1 DEF UserDeletes, TypeOK
  <2>3. OnlyVerified' BY <1>0, <1>1 DEF UserDeletes, InstallInv, OnlyVerified, TypeOK
  <2>4. Homeless' /\ StagedHome' BY <1>1, <2>1 DEF UserDeletes, InstallInv, Homeless, StagedHome
  <2> QED BY <1>1, <2>2, <2>3, <2>4, WhileDown DEF UserDeletes
<1>2. ASSUME NEW d \in Dirs, UserDeletesDirectory(d) PROVE InstallInv'
  <2>1. /\ disk' \in [Place -> {"none", "good", "bad"}]
        /\ \A f \in File : /\ disk'[<<f, "final">>] = IF DirOf[f] = d THEN "none"
                                                      ELSE disk[<<f, "final">>]
                           /\ disk'[<<f, "staging">>] = disk[<<f, "staging">>]
    <3>1. disk' = After(d, "final", "none") BY <1>2 DEF UserDeletesDirectory, After
    <3> QED BY <1>0, <3>1, Emptied
  <2>2. TypeOK' BY <1>0, <1>2, <2>1, EmptiedPartials DEF UserDeletesDirectory, TypeOK
  <2>3. OnlyVerified' BY <1>0, <1>2 DEF UserDeletesDirectory, InstallInv, OnlyVerified
  <2>4. Homeless' /\ StagedHome'
    BY <1>2, <2>1 DEF UserDeletesDirectory, InstallInv, Homeless, StagedHome
  <2> QED BY <1>2, <2>2, <2>3, <2>4, WhileDown DEF UserDeletesDirectory
<1>3. ASSUME NEW d \in Dirs, UserRestoresDirectory(d) PROVE InstallInv'
  <2>1. /\ disk' \in [Place -> {"none", "good", "bad"}]
        /\ \A f \in File : /\ disk'[<<f, "final">>] = IF DirOf[f] = d THEN "good"
                                                      ELSE disk[<<f, "final">>]
                           /\ disk'[<<f, "staging">>] = disk[<<f, "staging">>]
    <3>1. disk' = After(d, "final", "good") BY <1>3 DEF UserRestoresDirectory, After
    <3> QED BY <1>0, <3>1, Emptied
  <2>2. TypeOK' BY <1>0, <1>3, <2>1 DEF UserRestoresDirectory, TypeOK
  <2>3. OnlyVerified' BY <1>0, <1>3 DEF UserRestoresDirectory, InstallInv, OnlyVerified
  <2>4. Homeless' /\ StagedHome'
    BY <1>3, <2>1 DEF UserRestoresDirectory, InstallInv, Homeless, StagedHome
  <2> QED BY <1>3, <2>2, <2>3, <2>4, WhileDown DEF UserRestoresDirectory
<1> QED BY <1>1, <1>2, <1>3

LEMMA StutterInstallInv == ASSUME InstallInv, UNCHANGED vars PROVE InstallInv'
<1>1. current' = current BY DEF vars, store, current, Target
<1>2. TypeOK' BY <1>1 DEF InstallInv, TypeOK, vars, store, Have
<1>3. OnlyVerified' /\ Homeless' /\ StagedHome'
  BY DEF InstallInv, OnlyVerified, Homeless, StagedHome, vars, store
<1>4. Targeted' BY <1>1 DEF InstallInv, Targeted, InFlight, vars, store
<1>5. Behind' BY DEF InstallInv, Behind, Placed, vars, store
<1> QED BY <1>2, <1>3, <1>4, <1>5 DEF InstallInv

LEMMA SpecInstallInv == Spec => []InstallInv
<1>1. InstallInv /\ [Next]_vars => InstallInv'
  BY FetchInstallInv, EnsureFilesInstallInv, InterruptedInstallInv, UserInstallInv, StutterInstallInv DEF Next, Outside
<1> QED BY InitInstallInv, <1>1, PTL DEF Spec

\* A resumed, mirrored, interrupted or outdated download never gets under its
\* name unverified (fetch.rs verify_and_finalize).
THEOREM InstalledIsVerified == Spec => []OnlyVerified
<1>1. InstallInv => OnlyVerified BY DEF InstallInv
<1> QED BY SpecInstallInv, <1>1, PTL

-----------------------------------------------------------------------------
(* The refinement: each step maps to a step of ModelStore or to a stutter. *)

finalFiles == [f \in File |-> disk[<<f, "final">>]]
mapped     == <<finalFiles, finals, step = "ready">>

\* A step that changes neither names nor directories, and is not seen by the store.
LEMMA Unseen ==
  ASSUME \A f \in File : disk'[<<f, "final">>] = disk[<<f, "final">>],
         finals' = finals, step # "ready", step' # "ready"
  PROVE  UNCHANGED mapped
BY DEF mapped, finalFiles

LEMMA FetchStep == ASSUME InstallInv, Fetch PROVE Store!Next \/ UNCHANGED mapped
<1>0. step # "ready" /\ finals' = finals /\ InFlight /\ TypeOK
  BY DEF InstallInv, Fetch, AttemptVerifies, AttemptRequests, Resumed, Restarted, ResumedElsewhere,
     NotSatisfiable, Denied, Unanswered, Chunk, Overrun, BodyFails, BodyEnds, InFlight, store
<1>1. CASE disk' = disk /\ step' # "ready"
  BY <1>0, <1>1, Unseen
<1>2. CASE /\ AttemptVerifies \/ NotSatisfiable \/ BodyEnds
           /\ Verified(Have)
  <2>1. disk' = [disk EXCEPT ![current] = "good"] /\ step' = "scan"
    BY <1>0, <1>2 DEF AttemptVerifies, NotSatisfiable, BodyEnds, VerifyAndFinalize, Verified
  <2>2. /\ at \in 1 .. Len(Selected) /\ current \in Place /\ Selected[at] \in File
        /\ disk[current] = "none"
    BY <1>0, FlightType, FileAt DEF InstallInv, Targeted
  <2>3. CASE /\ current = <<Selected[at], "final">>
             /\ DirOf[Selected[at]] \in finals \cup {NoDir}
    <3>0. PICK g \in File : g = Selected[at] BY <2>2
    <3>1. ASSUME NEW f \in File
          PROVE  disk'[<<f, "final">>] = IF f = g THEN "good" ELSE disk[<<f, "final">>]
      BY <1>0, <2>1, <2>2, <2>3, <3>0, FileHasIndex DEF TypeOK
    <3>2. finalFiles' = [finalFiles EXCEPT ![g] = "good"] BY <3>1 DEF finalFiles
    <3>3. finalFiles[g] = "none" BY <2>2, <2>3, <3>0 DEF finalFiles
    <3>4. Store!Install(g)
      BY <1>0, <2>1, <2>3, <3>0, <3>2, <3>3 DEF Store!Install, finalFiles
    <3> QED BY <3>4 DEF Store!Next
  <2>4. CASE current = <<Selected[at], "staging">>
    <3>1. \A f \in File : disk'[<<f, "final">>] = disk[<<f, "final">>]
      BY <1>0, <2>1, <2>2, <2>4, FileHasIndex DEF TypeOK
    <3> QED BY <1>0, <2>1, <3>1, Unseen
  <2> QED BY <2>2, <2>3, <2>4, CurrentPlace
<1> QED
  <2>1. CASE AttemptVerifies \/ NotSatisfiable \/ BodyEnds
    BY <1>1, <1>2, <2>1 DEF AttemptVerifies, NotSatisfiable, BodyEnds, VerifyAndFinalize,
       Again, GiveUp
  <2>2. CASE ~(AttemptVerifies \/ NotSatisfiable \/ BodyEnds)
    BY <1>1, <2>2 DEF Fetch, AttemptRequests, Resumed, Restarted, ResumedElsewhere, Denied,
       Unanswered, Chunk, Overrun, BodyFails, Again, GiveUp, store
  <2> QED BY <2>1, <2>2

\* A directory's names after all of them were set to v.
LEMMA DirectoryMapped ==
  ASSUME NEW d \in Dirs, NEW v,
         \A f \in File : disk'[<<f, "final">>] = IF DirOf[f] = d THEN v ELSE disk[<<f, "final">>]
  PROVE  finalFiles' = [f \in File |-> IF f \in Store!Members(d) THEN v ELSE finalFiles[f]]
BY DEF finalFiles, Store!Members

LEMMA EnsureFilesStep == ASSUME InstallInv, EnsureFiles PROVE Store!Next \/ UNCHANGED mapped
<1>1. CASE Boot \/ Skip
  BY <1>1, Unseen DEF Boot, Skip, store
<1>2. CASE BeginFetch
  BY <1>2, BeginFetchInstallInv, Unseen DEF BeginFetch
<1>3. CASE Load
  <2>1. Store!Load BY <1>3, LoadComplete DEF Store!Load, Load, Scanned, store
  <2> QED BY <2>1 DEF Store!Next
<1>4. ASSUME NEW d \in Dirs, Promote(d) PROVE Store!Next
  <2>1. finalFiles' = [f \in File |-> IF f \in Store!Members(d) THEN "good" ELSE finalFiles[f]]
    BY <1>4, PromoteInstallInv, DirectoryMapped
  <2>2. Store!PutDirectory(d)
    BY <1>4, <2>1 DEF Store!PutDirectory, Promote, Scanned, finalFiles
  <2> QED BY <2>2 DEF Store!Next, Store!Dirs, Dirs
<1>5. ASSUME NEW d \in Dirs, RemoveStaging(d) PROVE UNCHANGED mapped
  BY <1>5, RemoveStagingInstallInv, Unseen DEF RemoveStaging, Scanned
<1> QED BY <1>1, <1>2, <1>3, <1>4, <1>5 DEF EnsureFiles

LEMMA OutsideStep == ASSUME InstallInv, Outside PROVE Store!Next \/ UNCHANGED mapped
<1>0. TypeOK BY DEF InstallInv
<1>1. CASE Killed
  <2>1. CASE step = "ready"
    BY <1>1, <2>1 DEF Store!Next, Store!Exit, Killed, store
  <2>2. CASE step # "ready"
    BY <1>1, <2>2, Unseen DEF Killed, store
  <2> QED BY <2>1, <2>2
<1>2. CASE PowerLost BY <1>2, Unseen DEF PowerLost
<1>3. ASSUME NEW p \in Place, NEW n \in 1 .. Size + 1, Updated(p, n) PROVE UNCHANGED mapped
  BY <1>3, Unseen DEF Updated
<1>4. ASSUME NEW f \in File, UserDeletes(f) PROVE Store!Next
  <2>1. \A g \in File :
          disk'[<<g, "final">>] = IF g = f THEN "none" ELSE disk[<<g, "final">>]
    BY <1>0, <1>4, FileHasIndex DEF UserDeletes, TypeOK
  <2>2. finalFiles' = [finalFiles EXCEPT ![f] = "none"] BY <2>1 DEF finalFiles
  <2>3. Store!Delete(f) BY <1>4, <2>2 DEF Store!Delete, UserDeletes, finalFiles
  <2> QED BY <2>3 DEF Store!Next
<1>5. ASSUME NEW d \in Dirs, UserDeletesDirectory(d) PROVE Store!Next
  <2>1. disk' = After(d, "final", "none") BY <1>5 DEF UserDeletesDirectory, After
  <2>2. finalFiles' = [f \in File |-> IF f \in Store!Members(d) THEN "none" ELSE finalFiles[f]]
    <3>1. \A f \in File : disk'[<<f, "final">>] = IF DirOf[f] = d THEN "none"
                                                  ELSE disk[<<f, "final">>]
      <4>1. \A f \in File, w \in {"final", "staging"} :
              After(d, "final", "none")[<<f, w>>] =
                IF DirOf[f] = d /\ w = "final" THEN "none" ELSE disk[<<f, w>>]
        BY <1>0, Emptied
      <4> QED BY <2>1, <4>1
    <3> QED BY <3>1, DirectoryMapped
  <2>3. Store!DeleteDirectory(d)
    BY <1>5, <2>2 DEF Store!DeleteDirectory, UserDeletesDirectory, finalFiles
  <2> QED BY <2>3 DEF Store!Next, Store!Dirs, Dirs
<1>6. ASSUME NEW d \in Dirs, UserRestoresDirectory(d) PROVE Store!Next
  <2>1. disk' = After(d, "final", "good") BY <1>6 DEF UserRestoresDirectory, After
  <2>2. finalFiles' = [f \in File |-> IF f \in Store!Members(d) THEN "good" ELSE finalFiles[f]]
    <3>1. \A f \in File : disk'[<<f, "final">>] = IF DirOf[f] = d THEN "good"
                                                  ELSE disk[<<f, "final">>]
      <4>1. \A f \in File, w \in {"final", "staging"} :
              After(d, "final", "good")[<<f, w>>] =
                IF DirOf[f] = d /\ w = "final" THEN "good" ELSE disk[<<f, w>>]
        BY <1>0, Emptied
      <4> QED BY <2>1, <4>1
    <3> QED BY <3>1, DirectoryMapped
  <2>3. Store!PutDirectory(d)
    BY <1>6, <2>2 DEF Store!PutDirectory, UserRestoresDirectory, finalFiles
  <2> QED BY <2>3 DEF Store!Next, Store!Dirs, Dirs
<1> QED BY <1>1, <1>2, <1>3, <1>4, <1>5, <1>6 DEF Outside

\* Provisioning implements ModelStore: a name changes by one verified file, a
\* directory appears whole, models are loaded only when every file is there.
THEOREM ProvisioningImplements == Spec => Implements
<1>1. Init => Store!Init
  BY FileHasIndex DEF Init, Store!Init
<1>2. InstallInv /\ [Next]_vars => [Store!Next]_mapped
  <2>1. ASSUME UNCHANGED vars PROVE UNCHANGED mapped
    BY <2>1 DEF vars, store, mapped, finalFiles
  <2> QED BY <2>1, FetchStep, EnsureFilesStep, OutsideStep DEF Next
<1> QED BY SpecInstallInv, <1>1, <1>2, PTL DEF Spec, Implements, Store!Spec, mapped, finalFiles

-----------------------------------------------------------------------------
(* The worker *)

\* Past the flush a session holds a second of speech and words; the decision to
\* polish left room for the whole polish.
PastFlush ==
  /\ session.stage # "closed" => session.speech = spoken
  /\ session.stage \in {"decoding", "text"} => session.speech >= MinSession /\ session.words > 0
  /\ session.stage = "text" => session.text \in Text
  /\ decode.prompt + decode.budget <= NCtx
  /\ decode.made <= decode.budget

IInv == ITypeOK /\ PastFlush /\ NothingInvented

LEMMA Constants ==
  /\ DefaultLanguage \in Languages
  /\ Texts \subseteq Seq(Word) /\ Clips \subseteq Nat /\ Overheads \subseteq Nat
  /\ NCtx \in Nat /\ Margin \in Nat /\ MaxChunks \in Nat
BY InferenceAssumption DEF InferenceAssumption

\* Collapsing leaves a number of words.
LEMMA WordsLeftType == \A text \in Texts : WordsLeft(text) \in Nat
<1> TAKE text \in Texts
<1> DEFINE S == {i \in DOMAIN text : Loops(Run(text, i)) => i = Run(text, i)[1]}
<1>1. text \in Seq(Word)
  BY Constants
<1>2. DOMAIN text = 1 .. Len(text) /\ Len(text) \in Nat
  BY <1>1
<1>3. IsFiniteSet(1 .. Len(text))
  BY <1>2, FS_Interval
<1>4. IsFiniteSet(S)
  BY <1>2, <1>3, FS_Subset
<1>5. Cardinality(S) \in Nat
  BY <1>4, FS_CardinalityType
<1> QED
  BY <1>5 DEF WordsLeft

LEMMA InitIInv == IInit => IInv
BY Constants
   DEF IInit, IInv, ITypeOK, PastFlush, NothingInvented, Closed, NoDecode,
       NoAnswer, Text

\* Whatever provisioning does, the worker goes on or is gone.
LEMMA SurvivesIInv ==
  ASSUME IInv, Survives
  PROVE  IInv'
<1>1. CASE UNCHANGED worker
  BY <1>1 DEF worker, IInv, ITypeOK, PastFlush, NothingInvented
<1>2. CASE session' = Closed /\ decode' = NoDecode /\ sent' = NoAnswer /\ spoken' = 0
  BY <1>2, Constants
     DEF IInv, ITypeOK, PastFlush, NothingInvented, Closed, NoDecode, NoAnswer,
         Text
<1> QED
  BY <1>1, <1>2 DEF Survives

LEMMA GatherIInv ==
  ASSUME IInv,
         \/ \E language \in Languages, quiet \in BOOLEAN : Start(language, quiet)
         \/ \E clip \in Clips, text \in Texts : TakeChunk(clip, text)
         \/ CancelSession
  PROVE  IInv'
<1> USE DEF IInv, ITypeOK, PastFlush, NothingInvented, Text
<1>1. ASSUME NEW language \in Languages, NEW quiet \in BOOLEAN, Start(language, quiet)
      PROVE  IInv'
  <2>1. session' = [stage |-> "open", language |-> language, quiet |-> quiet, chunks |-> 0,
                    words |-> 0, speech |-> 0, failed |-> FALSE, text |-> "none", kept |-> "no"]
    BY <1>1 DEF Start, StartCount, Closed
  <2>2. sent' = NoAnswer /\ spoken' = 0 /\ UNCHANGED decode
    BY <1>1 DEF Start
  <2> QED
    BY <2>1, <2>2, Constants DEF NoAnswer
<1>2. ASSUME NEW clip \in Clips, NEW text \in Texts, TakeChunk(clip, text)
      PROVE  IInv'
  <2>1. WordsLeft(text) \in Nat /\ clip \in Nat /\ MaxChunks \in Nat
    BY WordsLeftType, Constants
  <2>2. session.words \in Nat /\ session.failed \in BOOLEAN
    OBVIOUS
  <2>3. PICK failed \in BOOLEAN :
          session' = [session EXCEPT !.chunks = @ + 1, !.speech = @ + clip,
                                     !.words = IF failed THEN @ ELSE @ + WordsLeft(text),
                                     !.failed = @ \/ failed]
    BY <1>2 DEF TakeChunk
  <2> DEFINE words == IF failed THEN session.words ELSE session.words + WordsLeft(text)
             broken == session.failed \/ failed
  <2>4. words \in Nat /\ broken \in BOOLEAN
    BY <2>1, <2>2
  <2>5. session' = [session EXCEPT !.chunks = @ + 1, !.speech = @ + clip, !.words = words,
                                   !.failed = broken]
    BY <2>3
  <2>6. /\ session.stage = "open" /\ session.chunks < MaxChunks
        /\ spoken' = spoken + clip /\ UNCHANGED <<decode, sent>>
    BY <1>2 DEF TakeChunk
  <2> HIDE DEF words, broken
  <2>7. ITypeOK'
    <3>1. session.chunks + 1 \in 0 .. MaxChunks /\ session.speech + clip \in Nat
      BY <2>1, <2>6
    <3>2. spoken' \in Nat /\ UNCHANGED <<decode, sent>>
      BY <2>1, <2>6
    <3> DEFINE chunks == session.chunks + 1
               speech == session.speech + clip
    <3>3. session' = [session EXCEPT !.chunks = chunks, !.speech = speech, !.words = words,
                                     !.failed = broken]
      BY <2>5
    <3> HIDE DEF chunks, speech
    <3> QED
      BY <2>4, <3>1, <3>2, <3>3 DEF chunks, speech
  <2> QED
    BY <2>1, <2>5, <2>6, <2>7
<1>3. CASE CancelSession
  BY <1>3, Constants DEF CancelSession, Closed
<1> QED
  BY <1>1, <1>2, <1>3

\* Answering closes the session; with a text only when it is past its flush.
LEMMA AnswerIInv ==
  ASSUME IInv, NEW by \in {"error", "nothing"} \cup Text, Answer(by),
         by \in Text => spoken >= MinSession
  PROVE  IInv'
<1> USE DEF IInv, ITypeOK, PastFlush, Text
<1> DEFINE speech == IF session.failed THEN 0 ELSE session.speech
<1>1. speech \in Nat /\ 0 \in 0 .. MaxChunks
  BY Constants
<1>2. /\ session' = [stage |-> "closed", language |-> DefaultLanguage, quiet |-> FALSE,
                     chunks |-> 0, words |-> 0, speech |-> speech, failed |-> FALSE,
                     text |-> "none", kept |-> "no"]
      /\ sent' = [by |-> by, spoken |-> spoken]
      /\ decode' = [prompt |-> 0, budget |-> 0, made |-> 0] /\ spoken' = 0
  BY DEF Answer, Closed, NoDecode
<1> HIDE DEF speech
<1>3. ITypeOK' /\ PastFlush'
  BY <1>1, <1>2, Constants
<1> QED
  BY <1>2, <1>3 DEF NothingInvented

\* A text leaves the rest of the session as it is.
LEMMA BecomesIInv ==
  ASSUME IInv, NEW text \in Text, Becomes(text), UNCHANGED decode,
         session.stage # "closed", session.speech >= MinSession, session.words > 0
  PROVE  IInv'
BY DEF IInv, ITypeOK, PastFlush, NothingInvented, Text, Becomes

LEMMA PolishBeginsIInv ==
  ASSUME IInv, NEW overhead \in Overheads, PolishBegins(overhead)
  PROVE  IInv'
<1> DEFINE tokens == session.words
           prompt == tokens + overhead
<1>1. /\ tokens \in Nat /\ overhead \in Nat /\ Margin \in Nat /\ NCtx \in Nat
      /\ session.stage = "open" /\ session.speech >= MinSession /\ session.words > 0
  BY Constants DEF PolishBegins, ToPolish, IInv, ITypeOK
<1>2. CASE Becomes("raw") /\ UNCHANGED decode
  BY <1>1, <1>2, BecomesIInv DEF Text
<1>3. CASE /\ Fits(tokens, prompt)
           /\ decode' = [NoDecode EXCEPT !.prompt = prompt, !.budget = MaxNew(tokens)]
           /\ session' = [session EXCEPT !.stage = "decoding"]
           /\ UNCHANGED <<vars, models, sent, spoken, sessions>>
  <2>1. MaxNew(tokens) \in Nat
    BY <1>1 DEF MaxNew
  <2>2. prompt \in Nat /\ prompt + MaxNew(tokens) <= NCtx
    BY <1>1, <1>3 DEF Fits
  <2>3. decode' = [prompt |-> prompt, budget |-> MaxNew(tokens), made |-> 0]
    BY <1>3 DEF NoDecode
  <2> HIDE DEF tokens, prompt
  <2>4. ITypeOK'
    BY <1>3, <2>1, <2>2, <2>3 DEF IInv, ITypeOK
  <2>5. /\ session'.stage = "decoding" /\ session'.speech = session.speech
        /\ session'.words = session.words /\ spoken' = spoken /\ session.speech = spoken
    BY <1>1, <1>3 DEF IInv, ITypeOK, PastFlush
  <2>6. decode'.prompt + decode'.budget <= NCtx /\ decode'.made <= decode'.budget
    BY <2>1, <2>2, <2>3
  <2>7. PastFlush'
    BY <1>1, <2>5, <2>6 DEF PastFlush
  <2> QED
    BY <1>3, <2>4, <2>7 DEF IInv, NothingInvented
<1> QED
  BY <1>2, <1>3 DEF PolishBegins

LEMMA FlushIInv ==
  ASSUME IInv,
         \/ Flush \/ PolishSkipped
         \/ \E overhead \in Overheads : PolishBegins(overhead)
         \/ DecodeToken \/ DecodeEnds \/ DecodeRunsOut \/ DecodeFails \/ Record \/ Final
  PROVE  IInv'
<1>1. CASE Flush
  BY <1>1, AnswerIInv DEF Flush, Text
<1>2. CASE PolishSkipped
  BY <1>2, BecomesIInv DEF PolishSkipped, ToPolish, Text
<1>3. CASE \E overhead \in Overheads : PolishBegins(overhead)
  BY <1>3, PolishBeginsIInv
<1>4. CASE DecodeToken
  BY <1>4, Constants
     DEF DecodeToken, Decoding, IInv, ITypeOK, PastFlush, NothingInvented
<1>5. CASE DecodeEnds \/ DecodeRunsOut \/ DecodeFails
  <2>1. /\ session.stage # "closed" /\ session.speech >= MinSession /\ session.words > 0
        /\ \E text \in Text : Becomes(text) /\ UNCHANGED decode
    BY <1>5 DEF DecodeEnds, DecodeRunsOut, DecodeFails, Decoding, IInv, PastFlush, Text
  <2> QED
    BY <2>1, BecomesIInv
<1>6. CASE Record
  BY <1>6 DEF Record, IInv, ITypeOK, PastFlush, NothingInvented
<1>7. CASE Final
  <2>1. /\ session.stage = "text" /\ Answer(session.text)
        /\ session.speech = spoken /\ session.speech >= MinSession
    BY <1>7 DEF Final, WorthKeeping, IInv, ITypeOK, PastFlush
  <2>2. session.text \in {"error", "nothing"} \cup Text
    BY <2>1 DEF IInv, PastFlush
  <2> QED
    BY <2>1, <2>2, AnswerIInv
<1> QED
  BY <1>1, <1>2, <1>3, <1>4, <1>5, <1>6, <1>7

LEMMA NextIInv == IInv /\ [INext]_allVars => IInv'
<1> SUFFICES ASSUME IInv, [INext]_allVars PROVE IInv'
  OBVIOUS
<1>1. CASE Provide \/ (Outside /\ Survives /\ UNCHANGED sessions)
  BY <1>1, SurvivesIInv DEF Provide
<1>2. CASE LoadModels \/ LoadFails
  BY <1>2 DEF LoadModels, LoadFails, worker, IInv, ITypeOK, PastFlush, NothingInvented
<1>3. CASE \/ \E language \in Languages, quiet \in BOOLEAN : Start(language, quiet)
           \/ \E clip \in Clips, text \in Texts : TakeChunk(clip, text)
           \/ CancelSession
  BY <1>3, GatherIInv
<1>4. CASE \/ Flush \/ PolishSkipped
           \/ \E overhead \in Overheads : PolishBegins(overhead)
           \/ DecodeToken \/ DecodeEnds \/ DecodeRunsOut \/ DecodeFails \/ Record \/ Final
  BY <1>4, FlushIInv
<1>5. CASE UNCHANGED allVars
  BY <1>5 DEF allVars, worker, IInv, ITypeOK, PastFlush, NothingInvented
<1> QED
  BY <1>1, <1>2, <1>3, <1>4, <1>5 DEF INext, Work

LEMMA IInvAlways == ISpec => []IInv
BY InitIInv, NextIInv, PTL DEF ISpec

\* For every context, catalog, prompt and transcript: a polish that is begun
\* never needs more context than there is (llm.rs polish).
THEOREM PolishFitsItsContext == ISpec => []ContextHolds
<1>1. IInv => ContextHolds
  BY Constants DEF IInv, ITypeOK, PastFlush, ContextHolds
<1> QED
  BY <1>1, IInvAlways, PTL

\* However many sessions follow each other, and however they end: no text is
\* answered for less than a second of that session's own speech (inference.rs
\* MIN_SESSION_SAMPLES).
THEOREM TextNeedsSpeech == ISpec => []NothingInvented
<1>1. IInv => NothingInvented
  BY DEF IInv
<1> QED
  BY <1>1, IInvAlways, PTL
=============================================================================
