--------------------------- MODULE Archive_proofs ---------------------------
(***************************************************************************)
(* What becomes of recordings and history entries, for any number of       *)
(* dictations, crashes and removals, whatever Keep and Cap.                *)
(***************************************************************************)
EXTENDS Archive, FiniteSetTheorems, SequenceTheorems, TLAPS

\* A clip belongs to its dictation.
Linked(e) == e.clip \in {0, e.id}

\* The clips on disk were saved, and the one being saved is of the last dictation.
Saves ==
  /\ saver \in [step : {"none", "write", "list", "prune"}, n : 0 .. NumDictations,
                excess : SUBSET Dictation]
  /\ dictated \in 0 .. NumDictations
  /\ clips \subseteq saved /\ saved \subseteq 1 .. dictated
  /\ saver.step = "write" => saver.n = dictated /\ dictated # 0 /\ dictated \notin saved

\* What is about to be pruned is already too old.
Old(n)  == Cardinality({m \in saved : m > n}) >= Keep
Pruning == saver.step = "prune" => \A n \in saver.excess : Old(n)

\* The daemon is owed an entry of each dictation, linked to its own clip; so are
\* the lines of the file and the rows of the pane.
Lines(lines) == lines \in Seq(Entry) /\ \A i \in 1 .. Len(lines) : Linked(lines[i])

Entries ==
  /\ owed \subseteq [id : Dictation, clip : 0 .. NumDictations] /\ \A o \in owed : Linked(o)
  /\ Lines(history)
  /\ \A e \in rows : e \in Entry /\ Linked(e)

\* A rewrite under way: its lines keep everybody but the one it costs an entry,
\* save for those appended since.
Rewriting ==
  /\ doing \in [step : {"none", "clip", "read", "commit"}, target : Entry \cup {NoEntry},
                new : Entry \cup {NoEntry}, line : Entry \cup {NoEntry},
                lines : Seq(Entry), whole : BOOLEAN]
  /\ doing.step # "none" =>
       /\ doing.target \in Entry /\ Linked(doing.target)
       /\ doing.new = NoEntry \/ (doing.new \in Entry /\ Linked(doing.new)
                                  /\ doing.new.id = doing.target.id)
  /\ doing.step = "commit" =>
       /\ Lines(doing.lines)
       /\ \A n \in Ids(history) : n \in Ids(doing.lines) \cup raced \/ Costs(Rewrote, n)

\* A delete that found its clip on disk has removed it before it reads the file.
Removing ==
  /\ \A w \in rewrites : w.new = NoEntry /\ w.whole => w.row.clip \in saved
  /\ doing.step # "none" /\ doing.whole => doing.target.clip \in saved
  /\ doing.step \in {"read", "commit"} /\ doing.new = NoEntry /\ doing.whole =>
       doing.target.clip \notin clips

IInv == Saves /\ Pruning /\ Entries /\ Rewriting /\ Removing /\ NewestKept /\ DeletionIsExact

-----------------------------------------------------------------------------
\* The rows are lines of the file.
LEMMA RowsAreLines ==
  ASSUME NEW lines, Lines(lines)
  PROVE  \A e \in Loaded(lines) : e \in Entry /\ Linked(e)
<1>1. ASSUME NEW e \in Loaded(lines) PROVE \E i \in 1 .. Len(lines) : e = lines[i]
  BY DEF Loaded, RecentMatching
<1>2. \A i \in 1 .. Len(lines) : lines[i] \in Entry /\ Linked(lines[i]) BY DEF Lines
<1> QED BY <1>1, <1>2

\* Removing a line leaves every other one.
LEMMA RemovedLines ==
  ASSUME NEW lines, Lines(lines), NEW i \in 1 .. Len(lines)
  PROVE  /\ Lines(RemoveAt(lines, i))
         /\ \A k \in 1 .. Len(lines) :
              k = i \/ \E j \in 1 .. Len(RemoveAt(lines, i)) : RemoveAt(lines, i)[j] = lines[k]
         /\ \A n \in Ids(lines) : n \in Ids(RemoveAt(lines, i)) \/ n = lines[i].id
<1> DEFINE front == SubSeq(lines, 1, i - 1)
           back  == SubSeq(lines, i + 1, Len(lines))
           left  == RemoveAt(lines, i)
<1>0. lines \in Seq(Entry) BY DEF Lines
<1>1. front \in Seq(Entry) /\ Len(front) = i - 1 /\ \A k \in 1 .. i - 1 : front[k] = lines[k]
  BY <1>0
<1>2. /\ back \in Seq(Entry) /\ Len(back) = Len(lines) - i
      /\ \A k \in 1 .. Len(lines) - i : back[k] = lines[k + i]
  BY <1>0
<1>3. /\ left \in Seq(Entry) /\ Len(left) = Len(lines) - 1
      /\ \A k \in 1 .. i - 1 : left[k] = lines[k]
      /\ \A k \in i .. Len(lines) - 1 : left[k] = lines[k + 1]
  <2> HIDE DEF front, back
  <2>1. left = front \o back BY DEF RemoveAt, front, back
  <2>2. left \in Seq(Entry) /\ Len(left) = Len(front) + Len(back)
    BY <1>1, <1>2, <2>1, ConcatProperties
  <2>3. \A k \in 1 .. Len(left) :
          left[k] = IF k <= Len(front) THEN front[k] ELSE back[k - Len(front)]
    BY <1>1, <1>2, <2>1
  <2>4. Len(lines) \in Nat BY <1>0
  <2>5. Len(left) = Len(lines) - 1 BY <1>1, <1>2, <2>2, <2>4
  <2>6. ASSUME NEW k \in 1 .. i - 1 PROVE left[k] = lines[k]
    BY <1>1, <2>3, <2>4, <2>5
  <2>7. ASSUME NEW k \in i .. Len(lines) - 1 PROVE left[k] = lines[k + 1]
    <3>1. left[k] = back[k - (i - 1)] BY <1>1, <2>3, <2>4, <2>5
    <3>2. k - (i - 1) \in 1 .. Len(lines) - i BY <2>4
    <3>3. back[k - (i - 1)] = lines[k - (i - 1) + i] BY <1>2, <3>2
    <3> QED BY <2>4, <3>1, <3>3
  <2> QED BY <2>2, <2>5, <2>6, <2>7
<1> HIDE DEF front, back, left
<1>4. \A k \in 1 .. Len(left) : Linked(left[k]) BY <1>0, <1>3 DEF Lines
<1>5. ASSUME NEW k \in 1 .. Len(lines), k # i PROVE \E j \in 1 .. Len(left) : left[j] = lines[k]
  <2>1. CASE k < i BY <1>0, <1>3, <2>1
  <2>2. CASE k > i
    <3>1. k - 1 \in i .. Len(lines) - 1 BY <1>0, <2>2
    <3>2. left[k - 1] = lines[k] BY <1>0, <1>3, <3>1
    <3>3. k - 1 \in 1 .. Len(left) BY <1>0, <1>3, <3>1
    <3> QED BY <3>2, <3>3
  <2> QED BY <1>0, <1>5, <2>1, <2>2
<1>6. \A n \in Ids(lines) : n \in Ids(left) \/ n = lines[i].id BY <1>5 DEF Ids
<1> QED BY <1>3, <1>4, <1>5, <1>6 DEF Lines, left

\* Replacing a line leaves every other one.
LEMMA ReplacedLines ==
  ASSUME NEW lines, Lines(lines), NEW i \in 1 .. Len(lines), NEW new \in Entry, Linked(new)
  PROVE  /\ Lines(ReplaceAt(lines, i, new))
         /\ Len(ReplaceAt(lines, i, new)) = Len(lines)
         /\ \A k \in 1 .. Len(lines) : ReplaceAt(lines, i, new)[k] = IF k = i THEN new ELSE lines[k]
         /\ \A n \in Ids(lines) :
              n \in Ids(ReplaceAt(lines, i, new)) \/ (n = lines[i].id /\ n # new.id)
<1>0. lines \in Seq(Entry) BY DEF Lines
<1>1. /\ ReplaceAt(lines, i, new) \in Seq(Entry)
      /\ Len(ReplaceAt(lines, i, new)) = Len(lines)
      /\ \A k \in 1 .. Len(lines) : ReplaceAt(lines, i, new)[k] = IF k = i THEN new ELSE lines[k]
  BY <1>0 DEF ReplaceAt
<1> QED BY <1>0, <1>1 DEF Lines, Ids

\* More saved clips can only make a clip older.
LEMMA OldStaysOld ==
  ASSUME Saves, Saves', saved \subseteq saved', NEW n, Old(n)
  PROVE  Old(n)'
<1> DEFINE before == {m \in saved : m > n}
           after  == {m \in saved' : m > n}
<1>1. IsFiniteSet(after)
  <2>1. IsFiniteSet(1 .. dictated') BY FS_Interval DEF Saves
  <2> QED BY <2>1, FS_Subset DEF Saves
<1>2. before \subseteq after OBVIOUS
<1>3. Cardinality(before) <= Cardinality(after) BY <1>1, <1>2, FS_Subset
<1>4. Cardinality(before) \in Nat /\ Cardinality(after) \in Nat
  BY <1>1, <1>2, FS_Subset, FS_CardinalityType
<1> QED BY <1>3, <1>4, ArchiveAssumption DEF Old, ArchiveAssumption

-----------------------------------------------------------------------------
\* What a step that leaves a part of the state alone cannot disturb.
LEMMA Undisturbed ==
  ASSUME IInv
  PROVE  /\ UNCHANGED <<dictated, saver, clips, saved, removed>> => Saves' /\ Pruning' /\ NewestKept'
         /\ UNCHANGED <<owed, history, rows>> => Entries'
         /\ UNCHANGED <<doing, history, raced>> => Rewriting'
         /\ UNCHANGED <<rewrites, saved, doing, clips>> => Removing' /\ DeletedIsGone'
         /\ UNCHANGED <<recorded, history, rewrites, raced>> => OnlyTheDeletedGo'
<1>1. UNCHANGED <<dictated, saver, clips, saved, removed>> => Saves' /\ Pruning' /\ NewestKept'
  BY DEF IInv, Saves, Pruning, Old, NewestKept
<1>2. UNCHANGED <<owed, history, rows>> => Entries' BY DEF IInv, Entries, Lines
<1>3. UNCHANGED <<doing, history, raced>> => Rewriting' BY DEF IInv, Rewriting, Lines, Ids, Rewrote
<1>4. UNCHANGED <<rewrites, saved, doing, clips>> => Removing' /\ DeletedIsGone'
  BY DEF IInv, Removing, DeletionIsExact, DeletedIsGone
<1>5. UNCHANGED <<recorded, history, rewrites, raced>> => OnlyTheDeletedGo'
  BY DEF IInv, DeletionIsExact, OnlyTheDeletedGo, Ids
<1> QED BY <1>1, <1>2, <1>3, <1>4, <1>5

\* Clips that somebody removes, on purpose, are accounted for.
LEMMA ClipsRemoved ==
  ASSUME IInv, NEW clip, clips' = clips \ {clip}, removed' = removed \cup {clip},
         UNCHANGED <<dictated, saver, saved>>
  PROVE  Saves' /\ Pruning' /\ NewestKept'
BY DEF IInv, Saves, Pruning, Old, NewestKept

LEMMA InitIInv == Init => IInv
<1> SUFFICES ASSUME Init PROVE IInv
  OBVIOUS
<1> USE DEF Init
<1>1. Saves /\ Pruning BY ArchiveAssumption DEF Saves, Pruning, Unsaved, ArchiveAssumption
<1>2. Entries BY DEF Entries, Lines
<1>3. Rewriting BY DEF Rewriting, Resting
<1>4. Removing /\ NewestKept /\ DeletionIsExact
  BY DEF Removing, Resting, NewestKept, DeletionIsExact, OnlyTheDeletedGo, DeletedIsGone
<1> QED BY <1>1, <1>2, <1>3, <1>4 DEF IInv

-----------------------------------------------------------------------------
(* The control thread *)

LEMMA ReleaseIInv ==
  ASSUME IInv, NEW retain \in BOOLEAN, NEW captured \in BOOLEAN, Release(retain, captured)
  PROVE  IInv'
<1>0. /\ UNCHANGED <<clips, history, rows, doing, saved, removed, recorded, rewrites, raced>>
      /\ dictated < NumDictations /\ dictated' = dictated + 1
  BY DEF Release, files, window, ghosts
<1>1. dictated \in Nat /\ dictated' \in 1 .. NumDictations
  BY <1>0, ArchiveAssumption DEF IInv, Saves, ArchiveAssumption
<1>2. Saves'
  <2>1. saver' = saver \/ saver' = [step |-> "write", n |-> dictated + 1, excess |-> {}]
    BY DEF Release, Unsaved
  <2>2. saver.step = "none" BY DEF Release
  <2>3. dictated + 1 \in 0 .. NumDictations /\ dictated + 1 # 0 /\ dictated + 1 \notin saved
    BY <1>0, <1>1 DEF IInv, Saves
  <2>4. saver' \in [step : {"none", "write", "list", "prune"}, n : 0 .. NumDictations,
                    excess : SUBSET Dictation]
    BY <2>1, <2>3 DEF IInv, Saves
  <2>5. saved \subseteq 1 .. dictated' BY <1>0, <1>1 DEF IInv, Saves
  <2>6. saver'.step = "write" => saver'.n = dictated + 1 BY <2>1, <2>2
  <2> QED BY <1>0, <1>1, <2>3, <2>4, <2>5, <2>6 DEF IInv, Saves
<1>3. Pruning' BY <1>0 DEF IInv, Saves, Pruning, Old, Release, Unsaved
<1>4. NewestKept' BY <1>0 DEF IInv, NewestKept
<1>5. Entries'
  <2>1. owed' = owed \cup {[id |-> dictated + 1, clip |-> NewName(retain, dictated + 1)]}
    BY DEF Release
  <2>2. NewName(retain, dictated + 1) \in {0, dictated + 1} BY DEF NewName
  <2> DEFINE new == [id |-> dictated + 1, clip |-> NewName(retain, dictated + 1)]
  <2>3. new \in [id : Dictation, clip : 0 .. NumDictations]
    BY <1>0, <1>1, <2>2, ArchiveAssumption DEF Dictation, ArchiveAssumption
  <2>4. Linked(new) BY <2>2 DEF Linked
  <2>5. owed' = owed \cup {new} BY <2>1
  <2> HIDE DEF new
  <2>6. owed' \subseteq [id : Dictation, clip : 0 .. NumDictations] /\ \A o \in owed' : Linked(o)
    BY <2>3, <2>4, <2>5 DEF IInv, Entries
  <2> QED BY <1>0, <2>6 DEF IInv, Entries, Lines
<1> QED BY <1>0, <1>2, <1>3, <1>4, <1>5, Undisturbed DEF IInv, DeletionIsExact

LEMMA SaveClipIInv == ASSUME IInv, SaveClip PROVE IInv'
<1>0. /\ UNCHANGED <<dictated, owed, history, rows, doing, removed, recorded, rewrites, raced>>
      /\ saver.step = "write" /\ saver' = [saver EXCEPT !.step = "list"]
      /\ clips' = clips \cup {saver.n} /\ saved' = saved \cup {saver.n}
  BY DEF SaveClip, window
<1>1. saver.n \notin saved /\ saver.n = dictated /\ saver.n \in 1 .. dictated
  BY <1>0 DEF IInv, Saves
<1>2. Saves' BY <1>0, <1>1 DEF IInv, Saves
<1>3. Pruning' BY <1>0 DEF IInv, Saves, Pruning
<1>4. NewestKept'
  <2>1. \A n \in saved' \ (clips' \cup removed') : n \in saved \ (clips \cup removed) BY <1>0
  <2>2. \A n \in saved \ (clips \cup removed) : Old(n) BY DEF IInv, NewestKept, Old
  <2>3. \A n : Old(n) => Old(n)' BY <1>0, <1>2, OldStaysOld DEF IInv
  <2> QED BY <2>1, <2>2, <2>3 DEF NewestKept, Old
<1>5. Removing' /\ DeletedIsGone'
  BY <1>0, <1>1 DEF IInv, Removing, DeletionIsExact, DeletedIsGone
<1> QED BY <1>0, <1>2, <1>3, <1>4, <1>5, Undisturbed DEF IInv, DeletionIsExact

LEMMA ListClipsIInv == ASSUME IInv, ListClips PROVE IInv'
<1>0. /\ UNCHANGED <<dictated, owed, files, window, doing, ghosts>> /\ saver.step = "list"
      /\ saver' = [saver EXCEPT !.step = "prune", !.excess = Excess(clips)]
  BY DEF ListClips
<1>1. Saves'
  <2>1. Excess(clips) \subseteq clips BY DEF Excess
  <2>2. clips \subseteq Dictation
    BY ArchiveAssumption DEF IInv, Saves, Dictation, ArchiveAssumption
  <2>3. saver' \in [step : {"none", "write", "list", "prune"}, n : 0 .. NumDictations,
                    excess : SUBSET Dictation]
    BY <1>0, <2>1, <2>2 DEF IInv, Saves
  <2>4. saver'.step = "prune" BY <1>0 DEF IInv, Saves
  <2> QED BY <1>0, <2>3, <2>4 DEF IInv, Saves, files, ghosts
<1>2. Pruning'
  <2>1. ASSUME NEW n \in Excess(clips) PROVE Old(n)
    <3> DEFINE listed == {m \in clips : m > n}
               older  == {m \in saved : m > n}
    <3>1. IsFiniteSet(older)
      <4>1. IsFiniteSet(1 .. dictated) BY FS_Interval DEF IInv, Saves
      <4> QED BY <4>1, FS_Subset DEF IInv, Saves
    <3>2. listed \subseteq older BY DEF IInv, Saves
    <3>3. Cardinality(listed) <= Cardinality(older) BY <3>1, <3>2, FS_Subset
    <3>4. Cardinality(listed) \in Nat /\ Cardinality(older) \in Nat
      BY <3>1, <3>2, FS_Subset, FS_CardinalityType
    <3>5. Cardinality(listed) >= Keep BY DEF Excess
    <3> QED BY <3>3, <3>4, <3>5, ArchiveAssumption DEF Old, ArchiveAssumption
  <2>2. saver'.excess = Excess(clips) BY <1>0 DEF IInv, Saves
  <2> QED BY <1>0, <2>1, <2>2 DEF Pruning, Old, ghosts
<1>3. NewestKept' BY <1>0 DEF IInv, NewestKept, files, ghosts
<1> QED BY <1>0, <1>1, <1>2, <1>3, Undisturbed DEF IInv, DeletionIsExact, files, window, ghosts

LEMMA PruneIInv ==
  ASSUME IInv, NEW failed \in SUBSET saver.excess, Prune(failed)
  PROVE  IInv'
<1>0. /\ UNCHANGED <<dictated, owed, history, window, doing, ghosts>> /\ saver.step = "prune"
      /\ clips' = clips \ (saver.excess \ failed) /\ saver' = Unsaved
  BY DEF Prune
<1>1. Saves' /\ Pruning'
  <2>1. saver' = [step |-> "none", n |-> 0, excess |-> {}] BY <1>0 DEF Unsaved
  <2>2. saver' \in [step : {"none", "write", "list", "prune"}, n : 0 .. NumDictations,
                    excess : SUBSET Dictation]
    BY <2>1, ArchiveAssumption DEF ArchiveAssumption
  <2>3. saver'.step = "none" BY <2>1
  <2> QED BY <1>0, <2>2, <2>3 DEF IInv, Saves, Pruning, ghosts
<1>2. NewestKept'
  <2>1. \A n \in saver.excess : Old(n) BY <1>0 DEF IInv, Pruning
  <2>2. \A n \in saved \ (clips \cup removed) : Old(n) BY DEF IInv, NewestKept, Old
  <2> QED BY <1>0, <2>1, <2>2 DEF NewestKept, Old, ghosts
<1>3. Removing' /\ DeletedIsGone'
  BY <1>0 DEF IInv, Removing, DeletionIsExact, DeletedIsGone, ghosts
<1> QED BY <1>0, <1>1, <1>2, <1>3, Undisturbed DEF IInv, DeletionIsExact, window, ghosts

LEMMA SaveFailsIInv == ASSUME IInv, SaveFails PROVE IInv'
<1>0. UNCHANGED <<dictated, owed, files, window, doing, ghosts>> /\ saver' = Unsaved
  BY DEF SaveFails
<1>1. Saves' /\ Pruning' /\ NewestKept'
  BY <1>0, ArchiveAssumption
     DEF IInv, Saves, Pruning, NewestKept, Unsaved, files, ghosts, ArchiveAssumption
<1> QED BY <1>0, <1>1, Undisturbed DEF IInv, DeletionIsExact, files, window, ghosts

-----------------------------------------------------------------------------
(* The daemon *)

LEMMA AppendIInv ==
  ASSUME IInv, NEW o, NEW text \in {"said", "empty"}, NEW at \in Second,
         Append_(o, text, at)
  PROVE  IInv'
<1> DEFINE new == NewEntry(o, text, at)
<1>0. /\ UNCHANGED <<client, clips, window, doing, saved, removed, rewrites>>
      /\ o \in owed /\ owed' = owed \ {o} /\ history' = Append(history, new)
      /\ recorded' = recorded \cup {o.id}
      /\ raced' = IF doing.step = "commit" THEN raced \cup {o.id} ELSE raced
  BY DEF Append_
<1>1. new \in Entry /\ Linked(new) /\ new.id = o.id
  BY <1>0 DEF IInv, Entries, Entry, NewEntry, Linked
<1> HIDE DEF new
<1>2. history \in Seq(Entry) BY DEF IInv, Entries, Lines
<1>3. /\ history' \in Seq(Entry) /\ Len(history') = Len(history) + 1
      /\ \A i \in 1 .. Len(history) : history'[i] = history[i]
      /\ history'[Len(history) + 1] = new
  BY <1>0, <1>1, <1>2
<1>4. Ids(history') = Ids(history) \cup {o.id}
  <2>1. \A n \in Ids(history') : n \in Ids(history) \cup {o.id} BY <1>1, <1>2, <1>3 DEF Ids
  <2>2. \A n \in Ids(history) : n \in Ids(history') BY <1>2, <1>3 DEF Ids
  <2>3. o.id \in Ids(history')
    <3>1. Len(history) + 1 \in 1 .. Len(history') BY <1>2, <1>3
    <3> QED BY <1>1, <1>3, <3>1 DEF Ids
  <2> QED BY <2>1, <2>2, <2>3
<1>5. Lines(history') BY <1>1, <1>2, <1>3 DEF IInv, Entries, Lines
<1>6. Entries' BY <1>0, <1>5 DEF IInv, Entries, window, Lines
<1>7. Rewriting'
  <2>1. \A n \in Ids(history') :
          doing.step = "commit" =>
            n \in Ids(doing.lines) \cup raced' \/ Costs(Rewrote, n)
    BY <1>0, <1>4 DEF IInv, Rewriting
  <2> QED BY <1>0, <2>1 DEF IInv, Rewriting, Lines, Ids, Rewrote
<1>8. OnlyTheDeletedGo'
  <2>1. raced \subseteq raced' BY <1>0
  <2> DEFINE cost == {n \in Dictation : \E w \in rewrites : Costs(w, n)}
  <2>2. cost' = cost BY <1>0
  <2>3. recorded \subseteq Ids(history) \cup raced \cup cost
    BY DEF IInv, DeletionIsExact, OnlyTheDeletedGo
  <2> HIDE DEF cost
  <2>4. recorded' \subseteq Ids(history') \cup raced' \cup cost' BY <1>0, <1>4, <2>1, <2>2, <2>3
  <2> QED BY <2>4 DEF OnlyTheDeletedGo, Ids, cost
<1> QED BY <1>0, <1>6, <1>7, <1>8, Undisturbed DEF IInv, DeletionIsExact, client

LEMMA RecordsNothingIInv == ASSUME IInv, NEW o, RecordsNothing(o) PROVE IInv'
<1>0. UNCHANGED <<client, files, window, doing, ghosts>> /\ owed' \subseteq owed
  BY DEF RecordsNothing
<1>1. Entries' BY <1>0 DEF IInv, Entries, files, window, Lines
<1> QED BY <1>0, <1>1, Undisturbed DEF IInv, DeletionIsExact, client, files, window, ghosts

-----------------------------------------------------------------------------
(* The History pane *)

\* A step of the pane that changes neither the files nor what is under way.
LEMMA PaneIInv ==
  ASSUME IInv, UNCHANGED <<client, owed, files, doing, ghosts>>,
         rows' \subseteq rows \/ rows' = Loaded(history)
  PROVE  IInv'
<1>1. \A e \in rows' : e \in Entry /\ Linked(e) BY RowsAreLines DEF IInv, Entries
<1>2. Entries' BY <1>1 DEF IInv, Entries, files, Lines
<1> QED BY <1>2, Undisturbed DEF IInv, DeletionIsExact, client, files, ghosts

\* A rewrite begins, of a row the pane shows.
LEMMA RewriteBegins ==
  ASSUME IInv, NEW e \in rows, NEW new, NEW step \in {"clip", "read"},
         UNCHANGED <<client, owed, files, rows, ghosts>>,
         doing' = [Rewrite(e, new) EXCEPT !.step = step],
         new = NoEntry \/ (new \in Entry /\ Linked(new) /\ new.id = e.id),
         new = NoEntry /\ step = "read" => e.clip = 0
  PROVE  IInv'
<1>1. e \in Entry /\ Linked(e) BY DEF IInv, Entries
<1>2. doing' = [step |-> step, target |-> e, new |-> new, line |-> NoEntry,
             lines |-> <<>>, whole |-> e.clip \in saved]
  BY DEF Rewrite, Resting
<1> DEFINE whole == e.clip \in saved
<1>3. PICK w \in BOOLEAN : (w <=> whole) /\ w = whole
  <2>1. CASE whole
    <3>1. whole = TRUE BY <2>1
    <3> QED BY <3>1
  <2>2. CASE ~whole
    <3>1. whole = FALSE BY <2>2
    <3> QED BY <3>1
  <2> QED BY <2>1, <2>2
<1>4. doing' = [step |-> step, target |-> e, new |-> new, line |-> NoEntry,
             lines |-> <<>>, whole |-> w]
  BY <1>2, <1>3, Zenon
<1>5. Rewriting'
  <2>1. <<>> \in Seq(Entry) OBVIOUS
  <2>2. doing' \in [step : {"none", "clip", "read", "commit"}, target : Entry \cup {NoEntry},
                    new : Entry \cup {NoEntry}, line : Entry \cup {NoEntry},
                   lines : Seq(Entry), whole : BOOLEAN]
    <3>1. e \in Entry \cup {NoEntry} /\ new \in Entry \cup {NoEntry} /\ w \in BOOLEAN BY <1>1
    <3> HIDE DEF whole
    <3>2. step \in {"none", "clip", "read", "commit"} OBVIOUS
    <3> QED BY ONLY <1>4, <2>1, <3>1, <3>2, Zenon
  <2>3. doing'.step = step /\ doing'.target = e /\ doing'.new = new BY <1>4
  <2> QED BY <1>1, <2>2, <2>3 DEF Rewriting
<1>6. Removing'
  <2>1. doing'.step = step /\ doing'.target = e /\ doing'.new = new BY <1>4
  <2>2. doing'.whole => e.clip \in saved BY <1>3, <1>4
  <2>3. 0 \notin saved BY ArchiveAssumption DEF IInv, Saves, ArchiveAssumption
  <2>4. UNCHANGED <<rewrites, saved, clips>> BY DEF ghosts, files
  <2> QED BY <2>1, <2>2, <2>3, <2>4 DEF IInv, Removing
<1>7. DeletedIsGone' BY DEF IInv, DeletionIsExact, DeletedIsGone, files, ghosts
<1> QED BY <1>5, <1>6, <1>7, Undisturbed DEF IInv, DeletionIsExact, client, files, ghosts

LEMMA AcceptRerunIInv == ASSUME IInv, NEW e \in rows, AcceptRerun(e) PROVE IInv'
<1> DEFINE new == [e EXCEPT !.text = "again"]
<1>1. e \in Entry /\ Linked(e) BY DEF IInv, Entries
<1>2. new \in Entry /\ Linked(new) /\ new.id = e.id BY <1>1 DEF Entry, Linked
<1>3. new # NoEntry
  <2>1. new.text = "again" /\ NoEntry.text = "none" BY <1>1 DEF Entry, NoEntry
  <2> QED BY <2>1
<1>4. doing' = [Rewrite(e, new) EXCEPT !.step = "read"] BY DEF AcceptRerun, Rewrite, Resting
<1>5. UNCHANGED <<client, owed, files, rows, ghosts>> BY DEF AcceptRerun
<1> HIDE DEF new
<1> QED BY <1>2, <1>3, <1>4, <1>5, RewriteBegins

LEMMA DeleteEntryIInv == ASSUME IInv, NEW e \in rows, DeleteEntry(e) PROVE IInv'
<1>1. PICK step \in {"clip", "read"} :
        /\ doing' = [Rewrite(e, NoEntry) EXCEPT !.step = step]
        /\ step = "read" => e.clip = 0
  BY DEF DeleteEntry
<1>2. UNCHANGED <<client, owed, files, rows, ghosts>> BY DEF DeleteEntry
<1> QED BY <1>1, <1>2, RewriteBegins

\* The rewrite is over, with nothing done or nothing left to do.
LEMMA RestingIInv ==
  ASSUME IInv, doing' = Resting, UNCHANGED <<history, rewrites, saved, clips>>
  PROVE  Rewriting' /\ Removing' /\ DeletedIsGone'
<1>1. Resting \in [step : {"none", "clip", "read", "commit"}, target : Entry \cup {NoEntry},
                   new : Entry \cup {NoEntry}, line : Entry \cup {NoEntry},
                   lines : Seq(Entry), whole : BOOLEAN]
  BY DEF Resting
<1>2. Resting.step = "none" BY DEF Resting
<1>3. Rewriting' BY <1>1, <1>2 DEF Rewriting
<1>4. Removing' BY <1>2 DEF IInv, Removing
<1>5. DeletedIsGone' BY DEF IInv, DeletionIsExact, DeletedIsGone
<1> QED BY <1>3, <1>4, <1>5

LEMMA DeleteClipIInv == ASSUME IInv, DeleteClip PROVE IInv'
<1>0. /\ UNCHANGED <<client, owed, history, window, saved, recorded, rewrites, raced>>
      /\ doing.step = "clip" /\ doing' = [doing EXCEPT !.step = "read"]
      /\ clips' = clips \ {doing.target.clip} /\ removed' = removed \cup {doing.target.clip}
  BY DEF DeleteClip, client
<1>1. Saves' /\ Pruning' /\ NewestKept' BY <1>0, ClipsRemoved DEF client
<1>2. Rewriting' BY <1>0 DEF IInv, Rewriting
<1>3. Removing'
  <2>1. /\ doing'.step = "read" /\ doing'.target = doing.target /\ doing'.whole = doing.whole
    BY <1>0 DEF IInv, Rewriting
  <2> QED BY <1>0, <2>1 DEF IInv, Removing
<1>4. DeletedIsGone' BY <1>0 DEF IInv, DeletionIsExact, DeletedIsGone
<1> QED BY <1>0, <1>1, <1>2, <1>3, <1>4, Undisturbed DEF IInv, DeletionIsExact, window

LEMMA DeleteClipFailsIInv == ASSUME IInv, DeleteClipFails PROVE IInv'
<1>0. UNCHANGED <<client, owed, files, window, ghosts>> /\ doing' = Resting
  BY DEF DeleteClipFails
<1> QED BY <1>0, RestingIInv, Undisturbed DEF IInv, DeletionIsExact, client, files, window, ghosts

LEMMA ReadHistoryIInv == ASSUME IInv, ReadHistory PROVE IInv'
<1>0. UNCHANGED <<client, owed, files, ghosts>> /\ doing.step = "read" BY DEF ReadHistory
<1>1. CASE /\ doing' = Resting
           /\ rows' = IF doing.new = NoEntry THEN Loaded(history) ELSE rows
  <2>1. \A e \in rows' : e \in Entry /\ Linked(e) BY <1>1, RowsAreLines DEF IInv, Entries
  <2>2. Entries' BY <1>0, <2>1 DEF IInv, Entries, files, Lines
  <2> QED BY <1>0, <1>1, <2>2, RestingIInv, Undisturbed
          DEF IInv, DeletionIsExact, client, files, ghosts
<1>2. CASE /\ \E i \in 1 .. Len(history) :
                /\ Position(history, doing.target, i)
                /\ doing' = [doing EXCEPT !.step = "commit", !.line = history[i],
                                          !.lines = Rewritten(history, i, doing.new)]
           /\ UNCHANGED rows
  <2>1. PICK i \in 1 .. Len(history) :
          /\ Matches(history[i], doing.target)
          /\ doing' = [doing EXCEPT !.step = "commit", !.line = history[i],
                                    !.lines = Rewritten(history, i, doing.new)]
    BY <1>2 DEF Position
  <2> DEFINE lines == Rewritten(history, i, doing.new)
             line  == history[i]
  <2>2. Lines(history) /\ line \in Entry BY DEF IInv, Entries, Lines
  <2>3. line.at = doing.target.at /\ line.text = doing.target.text BY <2>1 DEF Matches
  <2>4. /\ Lines(lines)
        /\ \A n \in Ids(history) :
              \/ n \in Ids(lines)
              \/ n = line.id /\ (doing.new = NoEntry \/ n # doing.target.id)
    <3>1. CASE doing.new = NoEntry BY <2>2, <3>1, RemovedLines DEF Rewritten
    <3>2. CASE doing.new # NoEntry
      <4>1. doing.new \in Entry /\ Linked(doing.new) /\ doing.new.id = doing.target.id
        BY <1>0, <3>2 DEF IInv, Rewriting
      <4> QED BY <2>2, <3>2, <4>1, ReplacedLines DEF Rewritten
    <3> QED BY <3>1, <3>2
  <2> HIDE DEF lines, line
  <2>5. doing' = [doing EXCEPT !.step = "commit", !.line = line, !.lines = lines]
    BY <2>1 DEF lines, line
  <2>6. /\ doing'.step = "commit" /\ doing'.lines = lines /\ doing'.target = doing.target
        /\ doing'.new = doing.new /\ doing'.whole = doing.whole /\ doing'.line = line
    BY <2>5 DEF IInv, Rewriting
  <2>7. doing' \in [step : {"none", "clip", "read", "commit"}, target : Entry \cup {NoEntry},
                    new : Entry \cup {NoEntry}, line : Entry \cup {NoEntry},
                    lines : Seq(Entry), whole : BOOLEAN]
    BY <2>2, <2>4, <2>5 DEF IInv, Rewriting, Lines
  <2>8. Rewriting'
    <3>1. doing.target \in Entry /\ Linked(doing.target) /\ (doing.new = NoEntry
            \/ (doing.new \in Entry /\ Linked(doing.new) /\ doing.new.id = doing.target.id))
      BY <1>0 DEF IInv, Rewriting
    <3>2. Ids(history)' = Ids(history) BY <1>0 DEF Ids, files
    <3>3. Lines(doing.lines)' /\ Ids(doing.lines)' = Ids(lines) BY <2>4, <2>6 DEF Lines, Ids
    <3>4. Rewrote' = [row |-> doing.target, line |-> line, new |-> doing.new, whole |-> doing.whole]
      BY <2>6 DEF Rewrote
    <3>5. ASSUME NEW n \in Ids(history) PROVE n \in Ids(lines) \/ Costs(Rewrote', n)
      <4>1. CASE n \in Ids(lines) BY <4>1
      <4>2. CASE n = line.id /\ (doing.new = NoEntry \/ n # doing.target.id)
        BY <2>3, <3>4, <4>2 DEF Costs, Alike
      <4> QED BY <2>4, <4>1, <4>2
    <3>6. \A n \in Ids(history)' : (n \in Ids(doing.lines) \cup raced \/ Costs(Rewrote, n))'
      BY <3>2, <3>3, <3>5 DEF Costs, Alike
    <3> QED BY <2>6, <2>7, <3>1, <3>3, <3>6 DEF Rewriting
  <2>9. Removing' BY <1>0, <2>6 DEF IInv, Removing, files, ghosts
  <2>10. DeletedIsGone' BY <1>0 DEF IInv, DeletionIsExact, DeletedIsGone, files, ghosts
  <2> QED BY <1>0, <1>2, <2>8, <2>9, <2>10, Undisturbed DEF IInv, DeletionIsExact, client, files, ghosts
<1> QED BY <1>1, <1>2 DEF ReadHistory

LEMMA RenameHistoryIInv == ASSUME IInv, RenameHistory PROVE IInv'
<1>0. /\ UNCHANGED <<client, owed, clips, saved, removed, recorded, raced>>
      /\ doing.step = "commit" /\ doing' = Resting
      /\ history' = doing.lines /\ rows' = Loaded(doing.lines)
      /\ rewrites' = rewrites \cup {Rewrote}
  BY DEF RenameHistory
<1>1. Lines(doing.lines) BY <1>0 DEF IInv, Rewriting
<1>2. Entries'
  <2>1. \A e \in rows' : e \in Entry /\ Linked(e) BY <1>0, <1>1, RowsAreLines
  <2> QED BY <1>0, <1>1, <2>1 DEF IInv, Entries, Lines
<1>3. Rewriting'
  <2>1. Resting \in [step : {"none", "clip", "read", "commit"}, target : Entry \cup {NoEntry},
                     new : Entry \cup {NoEntry}, line : Entry \cup {NoEntry},
                     lines : Seq(Entry), whole : BOOLEAN]
    BY DEF Resting
  <2>2. Resting.step = "none" BY DEF Resting
  <2> QED BY <1>0, <2>1, <2>2 DEF Rewriting
<1>4. OnlyTheDeletedGo'
  <2> DEFINE cost == {n \in Dictation : \E w \in rewrites : Costs(w, n)}
  <2>1. Ids(history') = Ids(doing.lines) BY <1>0
  <2>2. ASSUME NEW k \in recorded' PROVE k \in Ids(history') \cup raced' \cup cost'
    <3>1. k \in Ids(history) \cup raced \cup cost
      BY <1>0 DEF IInv, DeletionIsExact, OnlyTheDeletedGo
    <3>2. CASE k \in Ids(history)
      <4>1. k \in Ids(doing.lines) \cup raced \/ Costs(Rewrote, k)
        BY <1>0, <3>2 DEF IInv, Rewriting
      <4>2. k \in Dictation
        <5>1. PICK i \in 1 .. Len(history) : k = history[i].id BY <3>2 DEF Ids
        <5>2. history[i] \in Entry BY DEF IInv, Entries, Lines
        <5> QED BY <5>1, <5>2 DEF Entry
      <4>3. CASE Costs(Rewrote, k)
        <5>1. Rewrote \in rewrites' BY <1>0
        <5>2. \E w \in rewrites' : Costs(w, k) BY <4>3, <5>1
        <5> QED BY <4>2, <5>2 DEF Costs, Alike
      <4> QED BY <1>0, <2>1, <4>1, <4>3
    <3>3. CASE k \in cost
      <4>1. \E w \in rewrites' : Costs(w, k) BY <1>0, <3>3
      <4> QED BY <3>3, <4>1 DEF Costs, Alike
    <3> QED BY <1>0, <3>1, <3>2, <3>3
  <2> QED BY <2>2 DEF OnlyTheDeletedGo, Ids
<1>5. Removing' /\ DeletedIsGone'
  <2>1. Rewrote.new = NoEntry /\ Rewrote.whole => Rewrote.row.clip \in saved \ clips
    BY <1>0 DEF IInv, Removing, Rewriting, Rewrote
  <2>2. Resting.step = "none" BY DEF Resting
  <2>3. \A w \in rewrites' : w.new = NoEntry /\ w.whole => w.row.clip \in saved \ clips
    BY <1>0, <2>1 DEF IInv, Removing, DeletionIsExact, DeletedIsGone
  <2> QED BY <1>0, <2>2, <2>3 DEF Removing, DeletedIsGone
<1> QED BY <1>0, <1>2, <1>3, <1>4, <1>5, Undisturbed DEF IInv, DeletionIsExact, client

\* What was appended during a rewrite that came to nothing is still there.
LEMMA NothingRaced ==
  ASSUME IInv, UNCHANGED <<history, recorded, rewrites>>,
         raced' = raced \/ raced' = raced \ Ids(history)
  PROVE  OnlyTheDeletedGo'
BY DEF IInv, DeletionIsExact, OnlyTheDeletedGo, Ids

LEMMA RewriteFailsIInv == ASSUME IInv, RewriteFails PROVE IInv'
<1>0. /\ UNCHANGED <<client, owed, files, window, saved, removed, recorded, rewrites>>
      /\ doing' = Resting /\ (raced' = raced \/ raced' = raced \ Ids(history))
  BY DEF RewriteFails
<1> QED BY <1>0, RestingIInv, NothingRaced, Undisturbed
        DEF IInv, DeletionIsExact, client, files, window

-----------------------------------------------------------------------------
(* Mishaps *)

LEMMA UserRemovesIInv == ASSUME IInv, NEW clip \in clips, UserRemoves(clip) PROVE IInv'
<1>0. /\ UNCHANGED <<client, owed, history, window, doing, saved, recorded, rewrites, raced>>
      /\ clips' = clips \ {clip} /\ removed' = removed \cup {clip}
  BY DEF UserRemoves
<1>1. Saves' /\ Pruning' /\ NewestKept' BY <1>0, ClipsRemoved DEF client
<1>2. Removing' /\ DeletedIsGone' BY <1>0 DEF IInv, Removing, DeletionIsExact, DeletedIsGone
<1> QED BY <1>0, <1>1, <1>2, Undisturbed DEF IInv, DeletionIsExact, window

LEMMA CrashIInv == ASSUME IInv, Crash PROVE IInv'
<1>0. /\ UNCHANGED <<dictated, owed, files, saved, removed, recorded, rewrites>>
      /\ saver' = Unsaved /\ doing' = Resting /\ rows' = {} /\ raced' = raced \ Ids(history)
  BY DEF Crash
<1>1. Saves' /\ Pruning' /\ NewestKept'
  <2>1. saver' = [step |-> "none", n |-> 0, excess |-> {}] BY <1>0 DEF Unsaved
  <2>2. saver' \in [step : {"none", "write", "list", "prune"}, n : 0 .. NumDictations,
                    excess : SUBSET Dictation]
    BY <2>1, ArchiveAssumption DEF ArchiveAssumption
  <2>3. saver'.step = "none" BY <2>1
  <2> QED BY <1>0, <2>2, <2>3 DEF IInv, Saves, Pruning, NewestKept, files
<1>2. Entries' BY <1>0 DEF IInv, Entries, files, Lines
<1> QED BY <1>0, <1>1, <1>2, RestingIInv, NothingRaced DEF IInv, DeletionIsExact, files

-----------------------------------------------------------------------------
LEMMA NextIInv == ASSUME IInv, [Next]_vars PROVE IInv'
<1>1. CASE ControlThread
  BY <1>1, ReleaseIInv, SaveClipIInv, SaveFailsIInv, ListClipsIInv, PruneIInv DEF ControlThread
<1>2. CASE Daemon BY <1>2, AppendIInv, RecordsNothingIInv DEF Daemon
<1>3. CASE Window
  <2>1. CASE OpenWindow \/ CloseWindow \/ EnterHistory \/ SoundEnds \/ Poll
    <3>1. /\ UNCHANGED <<client, owed, files, doing, ghosts>>
          /\ rows' \subseteq rows \/ rows' = Loaded(history)
      BY <2>1 DEF OpenWindow, CloseWindow, EnterHistory, SoundEnds, Poll
    <3> QED BY <3>1, PaneIInv
  <2>2. ASSUME NEW e \in rows, TogglePlayback(e) PROVE IInv'
    BY <2>2, PaneIInv DEF TogglePlayback
  <2>3. ASSUME NEW e \in rows, NEW readable \in BOOLEAN, Retranscribe(e, readable) PROVE IInv'
    BY <2>3, PaneIInv DEF Retranscribe
  <2>4. ASSUME NEW text \in BOOLEAN, Answer(text) PROVE IInv' BY <2>4, PaneIInv DEF Answer
  <2>5. ASSUME NEW clip \in reruns, RejectRerun(clip) PROVE IInv' BY <2>5, PaneIInv DEF RejectRerun
  <2>6. CASE DeleteClip \/ DeleteClipFails \/ ReadHistory \/ RenameHistory \/ RewriteFails
    BY <2>6, DeleteClipIInv, DeleteClipFailsIInv, ReadHistoryIInv, RenameHistoryIInv, RewriteFailsIInv
  <2> QED BY <1>3, <2>1, <2>2, <2>3, <2>4, <2>5, <2>6, AcceptRerunIInv, DeleteEntryIInv DEF Window
<1>4. CASE Crash BY <1>4, CrashIInv
<1>5. CASE \E clip \in clips : UserRemoves(clip) BY <1>5, UserRemovesIInv
<1>6. CASE UNCHANGED vars BY <1>6, Undisturbed DEF IInv, DeletionIsExact, vars, client, files, window, ghosts
<1> QED BY <1>1, <1>2, <1>3, <1>4, <1>5, <1>6 DEF Next

LEMMA Invariance == Spec => []IInv
<1> QED BY InitIInv, NextIInv, PTL DEF Spec

\* Only age costs a recording: whatever is pruned, deleted, removed or cut short
\* by a crash, a saved clip that nobody removed is there unless Keep newer ones
\* were saved (recordings.rs prune_in).
THEOREM RecordingsAreKept == Spec => []NewestKept
BY Invariance, PTL DEF IInv

\* Deleting a row or adopting its rerun changes one line, which reads as the row
\* did, and takes the deleted row's recording: only what reads alike to the
\* second, or was appended during the rewrite, may lose its entry to it
\* (settings.rs delete_entry, accept_rerun, history.rs rewrite_matching).
THEOREM DeletionsAreExact == Spec => []DeletionIsExact
BY Invariance, PTL DEF IInv

-----------------------------------------------------------------------------
(* The button that stops what sounds *)

\* A line that the list would show with the clip's button.
Shows(lines, clip) == \E i \in 1 .. Len(lines) : lines[i].clip = clip /\ Listed(lines[i])

Rowed(clip) == \E e \in rows : e.clip = clip

\* The rows are listed lines of the file, and no deleted clip is on disk.
Filed ==
  /\ \A e \in rows : Listed(e) /\ \E i \in 1 .. Len(history) : history[i] = e
  /\ erased \cap clips = {}
  /\ doing.step = "clip" => doing.new = NoEntry
  /\ doing.step # "none" /\ doing.new # NoEntry =>
       Listed(doing.new) /\ doing.new.clip = doing.target.clip

\* What sounds is in the file and in the list, if it has room; and a rewrite
\* under way, whose lines will be shown, keeps it or mistakes it for another.
Heard ==
  sound # 0 =>
    /\ playing = sound /\ sound \in saved \ erased
    /\ Shows(history, sound) \/ Mistaken(sound)
    /\ Rowed(sound) \/ PastTheCap(history, sound) \/ Mistaken(sound)
    /\ doing.step # "none" /\ doing.new = NoEntry => doing.target.clip # sound
    /\ doing.step = "commit" =>
         \/ Shows(doing.lines, sound) \/ Mistaken(sound)
         \/ doing.line.clip = sound /\ doing.target.clip # sound

SInv == IInv /\ Filed /\ Heard

\* The newest listed lines become rows; the others are past the cap.
LEMMA LoadedShows ==
  ASSUME NEW lines, Lines(lines), NEW clip, Shows(lines, clip)
  PROVE  (\E e \in Loaded(lines) : e.clip = clip) \/ PastTheCap(lines, clip)
<1>1. PICK i \in 1 .. Len(lines) : lines[i].clip = clip /\ Listed(lines[i]) BY DEF Shows
<1> DEFINE kept  == {k \in 1 .. Len(lines) : Listed(lines[k])}
           newer == {j \in i + 1 .. Len(lines) : Listed(lines[j])}
<1>2. {j \in kept : j > i} = newer BY DEF Lines
<1>3. IsFiniteSet(newer)
  <2>1. IsFiniteSet(i + 1 .. Len(lines)) BY FS_Interval DEF Lines
  <2> QED BY <2>1, FS_Subset
<1>4. Cardinality(newer) \in Nat BY <1>3, FS_CardinalityType
<1>5. CASE Cardinality(newer) >= Cap BY <1>1, <1>5 DEF PastTheCap
<1>6. CASE ~(Cardinality(newer) >= Cap)
  <2>0. Cardinality(newer) < Cap
    <3> HIDE DEF newer
    <3> QED BY <1>4, <1>6, ArchiveAssumption DEF ArchiveAssumption
  <2>1. Cardinality({j \in kept : j > i}) < Cap
    <3> HIDE DEF kept, newer
    <3> QED BY <1>2, <2>0
  <2>2. i \in {k \in kept : Cardinality({j \in kept : j > k}) < Cap} BY <1>1, <2>1
  <2>3. lines[i] \in Loaded(lines) BY <2>2 DEF Loaded, RecentMatching
  <2> QED BY <1>1, <2>3
<1> QED BY <1>5, <1>6

LEMMA LoadedLines ==
  ASSUME NEW lines
  PROVE  \A e \in Loaded(lines) : Listed(e) /\ \E i \in 1 .. Len(lines) : lines[i] = e
BY DEF Loaded, RecentMatching

\* An append leaves every line where it was, and none newer than before.
LEMMA AppendShows ==
  ASSUME NEW lines, Lines(lines), NEW new \in Entry, NEW clip
  PROVE  /\ Shows(lines, clip) => Shows(Append(lines, new), clip)
         /\ PastTheCap(lines, clip) => PastTheCap(Append(lines, new), clip)
<1> DEFINE long == Append(lines, new)
<1>1. /\ Len(lines) \in Nat /\ Len(long) = Len(lines) + 1
      /\ \A i \in 1 .. Len(lines) : long[i] = lines[i]
  BY DEF Lines
<1> HIDE DEF long
<1>2. Shows(lines, clip) => Shows(long, clip) BY <1>1 DEF Shows
<1>3. ASSUME PastTheCap(lines, clip) PROVE PastTheCap(long, clip)
  <2>1. PICK i \in 1 .. Len(lines) :
          lines[i].clip = clip /\ Cardinality({j \in i + 1 .. Len(lines) : Listed(lines[j])}) >= Cap
    BY <1>3 DEF PastTheCap
  <2> DEFINE before == {j \in i + 1 .. Len(lines) : Listed(lines[j])}
             after  == {j \in i + 1 .. Len(long) : Listed(long[j])}
  <2>2. before \subseteq after BY <1>1
  <2>3. IsFiniteSet(after)
    <3>1. IsFiniteSet(i + 1 .. Len(long)) BY <1>1, FS_Interval
    <3> QED BY <3>1, FS_Subset
  <2>4. /\ Cardinality(before) <= Cardinality(after)
        /\ Cardinality(before) \in Nat /\ Cardinality(after) \in Nat
    BY <2>2, <2>3, FS_Subset, FS_CardinalityType
  <2>5. Cardinality(after) >= Cap BY <2>1, <2>4, ArchiveAssumption DEF ArchiveAssumption
  <2>6. i \in 1 .. Len(long) /\ long[i].clip = clip BY <1>1, <2>1
  <2> QED BY <2>5, <2>6 DEF PastTheCap
<1> QED BY <1>2, <1>3 DEF long

\* The sound goes on or ends; files may go, not lines.
LEMMA CalmHeard ==
  ASSUME SInv, UNCHANGED <<rows, history, doing, rewrites, saved, erased>>, clips' \subseteq clips,
         sound' = 0 \/ UNCHANGED <<sound, playing>>
  PROVE  Filed' /\ Heard'
<1>1. Filed' BY DEF SInv, Filed
<1>2. Heard' BY DEF SInv, Heard, Shows, Rowed, PastTheCap, Mistaken
<1> QED BY <1>1, <1>2

\* The list is read again, whatever sounds.
LEMMA ReloadHeard ==
  ASSUME SInv, rows' = Loaded(history),
         UNCHANGED <<history, rewrites, clips, saved, erased, sound, playing>>,
         UNCHANGED doing \/ doing' = Resting
  PROVE  Filed' /\ Heard'
<1>1. Filed'
  <2>1. \A e \in rows' : Listed(e) /\ \E i \in 1 .. Len(history) : history[i] = e BY LoadedLines
  <2> QED BY <2>1 DEF SInv, Filed, Resting
<1>2. Heard'
  <2> SUFFICES ASSUME sound # 0 PROVE Heard' BY DEF Heard
  <2>1. CASE Mistaken(sound) BY <2>1 DEF SInv, Heard, Shows, Rowed, PastTheCap, Mistaken, Resting
  <2>2. CASE Shows(history, sound)
    <3>1. (\E e \in Loaded(history) : e.clip = sound) \/ PastTheCap(history, sound)
      BY <2>2, LoadedShows DEF SInv, IInv, Entries
    <3>2. CASE \E e \in Loaded(history) : e.clip = sound
      <4>1. Rowed(sound)' BY <3>2 DEF Rowed
      <4> QED BY <2>2, <4>1 DEF SInv, Heard, Shows, Mistaken, Resting
    <3>3. CASE PastTheCap(history, sound)
      <4>1. PastTheCap(history', sound') BY <3>3
      <4>2. PastTheCap(history, sound)' = PastTheCap(history', sound') BY DEF PastTheCap
      <4> QED BY <2>2, <4>1, <4>2 DEF SInv, Heard, Shows, Mistaken, Resting
    <3> QED BY <3>1, <3>2, <3>3
  <2> QED BY <2>1, <2>2 DEF SInv, Heard
<1> QED BY <1>1, <1>2

\* A deletion or an adoption begins: the row's own sound has been stopped before
\* a deletion.
LEMMA BeginsHeard ==
  ASSUME SInv, NEW e, NEW new, NEW step \in {"clip", "read"},
         UNCHANGED <<rows, history, rewrites, clips, saved, erased>>,
         doing' = [Rewrite(e, new) EXCEPT !.step = step],
         step = "clip" => new = NoEntry,
         new # NoEntry => Listed(new) /\ new.clip = e.clip,
         (sound' = 0 /\ new = NoEntry) \/ (UNCHANGED <<sound, playing>> /\ (new = NoEntry => playing # e.clip))
  PROVE  Filed' /\ Heard'
<1>1. doing'.step = step /\ doing'.target = e /\ doing'.new = new BY DEF Rewrite, Resting
<1>2. Filed' BY <1>1 DEF SInv, Filed
<1>3. Heard' BY <1>1 DEF SInv, Heard, Shows, Rowed, PastTheCap, Mistaken
<1> QED BY <1>2, <1>3

\* ... and ends without having changed a line.
LEMMA RestsHeard ==
  ASSUME SInv, UNCHANGED <<rows, history, rewrites, clips, saved, erased, sound, playing>>,
         doing' = Resting
  PROVE  Filed' /\ Heard'
<1>1. Resting.step = "none" BY DEF Resting
<1>2. Filed' BY <1>1 DEF SInv, Filed
<1>3. Heard' BY <1>1 DEF SInv, Heard, Shows, Rowed, PastTheCap, Mistaken
<1> QED BY <1>2, <1>3

LEMMA SaveClipHeard == ASSUME SInv, SaveClip PROVE Filed' /\ Heard'
<1>1. /\ UNCHANGED <<rows, history, doing, rewrites, sound, playing>>
      /\ clips' = clips \cup {saver.n} /\ saved' = saved \cup {saver.n} /\ erased' = erased \ {saver.n}
  BY DEF SaveClip, window
<1>2. Filed' BY <1>1 DEF SInv, Filed
<1>3. Heard' BY <1>1 DEF SInv, Heard, Shows, Rowed, PastTheCap, Mistaken
<1> QED BY <1>2, <1>3

LEMMA AppendHeard ==
  ASSUME SInv, NEW o, NEW text \in {"said", "empty"}, NEW at \in Second, Append_(o, text, at)
  PROVE  Filed' /\ Heard'
<1> DEFINE new == NewEntry(o, text, at)
<1>1. /\ UNCHANGED <<rows, doing, rewrites, clips, saved, erased, sound, playing>>
      /\ history' = Append(history, new)
  BY DEF Append_, window
<1>2. new \in Entry BY DEF SInv, IInv, Entries, Entry, NewEntry, Append_
<1> HIDE DEF new
<1>3. Lines(history) BY DEF SInv, IInv, Entries
<1>4. \A clip : /\ Shows(history, clip) => Shows(history', clip)
                /\ PastTheCap(history, clip) => PastTheCap(history', clip)
  BY <1>1, <1>2, <1>3, AppendShows
<1>5. \A i \in 1 .. Len(history) : i \in 1 .. Len(history') /\ history'[i] = history[i]
  BY <1>1, <1>2, <1>3 DEF Lines
<1>6. Filed' BY <1>1, <1>5 DEF SInv, Filed
<1>7. Heard'
  <2> SUFFICES ASSUME sound # 0 PROVE Heard' BY <1>1 DEF Heard
  <2>1. Shows(history', sound) \/ Mistaken(sound) BY <1>4 DEF SInv, Heard
  <2>2. Rowed(sound) \/ PastTheCap(history', sound) \/ Mistaken(sound) BY <1>4 DEF SInv, Heard
  <2> QED BY <1>1, <2>1, <2>2 DEF SInv, Heard, Shows, Rowed, PastTheCap, Mistaken
<1> QED BY <1>6, <1>7

LEMMA ToggleHeard == ASSUME SInv, NEW e \in rows, TogglePlayback(e) PROVE Filed' /\ Heard'
<1>1. UNCHANGED <<rows, history, doing, rewrites, clips, saved, erased>> /\ doing.step = "none"
  BY DEF TogglePlayback, Idle, files, ghosts
<1>2. CASE sound' = 0 BY <1>1, <1>2, CalmHeard
<1>3. CASE sound' # 0
  <2>1. sound' = e.clip /\ playing' = e.clip /\ e.clip \in clips
    BY <1>3 DEF TogglePlayback, Quiet, Play, Exists
  <2>2. Filed' BY <1>1 DEF SInv, Filed
  <2>3. e.clip \in saved \ erased BY <2>1 DEF SInv, IInv, Saves, Filed
  <2>4. Shows(history, e.clip) BY DEF SInv, Filed, Shows
  <2>5. Rowed(e.clip) BY DEF Rowed
  <2> QED BY <1>1, <2>1, <2>2, <2>3, <2>4, <2>5 DEF Heard, Shows, Rowed
<1> QED BY <1>2, <1>3

LEMMA DeleteClipHeard == ASSUME SInv, DeleteClip PROVE Filed' /\ Heard'
<1>1. /\ UNCHANGED <<rows, history, rewrites, saved, sound, playing>>
      /\ clips' = clips \ {doing.target.clip} /\ erased' = erased \cup {doing.target.clip}
      /\ doing.step = "clip" /\ doing' = [doing EXCEPT !.step = "read"]
  BY DEF DeleteClip, window
<1>2. doing'.step = "read" /\ doing'.target = doing.target /\ doing'.new = doing.new
  BY <1>1 DEF SInv, IInv, Rewriting
<1>3. doing.new = NoEntry BY <1>1 DEF SInv, Filed
<1>4. Filed' BY <1>1, <1>2 DEF SInv, Filed
<1>5. Heard' BY <1>1, <1>2, <1>3 DEF SInv, Heard, Shows, Rowed, PastTheCap, Mistaken
<1> QED BY <1>4, <1>5

\* The rewritten lines: what sounds is in one of them, unless its line was the one
\* that changed, for another row.
LEMMA ReadHeard == ASSUME SInv, ReadHistory PROVE Filed' /\ Heard'
<1>0. UNCHANGED <<history, rewrites, clips, saved, erased, sound, playing>> /\ doing.step = "read"
  BY DEF ReadHistory, files, ghosts
<1>1. CASE doing' = Resting /\ rows' = Loaded(history) BY <1>0, <1>1, ReloadHeard
<1>2. CASE doing' = Resting /\ rows' = rows BY <1>0, <1>2, RestsHeard
<1>3. CASE /\ \E i \in 1 .. Len(history) :
                /\ Position(history, doing.target, i)
                /\ doing' = [doing EXCEPT !.step = "commit", !.line = history[i],
                                          !.lines = Rewritten(history, i, doing.new)]
           /\ UNCHANGED rows
  <2>1. PICK i \in 1 .. Len(history) :
          doing' = [doing EXCEPT !.step = "commit", !.line = history[i],
                                 !.lines = Rewritten(history, i, doing.new)]
    BY <1>3
  <2> DEFINE lines == Rewritten(history, i, doing.new)
  <2>2. /\ doing'.step = "commit" /\ doing'.lines = lines /\ doing'.target = doing.target
        /\ doing'.new = doing.new /\ doing'.line = history[i]
    BY <2>1 DEF SInv, IInv, Rewriting
  <2>3. Lines(history) BY DEF SInv, IInv, Entries
  <2>4. Filed' BY <1>0, <1>3, <2>2 DEF SInv, Filed
  <2>5. ASSUME sound # 0, Shows(history, sound)
        PROVE  Shows(lines, sound) \/ (history[i].clip = sound /\ doing.target.clip # sound)
    <3>1. PICK k \in 1 .. Len(history) : history[k].clip = sound /\ Listed(history[k])
      BY <2>5 DEF Shows
    <3>2. CASE doing.new = NoEntry
      <4>1. CASE k = i BY <1>0, <2>5, <3>1, <3>2, <4>1 DEF SInv, Heard
      <4>2. CASE k # i
        <5>1. PICK j \in 1 .. Len(lines) : lines[j] = history[k]
          BY <2>3, <3>2, <4>2, RemovedLines DEF Rewritten
        <5> QED BY <3>1, <5>1 DEF Shows
      <4> QED BY <4>1, <4>2
    <3>3. CASE doing.new # NoEntry
      <4>1. doing.new \in Entry /\ Linked(doing.new) BY <1>0, <3>3 DEF SInv, IInv, Rewriting
      <4>2. /\ Len(lines) = Len(history)
            /\ \A n \in 1 .. Len(history) : lines[n] = IF n = i THEN doing.new ELSE history[n]
        BY <2>3, <3>3, <4>1, ReplacedLines DEF Rewritten
      <4> HIDE DEF lines
      <4>3. CASE k # i BY <3>1, <4>2, <4>3 DEF Shows
      <4>4. CASE k = i /\ doing.target.clip = sound
        <5>1. doing.new.clip = sound /\ Listed(doing.new) BY <1>0, <3>3, <4>4 DEF SInv, Filed
        <5> QED BY <4>2, <4>4, <5>1 DEF Shows
      <4>5. CASE k = i /\ doing.target.clip # sound BY <3>1, <4>5
      <4> QED BY <4>3, <4>4, <4>5
    <3> QED BY <3>2, <3>3
  <2>6. Heard'
    <3> HIDE DEF lines
    <3> SUFFICES ASSUME sound # 0 PROVE Heard' BY <1>0 DEF Heard
    <3>1. \/ Shows(lines, sound) \/ Mistaken(sound)
          \/ history[i].clip = sound /\ doing.target.clip # sound
      BY <2>5 DEF SInv, Heard
    <3>2. UNCHANGED rows BY <1>3
    <3>3. /\ playing = sound /\ sound \in saved \ erased
          /\ Shows(history, sound) \/ Mistaken(sound)
          /\ Rowed(sound) \/ PastTheCap(history, sound) \/ Mistaken(sound)
          /\ doing.new = NoEntry => doing.target.clip # sound
      BY <1>0 DEF SInv, Heard
    <3> QED BY <1>0, <2>2, <3>1, <3>2, <3>3 DEF Heard, Shows, Rowed, PastTheCap, Mistaken
  <2> QED BY <2>4, <2>6
<1> QED BY <1>1, <1>2, <1>3 DEF ReadHistory

LEMMA RenameHeard == ASSUME SInv, RenameHistory PROVE Filed' /\ Heard'
<1>1. /\ UNCHANGED <<clips, saved, erased, sound, playing>>
      /\ doing.step = "commit" /\ doing' = Resting
      /\ history' = doing.lines /\ rows' = Loaded(doing.lines)
      /\ rewrites' = rewrites \cup {Rewrote}
  BY DEF RenameHistory
<1>2. Resting.step = "none" BY DEF Resting
<1>3. Lines(doing.lines) BY <1>1 DEF SInv, IInv, Rewriting
<1>4. Filed'
  <2>1. \A e \in rows' : Listed(e) /\ \E i \in 1 .. Len(history') : history'[i] = e
    BY <1>1, LoadedLines
  <2> QED BY <1>1, <1>2, <2>1 DEF SInv, Filed
<1>5. Heard'
  <2> SUFFICES ASSUME sound # 0 PROVE Heard' BY <1>1 DEF Heard
  <2> DEFINE wrong == \E w \in rewrites' : w.line.clip = sound /\ w.row.clip # sound
  <2>1. Shows(doing.lines, sound) \/ wrong
    <3>1. CASE Mistaken(sound) BY <1>1, <3>1 DEF Mistaken
    <3>2. CASE doing.line.clip = sound /\ doing.target.clip # sound
      <4>1. Rewrote \in rewrites' /\ Rewrote.line = doing.line /\ Rewrote.row = doing.target
        BY <1>1 DEF Rewrote
      <4> HIDE DEF Rewrote
      <4> QED BY <3>2, <4>1
    <3> QED BY <1>1, <3>1, <3>2 DEF SInv, Heard
  <2>2. (\E e \in rows' : e.clip = sound) \/ PastTheCap(history', sound) \/ wrong
    BY <1>1, <1>3, <2>1, LoadedShows
  <2>3. playing = sound /\ sound \in saved \ erased BY DEF SInv, Heard
  <2> QED BY <1>1, <1>2, <2>1, <2>2, <2>3 DEF Heard, Shows, Rowed, PastTheCap, Mistaken
<1> QED BY <1>4, <1>5

LEMMA NextSInv == ASSUME SInv, [Next]_vars PROVE SInv'
<1>0. IInv' BY NextIInv DEF SInv
<1> SUFFICES Filed' /\ Heard' BY <1>0 DEF SInv
<1>1. CASE ControlThread
  <2>1. CASE SaveClip BY <2>1, SaveClipHeard
  <2>2. CASE ~SaveClip
    <3>1. UNCHANGED <<rows, history, doing, rewrites, saved, erased, sound, playing>>
          /\ clips' \subseteq clips
      BY <1>1, <2>2 DEF ControlThread, Release, SaveFails, ListClips, Prune, files, window, ghosts
    <3> QED BY <3>1, CalmHeard
  <2> QED BY <2>1, <2>2
<1>2. CASE Daemon
  <2>1. ASSUME NEW o, RecordsNothing(o) PROVE Filed' /\ Heard'
    <3>1. UNCHANGED <<rows, history, doing, rewrites, saved, erased, clips, sound, playing>>
      BY <2>1 DEF RecordsNothing, files, window, ghosts
    <3> QED BY <3>1, CalmHeard
  <2> QED BY <1>2, <2>1, AppendHeard DEF Daemon
<1>3. CASE Window
  <2>1. CASE OpenWindow \/ EnterHistory
    BY <2>1, ReloadHeard DEF OpenWindow, EnterHistory, files, ghosts
  <2>2. CASE CloseWindow
    <3>1. /\ UNCHANGED <<history, doing, rewrites, saved, erased, clips>> /\ rows' = {} /\ sound' = 0
      BY <2>2 DEF CloseWindow, Quiet, files, ghosts
    <3> QED BY <3>1 DEF SInv, Filed, Heard
  <2>3. CASE SoundEnds \/ Poll
    BY <2>3, CalmHeard DEF SoundEnds, Poll, files, ghosts, SInv, Heard
  <2>4. ASSUME NEW e \in rows, NEW readable \in BOOLEAN, Retranscribe(e, readable)
        PROVE  Filed' /\ Heard'
    BY <2>4, CalmHeard DEF Retranscribe, Silenced, Quiet, files, ghosts
  <2>5. ASSUME NEW text \in BOOLEAN, Answer(text) PROVE Filed' /\ Heard'
    BY <2>5, CalmHeard DEF Answer, files, ghosts
  <2>6. ASSUME NEW clip \in reruns, RejectRerun(clip) PROVE Filed' /\ Heard'
    BY <2>6, CalmHeard DEF RejectRerun, files, ghosts
  <2>7. ASSUME NEW e \in rows, AcceptRerun(e) PROVE Filed' /\ Heard'
    <3> DEFINE new == [e EXCEPT !.text = "again"]
    <3>1. e \in Entry BY DEF SInv, IInv, Entries
    <3>2. new # NoEntry
      <4>1. new.text = "again" /\ NoEntry.text = "none" BY <3>1 DEF Entry, NoEntry
      <4> QED BY <4>1
    <3>3. doing' = [Rewrite(e, new) EXCEPT !.step = "read"] BY <2>7 DEF AcceptRerun, Rewrite, Resting
    <3>4. UNCHANGED <<rows, history, rewrites, clips, saved, erased, sound, playing>>
      BY <2>7 DEF AcceptRerun, files, ghosts
    <3>5. Listed(new) /\ new.clip = e.clip BY <3>1 DEF Entry, Listed
    <3> HIDE DEF new
    <3> QED BY <3>2, <3>3, <3>4, <3>5, BeginsHeard
  <2>8. ASSUME NEW e \in rows, DeleteEntry(e) PROVE Filed' /\ Heard'
    <3>1. PICK step \in {"clip", "read"} : doing' = [Rewrite(e, NoEntry) EXCEPT !.step = step]
      BY <2>8 DEF DeleteEntry
    <3>2. UNCHANGED <<rows, history, rewrites, clips, saved, erased>>
          /\ (sound' = 0 \/ (UNCHANGED <<sound, playing>> /\ playing # e.clip))
      BY <2>8 DEF DeleteEntry, Silenced, Quiet, files, ghosts
    <3> QED BY <3>1, <3>2, BeginsHeard
  <2>9. CASE DeleteClipFails \/ RewriteFails
    BY <2>9, RestsHeard DEF DeleteClipFails, RewriteFails, files, window, ghosts
  <2> QED BY <1>3, <2>1, <2>2, <2>3, <2>4, <2>5, <2>6, <2>7, <2>8, <2>9, ToggleHeard,
             DeleteClipHeard, ReadHeard, RenameHeard DEF Window
<1>4. CASE Crash
  <2>1. /\ UNCHANGED <<history, rewrites, saved, erased, clips>> /\ rows' = {} /\ sound' = 0
        /\ doing' = Resting
    BY <1>4 DEF Crash, files
  <2> QED BY <2>1 DEF SInv, Filed, Heard, Resting
<1>5. ASSUME NEW clip \in clips, UserRemoves(clip) PROVE Filed' /\ Heard'
  BY <1>5, CalmHeard DEF UserRemoves, window
<1>6. CASE UNCHANGED vars BY <1>6, CalmHeard DEF vars, files, window, ghosts
<1> QED BY <1>1, <1>2, <1>3, <1>4, <1>5, <1>6 DEF Next

\* Whatever is pruned, deleted, adopted, appended or reloaded, what sounds is
\* marked and can be stopped from its row, unless its file or its row went in one
\* of the ways named; and a deleted dictation is silent (settings.rs
\* toggle_playback, history_row, delete_entry, reload).
THEOREM SoundHasItsButton == Spec => []StopButtonShown
<1>1. Init => SInv
  <2>1. Init => Filed /\ Heard BY DEF Init, Filed, Heard, Resting
  <2> QED BY <2>1, InitIInv DEF SInv
<1>2. SInv => StopButtonShown
  BY DEF SInv, IInv, Saves, Heard, StopButtonShown, Button, Rowed
<1> QED BY <1>1, <1>2, NextSInv, PTL DEF Spec
=============================================================================
