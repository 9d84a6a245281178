------------------------------ MODULE Archive ------------------------------
(***************************************************************************)
(* The history file and the recordings it links to. The control thread     *)
(* saves the clip of a released dictation and prunes the oldest            *)
(* (recordings.rs), the daemon appends an entry when it has a transcript   *)
(* (history.rs append_to), and the History pane of the settings window     *)
(* reads both, plays and reruns clips, adopts reruns and deletes           *)
(* dictations by reading the file and renaming a rewritten one over it     *)
(* (settings.rs, history.rs rewrite_matching). Nothing locks the file.     *)
(*                                                                         *)
(* Dictation n has clip n, if it is retained; clip 0 is no clip. An entry  *)
(* carries no id: the one in the model is for the properties, and nothing  *)
(* the code does reads it. Every dictation says the same words and a       *)
(* timestamp is a second of a wall clock that may be set back, the worst   *)
(* case for matching an entry.                                             *)
(***************************************************************************)
EXTENDS Integers, Sequences, FiniteSets, SequencesExt

CONSTANTS
  Keep,           \* recordings::KEEP
  Cap,            \* HISTORY_CAP
  NumDictations,  \* bound: dictations
  LastSecond,     \* bound: seconds the wall clock may show
  MaxMishaps      \* bound: crashes of the client, clips removed in the Finder

ASSUME ArchiveAssumption ==
  Keep \in Nat \ {0} /\ Cap \in Nat \ {0} /\ NumDictations \in Nat
  /\ LastSecond \in Nat /\ MaxMishaps \in Nat

Dictation == 1 .. NumDictations
Second    == 1 .. LastSecond
Entry     == [id : Dictation, at : Second, text : {"said", "empty", "again"},
              clip : 0 .. NumDictations]
NoEntry   == [id |-> 0, at |-> 0, text |-> "none", clip |-> 0]
Resting   == [step |-> "none", target |-> NoEntry, new |-> NoEntry, line |-> NoEntry,
              lines |-> <<>>, whole |-> FALSE]
Unsaved   == [step |-> "none", n |-> 0, excess |-> {}]

VARIABLES
  dictated,  \* dictations released so far
  saver,     \* recordings::save on the control thread
  clips,     \* the recordings on disk
  owed,      \* the daemon: dictations it has not answered, as their entries
  history,   \* the lines of history.jsonl
  open,      \* the settings window
  rows,      \* History.entries: what the pane shows
  playing,   \* History.playing
  sound,     \* RecordingPlayer.current, while it sounds
  working,   \* History.working, with its task waiting for the answer
  reruns,    \* History.reruns
  doing,     \* a delete_entry or accept_rerun under way on the main thread
  saved,     \* history: clips that were saved
  removed,   \* history: clips somebody removed, other than by pruning
  erased,    \* history: clips the pane deleted, since they were saved
  recorded,  \* history: the dictations whose entry was ever appended
  rewrites,  \* history: the rewrites done: the row meant, the line changed
  raced,     \* history: entries appended while the file was being rewritten
  mishaps

files  == <<clips, history>>
client == <<dictated, saver>>
window == <<open, rows, playing, sound, working, reruns>>
ghosts == <<saved, removed, erased, recorded, rewrites, raced>>
vars   == <<client, owed, files, window, doing, ghosts, mishaps>>

-----------------------------------------------------------------------------
\* The pane lists what has a text.
Listed(e) == e.text # "empty"

\* recent_matching: the freshest that are listed; the others do not count.
RecentMatching(lines, limit) ==
  LET kept == {i \in 1 .. Len(lines) : Listed(lines[i])}
  IN  {lines[i] : i \in {k \in kept : Cardinality({j \in kept : j > k}) < limit}}

\* load_history
Loaded(lines) == RecentMatching(lines, Cap)

\* new_name: a retained clip is named when its dictation starts, so that the
\* daemon can link it.
NewName(retain, n) == IF retain THEN n ELSE 0

\* HistoryEntry::now: the second it is when the daemon records it.
NewEntry(o, text, at) == [id |-> o.id, at |-> at, text |-> text, clip |-> o.clip]

\* Mutant of Matches: the texts are not compared.
MatchesTime(e, target) == e.at = target.at

\* rewrite_matching: the same timestamp and the same texts.
Matches(e, target) == e.at = target.at /\ e.text = target.text

Ids(lines) == {lines[i].id : i \in 1 .. Len(lines)}

\* The newest line that matches (rposition).
Position(lines, target, i) ==
  /\ i \in 1 .. Len(lines) /\ Matches(lines[i], target)
  /\ \A j \in i + 1 .. Len(lines) : ~Matches(lines[j], target)

Rewritten(lines, i, new) ==
  IF new = NoEntry THEN RemoveAt(lines, i) ELSE ReplaceAt(lines, i, new)

\* recordings::path, exists: a name of ours, and a file of that name.
Exists(clip) == clip \in clips

\* samples: a clip that is there decodes, as save renames whole files, unless
\* the file cannot be read.
Samples(clip, readable) == Exists(clip) /\ readable

\* Mutant of Excess: the newest go.
ExcessNewest(names) == {n \in names : Cardinality({m \in names : m < n}) >= Keep}

\* prune_in: all but the Keep newest.
Excess(names) == {n \in names : Cardinality({m \in names : m > n}) >= Keep}

\* RecordingPlayer: one sound at a time, and what plays stops before the next
\* file is opened.
Quiet      == sound' = 0
Play(clip) == sound' = IF Exists(clip) THEN clip ELSE 0

-----------------------------------------------------------------------------
Init ==
  /\ dictated = 0 /\ saver = Unsaved /\ clips = {}
  /\ owed = {} /\ history = <<>>
  /\ open = FALSE /\ rows = {} /\ playing = 0 /\ sound = 0 /\ working = 0 /\ reruns = {}
  /\ doing = Resting
  /\ saved = {} /\ removed = {} /\ erased = {} /\ recorded = {} /\ rewrites = {} /\ raced = {}
  /\ mishaps = 0

\* A dictation is released: its Flush is sent with the name of its clip, and the
\* clip is saved if recordings are retained and the session captured anything.
Release(retain, captured) ==
  /\ saver.step = "none" /\ dictated < NumDictations
  /\ dictated' = dictated + 1
  /\ saver' = IF retain /\ captured THEN [Unsaved EXCEPT !.step = "write", !.n = dictated + 1]
              ELSE saver
  /\ owed' = owed \cup {[id |-> dictated + 1, clip |-> NewName(retain, dictated + 1)]}
  /\ UNCHANGED <<files, window, doing, ghosts, mishaps>>

\* The .part is renamed to the clip.
SaveClip ==
  /\ saver.step = "write"
  /\ saver' = [saver EXCEPT !.step = "list"]
  /\ clips' = clips \cup {saver.n} /\ saved' = saved \cup {saver.n} /\ erased' = erased \ {saver.n}
  /\ UNCHANGED <<dictated, owed, history, window, doing, removed, recorded, rewrites, raced, mishaps>>

\* Writing or renaming fails: logged, and nothing is pruned.
SaveFails ==
  /\ saver.step = "write" /\ saver' = Unsaved
  /\ UNCHANGED <<dictated, owed, files, window, doing, ghosts, mishaps>>

ListClips ==
  /\ saver.step = "list"
  /\ saver' = [saver EXCEPT !.step = "prune", !.excess = Excess(clips)]
  /\ UNCHANGED <<dictated, owed, files, window, doing, ghosts, mishaps>>

\* A file that cannot be removed, or is gone, is logged and left.
Prune(failed) ==
  /\ saver.step = "prune" /\ failed \subseteq saver.excess
  /\ clips' = clips \ (saver.excess \ failed)
  /\ saver' = Unsaved
  /\ UNCHANGED <<dictated, owed, history, window, doing, ghosts, mishaps>>

-----------------------------------------------------------------------------
\* The daemon has the transcript: one write_all in append mode.
Append_(o, text, at) ==
  /\ o \in owed /\ owed' = owed \ {o}
  /\ history' = Append(history, NewEntry(o, text, at))
  /\ recorded' = recorded \cup {o.id}
  /\ raced' = IF doing.step = "commit" THEN raced \cup {o.id} ELSE raced
  /\ UNCHANGED <<client, clips, window, doing, saved, removed, erased, rewrites, mishaps>>

\* Nothing was said, or the transcription or the append failed.
RecordsNothing(o) ==
  /\ o \in owed /\ owed' = owed \ {o}
  /\ UNCHANGED <<client, files, window, doing, ghosts, mishaps>>

-----------------------------------------------------------------------------
\* The History pane, on the main thread.

Idle == open /\ doing.step = "none"

OpenWindow ==
  /\ ~open /\ open' = TRUE /\ rows' = Loaded(history)
  /\ UNCHANGED <<client, owed, files, playing, sound, working, reruns, doing, ghosts, mishaps>>

\* The view goes with its player and with the tasks that would update it.
CloseWindow ==
  /\ Idle /\ open' = FALSE
  /\ rows' = {} /\ playing' = 0 /\ Quiet /\ working' = 0 /\ reruns' = {}
  /\ UNCHANGED <<client, owed, files, doing, ghosts, mishaps>>

\* Entering the pane rereads the file.
EnterHistory ==
  /\ Idle /\ rows' = Loaded(history)
  /\ UNCHANGED <<client, owed, files, open, playing, sound, working, reruns, doing, ghosts, mishaps>>

\* toggle_playback: a missing file leaves the old row marked until the poll.
TogglePlayback(e) ==
  /\ Idle /\ e.clip # 0
  /\ IF playing = e.clip THEN Quiet /\ playing' = 0
     ELSE Play(e.clip) /\ playing' = IF Exists(e.clip) THEN e.clip ELSE playing
  /\ UNCHANGED <<client, owed, files, open, rows, working, reruns, doing, ghosts, mishaps>>

SoundEnds ==
  /\ sound # 0 /\ sound' = 0
  /\ UNCHANGED <<client, owed, files, open, rows, playing, working, reruns, doing, ghosts, mishaps>>

\* The window's poll, twice a second.
Poll ==
  /\ Idle /\ playing # 0 /\ sound = 0 /\ playing' = 0
  /\ UNCHANGED <<client, owed, files, open, rows, sound, working, reruns, doing, ghosts, mishaps>>

\* Mutant of Silenced: only the mark goes.
SilencedMark(clip) ==
  IF playing = clip THEN playing' = 0 /\ UNCHANGED sound ELSE UNCHANGED <<sound, playing>>

\* Stop the row's own clip, and no other.
Silenced(clip) ==
  IF playing = clip THEN Quiet /\ playing' = 0 ELSE UNCHANGED <<sound, playing>>

Retranscribe(e, readable) ==
  /\ Idle /\ e.clip # 0 /\ working = 0
  /\ Silenced(e.clip)
  /\ working' = IF Samples(e.clip, readable) THEN e.clip ELSE 0
  /\ UNCHANGED <<client, owed, files, open, rows, reruns, doing, ghosts, mishaps>>

\* The rerun is answered, with a text or not.
Answer(text) ==
  /\ Idle /\ working # 0 /\ working' = 0
  /\ reruns' = IF text THEN reruns \cup {working} ELSE reruns
  /\ UNCHANGED <<client, owed, files, open, rows, playing, sound, doing, ghosts, mishaps>>

RejectRerun(clip) ==
  /\ Idle /\ clip \in reruns /\ reruns' = reruns \ {clip}
  /\ UNCHANGED <<client, owed, files, open, rows, playing, sound, working, doing, ghosts, mishaps>>

\* replace_matching and remove_matching: an entry gets other words, or goes.
Rewrite(target, new) ==
  [Resting EXCEPT !.step = "read", !.target = target, !.new = new, !.whole = target.clip \in saved]

\* accept_rerun, up to rewriting the file. Of rows that name the same clip any
\* may be the one found.
AcceptRerun(e) ==
  /\ Idle /\ e.clip \in reruns /\ reruns' = reruns \ {e.clip}
  /\ doing' = Rewrite(e, [e EXCEPT !.text = "again"])
  /\ UNCHANGED <<client, owed, files, open, rows, playing, sound, working, ghosts, mishaps>>

\* delete_entry: not while a rerun is in flight, and the audio first.
DeleteEntry(e) ==
  /\ Idle /\ working = 0
  /\ Silenced(e.clip)
  /\ doing' = [Rewrite(e, NoEntry) EXCEPT !.step = IF e.clip = 0 THEN "read" ELSE "clip"]
  /\ UNCHANGED <<client, owed, files, open, rows, working, reruns, ghosts, mishaps>>

DeleteClip ==
  /\ doing.step = "clip" /\ doing' = [doing EXCEPT !.step = "read"]
  /\ clips' = clips \ {doing.target.clip} /\ removed' = removed \cup {doing.target.clip}
  /\ erased' = erased \cup {doing.target.clip}
  /\ UNCHANGED <<client, owed, history, window, saved, recorded, rewrites, raced, mishaps>>

\* The audio cannot be deleted: the row stays and the notice says so.
DeleteClipFails ==
  /\ doing.step = "clip" /\ doing' = Resting
  /\ UNCHANGED <<client, owed, files, window, ghosts, mishaps>>

\* rewrite_matching reads the file and changes the line that matches; without one
\* there is nothing to do, and a delete reloads.
ReadHistory ==
  /\ doing.step = "read"
  /\ \/ /\ \E i \in 1 .. Len(history) :
             /\ Position(history, doing.target, i)
             /\ doing' = [doing EXCEPT !.step = "commit", !.line = history[i],
                                       !.lines = Rewritten(history, i, doing.new)]
        /\ UNCHANGED rows
     \/ /\ \A i \in 1 .. Len(history) : ~Matches(history[i], doing.target)
        /\ doing' = Resting
        /\ rows' = IF doing.new = NoEntry THEN Loaded(history) ELSE rows
  /\ UNCHANGED <<client, owed, files, open, playing, sound, working, reruns, ghosts, mishaps>>

\* The rewrite under way, as it is remembered once it is done.
Rewrote == [row |-> doing.target, line |-> doing.line, new |-> doing.new, whole |-> doing.whole]

\* ... and the rewritten file is renamed over whatever is there by now.
RenameHistory ==
  /\ doing.step = "commit" /\ doing' = Resting
  /\ history' = doing.lines /\ rows' = Loaded(doing.lines)
  /\ rewrites' = rewrites \cup {Rewrote}
  /\ UNCHANGED <<client, owed, clips, open, playing, sound, working, reruns, saved, removed, erased,
                 recorded, raced, mishaps>>

\* The file cannot be read, written or renamed: the row stays.
RewriteFails ==
  /\ doing.step \in {"read", "commit"} /\ doing' = Resting
  /\ raced' = IF doing.step = "commit" THEN raced \ Ids(history) ELSE raced
  /\ UNCHANGED <<client, owed, files, window, saved, removed, erased, recorded, rewrites, mishaps>>

-----------------------------------------------------------------------------
Mishap == mishaps < MaxMishaps /\ mishaps' = mishaps + 1

\* The user removes a clip in the Finder.
UserRemoves(clip) ==
  /\ clip \in clips /\ Mishap /\ clips' = clips \ {clip} /\ removed' = removed \cup {clip}
  /\ UNCHANGED <<client, owed, history, window, doing, saved, erased, recorded, rewrites, raced>>

\* The client dies; the daemon goes on, and what it owes it may still record.
Crash ==
  /\ Mishap
  /\ saver' = Unsaved /\ doing' = Resting
  /\ raced' = raced \ Ids(history)
  /\ open' = FALSE /\ rows' = {} /\ playing' = 0 /\ sound' = 0 /\ working' = 0 /\ reruns' = {}
  /\ UNCHANGED <<dictated, owed, files, saved, removed, erased, recorded, rewrites>>

-----------------------------------------------------------------------------
ControlThread ==
  \/ \E retain, captured \in BOOLEAN : Release(retain, captured)
  \/ SaveClip \/ SaveFails \/ ListClips
  \/ \E failed \in SUBSET saver.excess : Prune(failed)

Daemon ==
  \E o \in owed :
     \/ RecordsNothing(o)
     \/ \E text \in {"said", "empty"}, at \in Second : Append_(o, text, at)

Window ==
  \/ OpenWindow \/ CloseWindow \/ EnterHistory \/ SoundEnds \/ Poll
  \/ \E e \in rows : TogglePlayback(e) \/ AcceptRerun(e) \/ DeleteEntry(e)
  \/ \E e \in rows, readable \in BOOLEAN : Retranscribe(e, readable)
  \/ \E text \in BOOLEAN : Answer(text)
  \/ \E clip \in reruns : RejectRerun(clip)
  \/ DeleteClip \/ DeleteClipFails \/ ReadHistory \/ RenameHistory \/ RewriteFails

Next ==
  \/ ControlThread \/ Daemon \/ Window \/ Crash
  \/ \E clip \in clips : UserRemoves(clip)

Spec == Init /\ [][Next]_vars

-----------------------------------------------------------------------------
TypeOK ==
  /\ dictated \in 0 .. NumDictations /\ clips \subseteq Dictation
  /\ history \in Seq(Entry) /\ rows \subseteq Entry
  /\ playing \in 0 .. NumDictations /\ sound \in 0 .. NumDictations
  /\ working \in 0 .. NumDictations /\ reruns \subseteq Dictation

\* Only age costs a recording: one that was saved, and that nobody removed, is
\* gone only when Keep newer ones were saved after it (recordings.rs: "only the
\* newest KEEP clips are retained").
NewestKept ==
  \A n \in saved \ (clips \cup removed) : Cardinality({m \in saved : m > n}) >= Keep

\* The line that a rewrite changed reads as the row did: the same second and the
\* same words. Of several such lines it is the newest, not the row's own.
Alike(w) == w.line.at = w.row.at /\ w.line.text = w.row.text

\* What a rewrite may cost a dictation its entry: its own row was deleted, or a
\* row that reads alike was deleted or given a rerun's words.
Costs(w, n) == w.line.id = n /\ Alike(w) /\ (w.new = NoEntry \/ w.row.id # n)

\* Every dictation recorded keeps its entry, except those that a rewrite cost
\* theirs, and those appended between the read and the rename of a rewrite.
OnlyTheDeletedGo ==
  recorded \subseteq Ids(history) \cup raced \cup {n \in Dictation : \E w \in rewrites : Costs(w, n)}

\* The audio goes before the entry, so a row deleted while its clip was on disk
\* leaves that clip behind at no step where the deletion failed and was tried
\* again (settings.rs delete_entry). The clip of a line that went in its stead
\* stays, without an entry.
DeletedIsGone == \A w \in rewrites : w.new = NoEntry /\ w.whole => w.row.clip \notin clips

\* Deleting a row or adopting its rerun changes one line, which reads as the row
\* did (history.rs: "only a positively matched entry is ever touched"), and a
\* deleted row takes its recording with it, over races, failures and crashes.
\* Two dictations of the same second and words are not told apart, and what the
\* daemon appends during the rewrite is lost: those are the exceptions.
DeletionIsExact == OnlyTheDeletedGo /\ DeletedIsGone

\* A row's play button, drawn while its clip is on disk (history_row); it stops
\* what sounds when playing names that clip.
Button(clip) == clip \in clips /\ \E e \in rows : e.clip = clip

\* The entry of the clip is older than all that the list has room for.
PastTheCap(lines, clip) ==
  \E i \in 1 .. Len(lines) :
    lines[i].clip = clip /\ Cardinality({j \in i + 1 .. Len(lines) : Listed(lines[j])}) >= Cap

\* The clip's line was changed in the stead of another that reads alike.
Mistaken(clip) == \E w \in rewrites : w.line.clip = clip /\ w.row.clip # clip

\* A clip that sounds can be stopped from the list: it is the one marked as
\* playing and has its button there, unless its file was pruned or removed in
\* the Finder meanwhile, or its row fell past the list's cap or was mistaken for
\* another. It is never one whose row was deleted (settings.rs delete_entry,
\* reload: "other rows must keep playing"). Search filters are left out.
StopButtonShown ==
  sound # 0 =>
    /\ playing = sound /\ sound \notin erased
    /\ \/ Button(sound)
       \/ sound \in saved \ clips
       \/ PastTheCap(history, sound) \/ Mistaken(sound)
=============================================================================
