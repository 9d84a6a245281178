--------------------------- MODULE Feedback_proofs ---------------------------
(***************************************************************************)
(* What a dictation leaves behind, for any number of presses, changes and  *)
(* devices: a whole session on the wire, playback and the clipboard as     *)
(* they were, and a pill that told the truth; and a dictation held by its  *)
(* key is ended by it.                                                     *)
(***************************************************************************)
EXTENDS Feedback, TLAPS

-----------------------------------------------------------------------------
(* The inductive invariant *)

Ending == {"giving up", "stopping", "cancelling"}

Monitors == [runs : BOOLEAN, stop : BOOLEAN, cancelled : BOOLEAN, chunks : Int]
Wires == [session : {"closed", "open", "broken"}, owed : Int, unpolished : Int]

\* The records have their fields.
Shapes ==
  /\ ctl \in {"idle", "opening", "arming", "finishing"} \cup Ending
  /\ monitor \in Monitors
  /\ behavior \in {"Hold", "Toggle"}
  /\ live \in [on : BOOLEAN, behavior : {"Hold", "Toggle"}, muted : Devices \cup {NoDevice}]
  /\ wire \in Wires
  /\ output \in Devices

\* The monitor runs while a dictation is live or is being armed or ended, and
\* is told to stop when it ends.
Recorder ==
  /\ live.on => ctl = "idle"
  /\ live.on \/ ctl = "arming" => monitor.runs /\ ~monitor.stop /\ ~monitor.cancelled
  /\ monitor.runs => live.on \/ ctl = "arming" \/ ctl \in Ending
  /\ monitor.runs /\ ctl \in Ending => monitor.stop /\ (monitor.cancelled <=> ctl = "cancelling")

\* The session is open from the press until the monitor ends, and the Flush it
\* ends with is owed until finish returns.
Open  == ctl = "opening" \/ monitor.runs
Owing == ctl = "finishing" \/ (ctl \in {"giving up", "stopping"} /\ ~monitor.runs)

Framed ==
  /\ wire.session = IF Open THEN "open" ELSE "closed"
  /\ wire.owed = IF Owing THEN 1 ELSE 0

\* Exactly the device in hand is muted beside what the user muted.
Muting ==
  /\ mutedByUser \subseteq Devices
  /\ live.muted \notin mutedByUser
  /\ muted = mutedByUser \cup ({live.muted} \ {NoDevice})
  /\ live.muted # NoDevice => live.on \/ ctl = "stopping"

InHand == {"borrowed", "posted", "unposted"}

\* The clipboard is the user's, or is borrowed and what it held is saved.
Borrowing ==
  /\ clip \in [has : Contents \cup {Nothing, Dictated}, users : Contents \cup {Nothing},
               saved : Contents \cup {Nothing, Dictated}, meddled : BOOLEAN]
  /\ answer \in InHand => ctl = "finishing"
  /\ ~clip.meddled =>
       IF answer \in InHand THEN clip.saved = Saved(clip.users)
       ELSE clip.has \in {clip.users, Saved(clip.users)}

-----------------------------------------------------------------------------
(* The steps, as far as a session goes *)

Still ==
  /\ UNCHANGED <<ctl, live, monitor>>
  /\ wire' \in Wires /\ output' \in Devices
  /\ wire'.session = wire.session /\ wire'.owed = wire.owed
  /\ behavior' \in {"Hold", "Toggle"}
  /\ UNCHANGED <<muted, mutedByUser>> \/ \E d \in Devices : ToggleMute(d)

Moves ==
  \/ PressStarts \/ MicUnavailable \/ MicOpens \/ MicLive \/ MicSilent \/ Release \/ Cancel
  \/ CancelEnds \/ Stopped \/ GaveUp \/ Finished \/ SendChunk \/ MonitorEnds

LEMMA StillOrMoves ==
  ASSUME Shapes, [FNext]_<<vars, feedbackVars>> PROVE Still \/ Moves
<1> USE DEF Shapes, Wires, outVars
<1>1. CASE UNCHANGED <<vars, feedbackVars>>
  BY <1>1 DEF Still, vars
<1>2. CASE User
  BY <1>2 DEF Still, User, PressKey, ReleaseKey, PressEscape
<1>3. CASE SwitchBehavior \/ BeginCapture \/ CancelCapture \/ CommitHotkey
  BY <1>3 DEF Still, SwitchBehavior, BeginCapture, CancelCapture, CommitHotkey
<1>4. CASE \E d \in Devices : SwitchOutput(d) \/ ToggleMute(d)
  BY <1>4 DEF Still, SwitchOutput, ToggleMute
<1>5. CASE PolishingArrives
  BY <1>5 DEF Still, PolishingArrives
<1>6. CASE \E c \in Contents : Copies(c)
  BY <1>6 DEF Still, Copies
<1>7. CASE Settle
  BY <1>7 DEF Still, Settle, FinishReturns, PostKeys, Restored, vars
<1>8. CASE Refused
  BY <1>8 DEF Still, Refused, PressRefused, Take
<1>9. CASE Starts \/ Unavailable \/ Cancelled \/ AwaitsText \/ Ended
  BY <1>9 DEF Moves, Starts, Unavailable, Cancelled, AwaitsText, Ended
<1>10. CASE OtherControl
  BY <1>10 DEF Still, Moves, OtherControl, IgnoreEvent, Take
<1>11. CASE FMonitor
  BY <1>11 DEF Moves, FMonitor, Monitor
<1>12. CASE Apply
  BY <1>12 DEF Still, Apply, ApplyPhase
<1>13. CASE HoldEnds
  BY <1>13 DEF Still, HoldEnds, vars
<1> QED
  BY <1>1, <1>2, <1>3, <1>4, <1>5, <1>6, <1>7, <1>8, <1>9, <1>10, <1>11, <1>12, <1>13
  DEF FNext, FUser, FControl, Window

-----------------------------------------------------------------------------
(* Sessions are whole *)

LEMMA HearIsTyped ==
  ASSUME NEW w \in Wires, NEW cmd \in {"Start", "Chunk"} \cup Ends PROVE Hear(w, cmd) \in Wires
BY DEF Wires, Hear, Ends

\* What a command does to a session that takes it.
LEMMA StartOpens ==
  ASSUME NEW w \in Wires, NEW v, v = Hear(w, "Start"), w.session = "closed"
  PROVE  v.session = "open" /\ v.owed = w.owed
BY DEF Wires, Hear, Ends

LEMMA ChunkContinues ==
  ASSUME NEW w \in Wires, NEW v, v = Hear(w, "Chunk"), w.session = "open"
  PROVE  v \in Wires /\ v.session = "open" /\ v.owed = w.owed
<1>1. v \in Wires
  BY HearIsTyped
<1> QED  BY <1>1 DEF Wires, Hear, Ends

LEMMA CancelCloses ==
  ASSUME NEW w \in Wires, NEW v, v = Hear(w, "Cancel"), w.session = "open"
  PROVE  v.session = "closed" /\ v.owed = w.owed
BY DEF Wires, Hear, Ends

LEMMA FlushCloses ==
  ASSUME NEW w \in Wires, NEW v, v = Hear(w, "Flush"), w.session = "open"
  PROVE  v.session = "closed" /\ v.owed = w.owed + 1
BY DEF Wires, Hear, Ends

\* The monitor's flags, as the control thread sets them.
LEMMA NoMonitorIsTyped ==
  /\ NoMonitor \in Monitors
  /\ NoMonitor.runs = FALSE /\ NoMonitor.stop = FALSE /\ NoMonitor.cancelled = FALSE
BY DEF Monitors, NoMonitor

LEMMA MonitorRuns ==
  ASSUME NEW m \in Monitors, NEW n, n = [m EXCEPT !.runs = TRUE]
  PROVE  n \in Monitors /\ n.runs = TRUE /\ n.stop = m.stop /\ n.cancelled = m.cancelled
BY DEF Monitors

LEMMA MonitorStops ==
  ASSUME NEW m \in Monitors, NEW n, n = [m EXCEPT !.stop = TRUE]
  PROVE  n \in Monitors /\ n.runs = m.runs /\ n.stop = TRUE /\ n.cancelled = m.cancelled
BY DEF Monitors

LEMMA MonitorDiscards ==
  ASSUME NEW m \in Monitors, NEW n, n = [m EXCEPT !.stop = TRUE, !.cancelled = TRUE]
  PROVE  n \in Monitors /\ n.runs = m.runs /\ n.stop = TRUE /\ n.cancelled = TRUE
BY DEF Monitors

LEMMA MonitorSends ==
  ASSUME NEW m \in Monitors, NEW n, n = [m EXCEPT !.chunks = @ + 1]
  PROVE  n \in Monitors /\ n.runs = m.runs /\ n.stop = m.stop /\ n.cancelled = m.cancelled
BY DEF Monitors

LEMMA NoLiveIsTyped ==
  /\ NoLive \in [on : BOOLEAN, behavior : {"Hold", "Toggle"}, muted : Devices \cup {NoDevice}]
  /\ NoLive.on = FALSE /\ NoLive.muted = NoDevice
BY DEF NoLive

LEMMA ShapesInit == FInit => Shapes
<1> SUFFICES ASSUME FInit PROVE Shapes
  OBVIOUS
<1>1. wire \in Wires
  BY DEF FInit, Init, NothingSaid, Wires
<1>2. output \in Devices
  BY DictationsAssumption DEF FInit, Init
<1> QED
  BY <1>1, <1>2, NoLiveIsTyped, NoMonitorIsTyped DEF FInit, Init, Shapes, Ending

LEMMA ShapesHold ==
  ASSUME Shapes, Still \/ Moves PROVE Shapes'
<1> USE DEF Shapes, Ending, outVars
<1>1. CASE Still
  BY <1>1 DEF Still
<1>2. CASE PressStarts
  BY <1>2, HearIsTyped DEF PressStarts, Take, Tell
<1>3. CASE MicUnavailable
  BY <1>3, HearIsTyped, NoLiveIsTyped DEF MicUnavailable, Tell, Ends
<1>4. CASE MicOpens
  BY <1>4, NoMonitorIsTyped, MonitorRuns DEF MicOpens
<1>5. CASE MicLive
  BY <1>5 DEF MicLive
<1>6. CASE MicSilent
  BY <1>6, MonitorStops DEF MicSilent
<1>7. CASE Release
  BY <1>7, MonitorStops DEF Release, Take
<1>8. CASE Cancel
  BY <1>8, MonitorDiscards DEF Cancel, Take
<1>9. CASE CancelEnds \/ GaveUp
  BY <1>9, NoLiveIsTyped DEF CancelEnds, GaveUp
<1>10. CASE Stopped
  BY <1>10 DEF Stopped
<1>11. CASE Finished
  BY <1>11, NoLiveIsTyped DEF Finished, Wires
<1>12. CASE SendChunk
  BY <1>12, HearIsTyped, MonitorSends DEF SendChunk, Tell
<1>13. CASE MonitorEnds
  <2>1. wire' \in Wires
    <3>1. Hear(wire, "Cancel") \in Wires /\ Hear(wire, "Flush") \in Wires
      BY HearIsTyped DEF Ends
    <3>2. Hear(Hear(wire, "Chunk"), "Flush") \in Wires
      <4>1. Hear(wire, "Chunk") \in Wires
        BY HearIsTyped
      <4> QED  BY <4>1, HearIsTyped DEF Ends
    <3> QED  BY <1>13, <3>1, <3>2 DEF MonitorEnds, Tell
  <2> QED  BY <1>13, <2>1, NoMonitorIsTyped DEF MonitorEnds
<1> QED
  BY <1>1, <1>2, <1>3, <1>4, <1>5, <1>6, <1>7, <1>8, <1>9, <1>10, <1>11, <1>12, <1>13 DEF Moves

LEMMA RecorderHolds ==
  ASSUME Shapes, Recorder, Still \/ Moves PROVE Recorder'
<1> USE DEF Shapes, Recorder, Ending
<1>1. CASE Still
  BY <1>1 DEF Still
<1>2. CASE PressStarts
  BY <1>2 DEF PressStarts, Take
<1>3. CASE MicUnavailable
  BY <1>3, NoLiveIsTyped DEF MicUnavailable
<1>4. CASE MicOpens
  BY <1>4, NoMonitorIsTyped, MonitorRuns DEF MicOpens
<1>5. CASE MicLive
  BY <1>5 DEF MicLive
<1>6. CASE MicSilent
  BY <1>6, MonitorStops DEF MicSilent
<1>7. CASE Release
  BY <1>7, MonitorStops DEF Release, Take
<1>8. CASE Cancel
  BY <1>8, MonitorDiscards DEF Cancel, Take
<1>9. CASE CancelEnds \/ GaveUp
  BY <1>9, NoLiveIsTyped DEF CancelEnds, GaveUp, Joined
<1>10. CASE Stopped
  BY <1>10 DEF Stopped, Joined
<1>11. CASE Finished
  BY <1>11, NoLiveIsTyped DEF Finished
<1>12. CASE SendChunk
  BY <1>12, MonitorSends DEF SendChunk
<1>13. CASE MonitorEnds
  BY <1>13, NoMonitorIsTyped DEF MonitorEnds
<1> QED
  BY <1>1, <1>2, <1>3, <1>4, <1>5, <1>6, <1>7, <1>8, <1>9, <1>10, <1>11, <1>12, <1>13 DEF Moves

LEMMA FramedHolds ==
  ASSUME Shapes, Recorder, Framed, Still \/ Moves PROVE Framed'
<1> USE DEF Shapes, Recorder, Framed, Open, Owing, Ending
<1>1. CASE Still
  BY <1>1 DEF Still
<1>2. CASE PressStarts
  <2>1. wire'.session = "open" /\ wire'.owed = 0
    BY <1>2, StartOpens DEF PressStarts, Take, Tell
  <2> QED  BY <1>2, <2>1 DEF PressStarts, Take
<1>3. CASE MicUnavailable
  <2>1. wire'.session = "closed" /\ wire'.owed = 0
    BY <1>3, CancelCloses DEF MicUnavailable, Tell
  <2> QED  BY <1>3, <2>1 DEF MicUnavailable
<1>4. CASE MicOpens
  BY <1>4, NoMonitorIsTyped, MonitorRuns DEF MicOpens
<1>5. CASE MicLive
  BY <1>5 DEF MicLive
<1>6. CASE MicSilent
  BY <1>6, MonitorStops DEF MicSilent
<1>7. CASE Release
  BY <1>7, MonitorStops DEF Release, Take
<1>8. CASE Cancel
  BY <1>8, MonitorDiscards DEF Cancel, Take
<1>9. CASE CancelEnds \/ GaveUp
  BY <1>9 DEF CancelEnds, GaveUp, Joined
<1>10. CASE Stopped
  BY <1>10 DEF Stopped, Joined
<1>11. CASE Finished
  BY <1>11 DEF Finished, Wires
<1>12. CASE SendChunk
  <2>1. wire'.session = "open" /\ wire'.owed = wire.owed
    BY <1>12, ChunkContinues DEF SendChunk, Tell
  <2> QED  BY <1>12, <2>1, MonitorSends DEF SendChunk
<1>13. CASE MonitorEnds
  <2>1. monitor.runs /\ ~monitor'.runs /\ UNCHANGED ctl /\ ctl \in Ending
    BY <1>13, NoMonitorIsTyped DEF MonitorEnds
  <2>2. wire.session = "open" /\ wire.owed = 0
    BY <2>1
  <2>3. CASE monitor.cancelled
    <3>1. wire' = Hear(wire, "Cancel")
      BY <1>13, <2>3 DEF MonitorEnds, Tell
    <3>2. wire'.session = "closed" /\ wire'.owed = 0
      BY <2>2, <3>1, CancelCloses
    <3> QED  BY <2>1, <2>3, <3>2
  <2>4. CASE ~monitor.cancelled
    <3>3. ctl' \in {"giving up", "stopping"}
      BY <2>1, <2>4, <1>13 DEF MonitorEnds
    <3>4. ~Open' /\ Owing'
      BY <2>1, <3>3
    <3> HIDE DEF Open, Owing, Shapes, Recorder
    <3>1. CASE wire' = Hear(wire, "Flush")
      <4>1. wire'.session = "closed" /\ wire'.owed = wire.owed + 1
        BY <2>2, <3>1, FlushCloses DEF Shapes
      <4> QED  BY <2>2, <3>4, <4>1
    <3>2. CASE wire' = Hear(Hear(wire, "Chunk"), "Flush")
      <4>1. PICK w \in Wires : w = Hear(wire, "Chunk") /\ w.session = "open" /\ w.owed = 0
        BY <2>2, ChunkContinues DEF Shapes
      <4>2. wire' = Hear(w, "Flush")
        BY <3>2, <4>1
      <4>3. wire'.session = "closed" /\ wire'.owed = w.owed + 1
        BY <4>1, <4>2, FlushCloses
      <4> QED  BY <3>4, <4>1, <4>3
    <3> QED  BY <1>13, <2>4, <3>1, <3>2 DEF MonitorEnds, Tell
  <2> QED  BY <2>3, <2>4
<1> QED
  BY <1>1, <1>2, <1>3, <1>4, <1>5, <1>6, <1>7, <1>8, <1>9, <1>10, <1>11, <1>12, <1>13 DEF Moves
-----------------------------------------------------------------------------
(* Playback is as it was *)

LEMMA MutingHolds ==
  ASSUME Shapes, Recorder, Muting, DictationsAssumption, Still \/ Moves PROVE Muting'
<1> USE DEF Shapes, Recorder, Muting, Ending, outVars, DictationsAssumption
<1>1. CASE Still
  <2>1. CASE UNCHANGED <<muted, mutedByUser>>
    BY <1>1, <2>1 DEF Still
  <2>2. CASE \E d \in Devices : ToggleMute(d)
    BY <1>1, <2>2 DEF Still, ToggleMute
  <2> QED  BY <1>1, <2>1, <2>2 DEF Still
<1>2. CASE PressStarts
  BY <1>2 DEF PressStarts, Take
<1>3. CASE MicUnavailable
  BY <1>3, NoLiveIsTyped DEF MicUnavailable
<1>4. CASE MicOpens \/ MicSilent \/ SendChunk \/ MonitorEnds
  BY <1>4 DEF MicOpens, MicSilent, SendChunk, MonitorEnds
<1>5. CASE MicLive
  <2>1. PICK taken \in {output, NoDevice} :
           Engage(taken) /\ live' = [live EXCEPT !.on = TRUE, !.muted = taken]
    BY <1>5 DEF MicLive
  <2>2. live.muted = NoDevice /\ live'.muted = taken /\ live'.on
    BY <1>5, <2>1 DEF MicLive
  <2> QED  BY <1>5, <2>1, <2>2 DEF MicLive, Engage
<1>6. CASE Release
  BY <1>6 DEF Release, Take
<1>7. CASE Cancel
  BY <1>7 DEF Cancel, Take, Restore
<1>8. CASE CancelEnds
  BY <1>8, NoLiveIsTyped DEF CancelEnds, Joined
<1>9. CASE Stopped
  BY <1>9 DEF Stopped, Restore
<1>10. CASE GaveUp
  BY <1>10 DEF GaveUp, Joined
<1>11. CASE Finished
  BY <1>11, NoLiveIsTyped DEF Finished
<1> QED
  BY <1>1, <1>2, <1>3, <1>4, <1>5, <1>6, <1>7, <1>8, <1>9, <1>10, <1>11 DEF Moves

-----------------------------------------------------------------------------
(* The clipboard is given back *)

LEMMA SavedTwice ==
  ASSUME NEW c PROVE Saved(Saved(c)) = Saved(c)
BY FeedbackAssumption DEF Saved

\* The steps, as far as the clipboard goes.
TextStill == UNCHANGED <<answer, clip>> /\ (ctl = "finishing" => ctl' = "finishing")

LEMMA TextStillOrTextMoves ==
  ASSUME [FNext]_<<vars, feedbackVars>>
  PROVE  TextStill \/ Settle \/ AwaitsText \/ Ended \/ \E c \in Contents : Copies(c)
<1> USE DEF TextStill, feedbackVars, textVars
<1>1. CASE UNCHANGED <<vars, feedbackVars>>
  BY <1>1 DEF vars
<1>2. CASE (User \/ Window \/ PolishingArrives) /\ UNCHANGED feedbackVars
  BY <1>2 DEF User, PressKey, ReleaseKey, PressEscape, Window, SwitchBehavior, BeginCapture,
              CancelCapture, CommitHotkey, SwitchOutput, ToggleMute, PolishingArrives
<1>3. CASE Refused \/ Starts \/ Unavailable \/ Cancelled
  BY <1>3 DEF Refused, PressRefused, Take, Starts, PressStarts, Unavailable, MicUnavailable,
              Cancelled, CancelEnds, Joined
<1>4. CASE OtherControl
  BY <1>4 DEF OtherControl, IgnoreEvent, Take, MicOpens, MicLive, MicSilent, Release, Cancel,
              GaveUp, Joined
<1>5. CASE FMonitor
  BY <1>5 DEF FMonitor, Monitor, SendChunk, MonitorEnds
<1>6. CASE Apply
  BY <1>6 DEF Apply, ApplyPhase
<1>7. CASE HoldEnds
  BY <1>7 DEF HoldEnds, vars
<1> QED
  BY <1>1, <1>2, <1>3, <1>4, <1>5, <1>6, <1>7 DEF FNext, FUser, FControl

LEMMA BorrowingHolds ==
  ASSUME Borrowing, [FNext]_<<vars, feedbackVars>> PROVE Borrowing'
<1> USE DEF Borrowing, InHand
<1>1. CASE TextStill
  BY <1>1 DEF TextStill
<1>2. CASE FinishReturns
  BY <1>2, SavedTwice DEF FinishReturns, Classified, vars, Saved
<1>3. CASE PostKeys
  BY <1>3 DEF PostKeys, vars
<1>4. CASE Restored
  BY <1>4 DEF Restored, Settled
<1>5. CASE AwaitsText
  BY <1>5 DEF AwaitsText, Stopped, Joined
<1>6. CASE Ended
  BY <1>6 DEF Ended, Outcome
<1>7. CASE \E c \in Contents : Copies(c)
  <2>1. PICK c \in Contents :
           clip' = [clip EXCEPT !.has = c, !.users = c, !.meddled = answer \in InHand]
    BY <1>7 DEF Copies
  <2>2. PICK b \in BOOLEAN : b = (answer \in InHand)
    <3>1. CASE answer \in InHand
      <4>1. (answer \in InHand) = TRUE  BY <3>1
      <4> QED  BY <4>1
    <3>2. CASE answer \notin InHand
      <4>1. (answer \in InHand) = FALSE  BY <3>2
      <4> QED  BY <4>1
    <3> QED  BY <3>1, <3>2
  <2>3. clip' = [has |-> c, users |-> c, saved |-> clip.saved, meddled |-> b]
    BY <2>1, <2>2
  <2>4. UNCHANGED <<answer, ctl>>
    BY <1>7 DEF Copies, textVars
  <2>5. ~clip.meddled' => answer' \notin InHand
    <3> HIDE DEF InHand
    <3> QED  BY <2>2, <2>3, <2>4
  <2> QED  BY <2>3, <2>4, <2>5
<1> QED
  BY <1>1, <1>2, <1>3, <1>4, <1>5, <1>6, <1>7, TextStillOrTextMoves DEF Settle

-----------------------------------------------------------------------------

IInv == Shapes /\ Recorder /\ Framed /\ Muting /\ Borrowing

THEOREM Inductive == FSpec => []IInv
<1>1. FInit => IInv
  <2> SUFFICES ASSUME FInit PROVE IInv
    OBVIOUS
  <2>1. Recorder
    BY NoLiveIsTyped, NoMonitorIsTyped DEF FInit, Init, Recorder, Ending
  <2>2. Framed
    BY NoMonitorIsTyped DEF FInit, Init, Framed, Open, Owing, NothingSaid
  <2>3. Muting
    BY NoLiveIsTyped DEF FInit, Init, Muting
  <2>4. Borrowing
    BY DEF FInit, Init, Borrowing, InHand
  <2> QED  BY ShapesInit, <2>1, <2>2, <2>3, <2>4 DEF IInv
<1>2. IInv /\ [FNext]_<<vars, feedbackVars>> => IInv'
  BY StillOrMoves, ShapesHold, RecorderHolds, FramedHolds, MutingHolds, BorrowingHolds,
     DictationsAssumption DEF IInv
<1> QED  BY <1>1, <1>2, PTL DEF FSpec

\* For any number of presses, Escapes and chunks the transport sees whole sessions
\* one after another, and finish is called once per Flush (session.rs 220-232,
\* capture.rs Session::stop).
THEOREM SessionsAreFramed == FSpec => []SessionsFramed
<1>1. IInv => SessionsFramed
  BY DEF IInv, Shapes, Recorder, Framed, Open, Owing, SessionsFramed, Ending
<1> QED  BY <1>1, Inductive, PTL

\* For any set of output devices and any changes to them, between dictations
\* every device is muted exactly if the user muted it (muting.rs).
THEOREM PlaybackIsRestored == FSpec => []PlaybackRestored
<1>1. IInv => PlaybackRestored
  BY DEF IInv, Muting, PlaybackRestored
<1> QED  BY <1>1, Inductive, PTL

\* Whatever a user may copy and whatever of it can be read, a dictation that is
\* over has left the clipboard as it was, or emptied it (paste.rs).
THEOREM ClipboardIsGivenBack == FSpec => []ClipboardGivenBack
<1>1. IInv => ClipboardGivenBack
  BY DEF IInv, Borrowing, InHand, ClipboardGivenBack
<1> QED  BY <1>1, Inductive, PTL

-----------------------------------------------------------------------------
(* A dictation held by its key *)

KeyEvents == [kind : {"down", "up", "escape"}, id : Nat]

\* After the first i events there is still one that says chord r came up.
Upped(es, r, i) == \E j \in 1..Len(es) : i < j /\ es[j].kind = "up" /\ es[j].id = r
Downs(es, r)    == \A i \in 1..Len(es) : es[i].kind = "down" /\ es[i].id = r => Upped(es, r, i)

Keys ==
  /\ current \in Nat /\ recordId = current
  /\ events \in Seq(KeyEvents)
  /\ key \in [held : BOOLEAN, tracked : BOOLEAN] /\ registered \in BOOLEAN
  /\ key.tracked => registered

\* A dictation about to start or running has its chord held, or its release is
\* queued; and while the chord is not registered there is none and none to come.
Holding == live.on \/ ctl \in {"opening", "arming"}
Held ==
  ~blind =>
    /\ ~registered =>
         /\ ctl = "idle" /\ ~live.on
         /\ \A i \in 1..Len(events) : events[i].kind = "escape"
    /\ key.tracked \/ Downs(events, recordId)
    /\ Holding /\ live.behavior = "Hold" => key.tracked \/ Upped(events, recordId, 0)

LEMMA UppedTail ==
  ASSUME NEW es \in Seq(KeyEvents), es # <<>>, NEW r \in Nat, NEW i \in Nat, Upped(es, r, i + 1)
  PROVE  Upped(Tail(es), r, i)
<1>1. PICK j \in 1..Len(es) : i + 1 < j /\ es[j].kind = "up" /\ es[j].id = r
  BY DEF Upped
<1>2. j - 1 \in 1..Len(Tail(es)) /\ Tail(es)[j - 1] = es[j] /\ i < j - 1
  BY <1>1
<1> QED  BY <1>1, <1>2 DEF Upped

LEMMA DownsTail ==
  ASSUME NEW es \in Seq(KeyEvents), es # <<>>, NEW r \in Nat, Downs(es, r)
  PROVE  Downs(Tail(es), r)
<1> SUFFICES ASSUME NEW i \in 1..Len(Tail(es)), Tail(es)[i].kind = "down", Tail(es)[i].id = r
             PROVE  Upped(Tail(es), r, i)
  BY DEF Downs
<1>1. i + 1 \in 1..Len(es) /\ es[i + 1] = Tail(es)[i]
  OBVIOUS
<1>2. Upped(es, r, i + 1)
  BY <1>1 DEF Downs
<1> QED  BY <1>2, UppedTail

LEMMA UpAppended ==
  ASSUME NEW es \in Seq(KeyEvents), NEW r \in Nat, NEW e \in KeyEvents, e.kind = "up", e.id = r
  PROVE  Downs(Append(es, e), r) /\ Upped(Append(es, e), r, 0)
<1>1. Len(es) + 1 \in 1..Len(Append(es, e)) /\ Append(es, e)[Len(es) + 1] = e
  OBVIOUS
<1>2. Upped(Append(es, e), r, 0)
  BY <1>1 DEF Upped
<1>3. ASSUME NEW i \in 1..Len(Append(es, e)), Append(es, e)[i].kind = "down"
      PROVE  Upped(Append(es, e), r, i)
  <2>1. i < Len(es) + 1
    BY <1>1, <1>3
  <2> QED  BY <1>1, <2>1 DEF Upped
<1> QED  BY <1>2, <1>3 DEF Downs

LEMMA EscapeAppended ==
  ASSUME NEW es \in Seq(KeyEvents), NEW r \in Nat, NEW e \in KeyEvents, e.kind = "escape"
  PROVE  /\ Downs(es, r) => Downs(Append(es, e), r)
         /\ Upped(es, r, 0) => Upped(Append(es, e), r, 0)
<1>1. /\ Len(Append(es, e)) = Len(es) + 1 /\ Append(es, e)[Len(es) + 1] = e
      /\ \A i \in 1..Len(es) : Append(es, e)[i] = es[i]
  OBVIOUS
<1>2. ASSUME NEW i \in Nat, Upped(es, r, i) PROVE Upped(Append(es, e), r, i)
  <2>1. PICK j \in 1..Len(es) : i < j /\ es[j].kind = "up" /\ es[j].id = r
    BY <1>2 DEF Upped
  <2>2. j \in 1..Len(Append(es, e)) /\ Append(es, e)[j] = es[j]
    BY <1>1
  <2> QED  BY <2>1, <2>2 DEF Upped
<1>3. ASSUME Downs(es, r) PROVE Downs(Append(es, e), r)
  <2> SUFFICES ASSUME NEW i \in 1..Len(Append(es, e)),
                      Append(es, e)[i].kind = "down", Append(es, e)[i].id = r
               PROVE  Upped(Append(es, e), r, i)
    BY DEF Downs
  <2>1. i \in 1..Len(es) /\ es[i].kind = "down" /\ es[i].id = r
    BY <1>1
  <2>2. Upped(es, r, i)
    BY <1>3, <2>1 DEF Downs
  <2> QED  BY <1>2, <2>2
<1> QED  BY <1>2, <1>3

\* The steps, as far as the keys go.
KeysStill ==
  /\ UNCHANGED <<key, registered, current, recordId, events, blind>>
  /\ Holding' => Holding /\ live'.behavior = live.behavior
  /\ ctl = "idle" /\ ~live.on => ctl' = "idle" /\ ~live'.on
KeysMove ==
  \/ PressKey \/ ReleaseKey \/ PressEscape \/ BeginCapture \/ CancelCapture \/ CommitHotkey
  \/ IgnoreEvent \/ PressRefused \/ PressStarts \/ Release \/ Cancel

LEMMA KeysStillOrMove ==
  ASSUME Shapes, [FNext]_<<vars, feedbackVars>> PROVE KeysStill \/ KeysMove
<1> USE DEF KeysStill, Holding, keyVars, Shapes, Ending
<1>1. CASE UNCHANGED <<vars, feedbackVars>>
  BY <1>1 DEF vars
<1>2. CASE SwitchBehavior \/ \E d \in Devices : SwitchOutput(d) \/ ToggleMute(d)
  BY <1>2 DEF SwitchBehavior, SwitchOutput, ToggleMute
<1>3. CASE PolishingArrives \/ \E c \in Contents : Copies(c)
  BY <1>3 DEF PolishingArrives, Copies
<1>4. CASE Settle \/ HoldEnds
  BY <1>4 DEF Settle, FinishReturns, PostKeys, Restored, HoldEnds, vars
<1>5. CASE Unavailable \/ Cancelled \/ AwaitsText \/ Ended
  BY <1>5, NoLiveIsTyped DEF Unavailable, MicUnavailable, Cancelled, CancelEnds, AwaitsText, Stopped,
     Ended, Finished, Joined
<1>6. CASE MicOpens \/ MicSilent \/ GaveUp
  BY <1>6 DEF MicOpens, MicSilent, GaveUp, Joined
<1>7. CASE MicLive
  BY <1>7 DEF MicLive
<1>8. CASE FMonitor
  BY <1>8 DEF FMonitor, Monitor, SendChunk, MonitorEnds
<1>9. CASE Apply
  BY <1>9 DEF Apply, ApplyPhase
<1> QED
  BY <1>1, <1>2, <1>3, <1>4, <1>5, <1>6, <1>7, <1>8, <1>9
  DEF FNext, FUser, FControl, Window, User, OtherControl, Refused, Starts, KeysMove

LEMMA KeysHold ==
  ASSUME Shapes, Keys, KeysStill \/ KeysMove PROVE Keys'
<1> USE DEF Keys, keyVars
<1>1. CASE KeysStill
  BY <1>1 DEF KeysStill
<1>2. CASE PressKey
  BY <1>2 DEF PressKey, KeyEvents
<1>3. CASE ReleaseKey
  <2>1. events' \in Seq(KeyEvents)
    <3>1. PICK e \in KeyEvents : e = [kind |-> "up", id |-> current]
      BY DEF KeyEvents
    <3>2. events' = IF key.tracked THEN Append(events, e) ELSE events
      BY <1>3, <3>1 DEF ReleaseKey
    <3> QED  BY <3>2
  <2> QED  BY <1>3, <2>1 DEF ReleaseKey
<1>4. CASE PressEscape
  BY <1>4 DEF PressEscape, KeyEvents
<1>5. CASE BeginCapture
  BY <1>5 DEF BeginCapture
<1>7. CASE CancelCapture
  BY <1>7 DEF CancelCapture
<1>8. CASE CommitHotkey
  BY <1>8 DEF CommitHotkey
<1>6. CASE IgnoreEvent \/ PressRefused \/ PressStarts \/ Release \/ Cancel
  <2>1. events # <<>> /\ events' = Tail(events) /\ UNCHANGED <<key, registered, current, recordId>>
    BY <1>6 DEF IgnoreEvent, PressRefused, PressStarts, Release, Cancel, Take
  <2> QED  BY <2>1
<1> QED  BY <1>1, <1>2, <1>3, <1>4, <1>5, <1>6, <1>7, <1>8 DEF KeysMove

\* An event is taken: none is left that should not be, and a dictation that is
\* still to be ended by its key loses no release.
LEMMA TakesEvent ==
  ASSUME Shapes, Keys, Held, events # <<>>, events' = Tail(events),
         UNCHANGED <<key, registered, recordId, blind>>,
         Head(events).kind = "up" /\ Head(events).id = recordId /\ Holding' => live'.behavior # "Hold",
         Holding' => \/ Holding /\ live'.behavior = live.behavior
                     \/ Head(events).kind = "down" /\ Head(events).id = recordId,
         ctl = "idle" /\ ~live.on /\ Head(events).kind = "escape" => ctl' = "idle" /\ ~live'.on
  PROVE  Held'
<1> SUFFICES ASSUME ~blind PROVE Held'
  BY DEF Held
<1> USE DEF Keys
<1>1. Head(events) = events[1] /\ 1 \in 1..Len(events)
  OBVIOUS
<1>2. ~registered' => /\ ctl' = "idle" /\ ~live'.on
                      /\ \A i \in 1..Len(events') : events'[i].kind = "escape"
  BY <1>1 DEF Held
<1>3. key'.tracked \/ Downs(events', recordId')
  BY DownsTail DEF Held
<1>4. ASSUME Holding', live'.behavior = "Hold", ~key.tracked PROVE Upped(events', recordId', 0)
  <2>1. CASE Holding /\ live'.behavior = live.behavior
    <3>1. Upped(events, recordId, 0)
      BY <1>4, <2>1 DEF Held
    <3>2. PICK j \in 1..Len(events) : events[j].kind = "up" /\ events[j].id = recordId
      BY <3>1 DEF Upped
    <3>3. j # 1
      BY <1>1, <1>4, <3>2
    <3>4. Upped(events, recordId, 0 + 1)
      BY <3>2, <3>3 DEF Upped
    <3> QED  BY <3>4, UppedTail
  <2>2. CASE Head(events).kind = "down" /\ Head(events).id = recordId
    <3>1. Upped(events, recordId, 0 + 1)
      BY <1>1, <1>4, <2>2 DEF Held, Downs
    <3> QED  BY <3>1, UppedTail
  <2> QED  BY <1>4, <2>1, <2>2
<1> QED  BY <1>2, <1>3, <1>4 DEF Held

LEMMA HeldHolds ==
  ASSUME Shapes, Keys, Held, KeysStill \/ KeysMove PROVE Held'
<1> USE DEF Keys
<1>1. CASE KeysStill
  BY <1>1 DEF KeysStill, Held
<1>2. CASE PressKey
  <2>1. key'.tracked /\ registered'
    BY <1>2 DEF PressKey
  <2> QED  BY <2>1 DEF Held
<1>3. CASE ReleaseKey
  <2>0. UNCHANGED <<registered, recordId, current, blind, ctl, live>> /\ UNCHANGED Holding
    BY <1>3 DEF ReleaseKey, Holding
  <2>1. CASE key.tracked
    <3>1. PICK e \in KeyEvents : e.kind = "up" /\ e.id = recordId /\ events' = Append(events, e)
      BY <1>3, <2>1 DEF ReleaseKey, KeyEvents
    <3>2. registered'
      BY <2>0, <2>1
    <3> QED  BY <2>0, <3>1, <3>2, UpAppended DEF Held
  <2>2. CASE ~key.tracked
    BY <1>3, <2>0, <2>2 DEF ReleaseKey, Held, Holding
  <2> QED  BY <2>1, <2>2
<1>4. CASE PressEscape
  <2>0. UNCHANGED <<key, registered, recordId, blind, ctl, live>> /\ UNCHANGED Holding
    BY <1>4 DEF PressEscape, Holding, keyVars
  <2>1. PICK e \in KeyEvents : e.kind = "escape" /\ events' = Append(events, e)
    BY <1>4 DEF PressEscape, KeyEvents
  <2>2. (\A i \in 1..Len(events) : events[i].kind = "escape") =>
           \A i \in 1..Len(events') : events'[i].kind = "escape"
    BY <2>1
  <2> QED  BY <2>0, <2>1, <2>2, EscapeAppended DEF Held
<1>5. CASE BeginCapture
  <2>1. SUFFICES ASSUME ~blind' PROVE Held'
    BY DEF Held
  <2>2. events' = <<>> /\ ctl' = "idle" /\ ~live'.on
    BY <1>5, <2>1 DEF BeginCapture
  <2> QED  BY <2>2 DEF Held, Downs, Holding
<1>6. CASE CancelCapture
  BY <1>6 DEF CancelCapture, Held, Holding
<1>7. CASE CommitHotkey
  <2>1. SUFFICES ASSUME ~blind' PROVE Held'
    BY DEF Held
  <2>2. ctl' = "idle" /\ ~live'.on /\ registered' /\ \A i \in 1..Len(events') : events'[i].kind = "escape"
    BY <1>7, <2>1 DEF CommitHotkey, Held
  <2> QED  BY <2>2 DEF Held, Downs, Holding
<1>8. CASE IgnoreEvent
  <2>1. /\ events # <<>> /\ events' = Tail(events)
        /\ UNCHANGED <<key, registered, recordId, blind, ctl, live>> /\ UNCHANGED Holding
    BY <1>8 DEF IgnoreEvent, Take, keyVars, Holding
  <2>2. ctl = "idle" /\ (Head(events).kind = "up" =>
           Head(events).id # recordId \/ ~live.on \/ live.behavior # "Hold")
    BY <1>8 DEF IgnoreEvent, Take, OurChord, EndsOnKeyUp
  <2> QED  BY <2>1, <2>2, TakesEvent DEF Holding
<1>9. CASE PressRefused
  BY <1>9, TakesEvent DEF PressRefused, Take, OurChord, keyVars, Holding
<1>10. CASE PressStarts
  BY <1>10, TakesEvent DEF PressStarts, Take, OurChord, keyVars, Holding
<1>11. CASE Release
  BY <1>11, TakesEvent DEF Release, Take, OurChord, keyVars, Holding, Shapes
<1>12. CASE Cancel
  BY <1>12, TakesEvent DEF Cancel, Take, keyVars, Holding, Shapes
<1> QED
  BY <1>1, <1>2, <1>3, <1>4, <1>5, <1>6, <1>7, <1>8, <1>9, <1>10, <1>11, <1>12 DEF KeysMove

\* A Hold dictation that is live with nothing left to handle has its chord held
\* and tracked, so its release will end it (session.rs key_up), for any number of
\* presses and changes of behavior, chord and devices. It says nothing from a
\* capture that began while the phase lagged behind the keys (settings.rs
\* 1431-1434, which may strand a dictation) to the next press of the chord.
THEOREM HoldsAreReleased == FSpec => []HoldHasItsKey
<1>1. FInit => Keys /\ Held
  <2> SUFFICES ASSUME FInit PROVE Keys /\ Held
    OBVIOUS
  <2>1. Keys /\ registered /\ events = <<>>
    BY DEF FInit, Init, Keys
  <2> QED  BY <2>1, NoLiveIsTyped DEF FInit, Init, Held, Downs, Holding
<1>2. Shapes /\ Keys /\ Held /\ [FNext]_<<vars, feedbackVars>> => (Keys /\ Held)'
  BY KeysStillOrMove, KeysHold, HeldHolds
<1>3. Keys /\ Held => HoldHasItsKey
  BY DEF Keys, Held, Holding, Upped, HoldHasItsKey
<1>4. IInv => Shapes
  BY DEF IInv
<1> QED  BY <1>1, <1>2, <1>3, <1>4, Inductive, PTL DEF FSpec

-----------------------------------------------------------------------------
(* What the phase events in the channel will make of the pill *)

Phases == {"Idle", "Arming", "Recording", "Transcribing", "Polishing"}
Kinds  == {"Armed", "Started", "Stopped", "Polishing", "Ended"}
Views  == [phase : Phases, outcome : Outcome \cup {"none"}, told : Nat]

\* Event e, with the verdicts vs in the channel, turns view a into view b. An
\* event comes only when it has something to change; a Polishing may be late.
Follows(a, e, b, vs) ==
  \/ /\ e = "Armed" /\ a.phase = "Idle"
     /\ b.phase = "Arming" /\ b.outcome = "none" /\ b.told = a.told
  \/ /\ e = "Started" /\ a.phase = "Arming"
     /\ b.phase = "Recording" /\ b.outcome = a.outcome /\ b.told = a.told
  \/ /\ e = "Stopped" /\ a.phase = "Recording"
     /\ b.phase = "Transcribing" /\ b.outcome = a.outcome /\ b.told = a.told
  \/ /\ e = "Polishing"
     /\ b.phase = IF a.phase = "Transcribing" THEN "Polishing" ELSE a.phase
     /\ b.outcome = a.outcome /\ b.told = a.told
  \/ /\ e = "Ended" /\ a.phase # "Idle"
     /\ b.told = a.told + 1 /\ b.told <= Len(vs)
     /\ b.phase = "Idle" /\ b.outcome = vs[b.told]

\* The views t that the events es lead through, from phase p and outcome o.
Path(t, p, o, es, vs) ==
  /\ t \in [1..Len(es) + 1 -> Views]
  /\ t[1].phase = p /\ t[1].outcome = o /\ t[1].told = 0
  /\ \A i \in 1..Len(es) : Follows(t[i], es[i], t[i + 1], vs)
  /\ \A i, j \in 1..Len(es) + 1 : i <= j => t[i].told <= t[j].told
  /\ t[Len(es) + 1].told = Len(vs)

LEMMA PathExtends ==
  ASSUME NEW es \in Seq(Kinds), NEW vs \in Seq(Outcome), NEW ws \in Seq(Outcome), NEW p, NEW o, NEW t,
         Path(t, p, o, es, vs),
         NEW e \in Kinds, NEW b \in Views, Follows(t[Len(es) + 1], e, b, ws), b.told = Len(ws),
         Len(vs) <= Len(ws), \A i \in 1..Len(vs) : ws[i] = vs[i]
  PROVE  \E u : Path(u, p, o, Append(es, e), ws) /\ u[Len(es) + 2] = b
<1> DEFINE n == Len(es) + 1
           u == [i \in 1..n + 1 |-> IF i <= n THEN t[i] ELSE b]
<1>1. /\ Len(Append(es, e)) = n /\ n \in Nat /\ n >= 1 /\ Append(es, e)[n] = e
      /\ \A i \in 1..Len(es) : Append(es, e)[i] = es[i]
  OBVIOUS
<1>2. t \in [1..n -> Views] /\ t[n].told = Len(vs)
  BY DEF Path
<1>3. u \in [1..n + 1 -> Views] /\ u[n + 1] = b /\ \A i \in 1..n : u[i] = t[i]
  BY <1>1, <1>2
<1> HIDE DEF u
<1>4. \A i \in 1..n : Follows(u[i], Append(es, e)[i], u[i + 1], ws)
  <2> TAKE i \in 1..n
  <2>1. CASE i = n
    BY <1>1, <1>3, <2>1
  <2>2. CASE i # n
    <3>1. Follows(t[i], es[i], t[i + 1], vs) /\ i \in 1..Len(es) /\ i + 1 \in 1..n
      BY <1>1, <2>2 DEF Path
    <3>2. t[i] \in Views /\ t[i + 1] \in Views
      BY <1>1, <1>2, <3>1
    <3>3. Follows(t[i], es[i], t[i + 1], ws)
      BY <3>1, <3>2 DEF Follows, Views
    <3> QED  BY <1>1, <1>3, <3>1, <3>3
  <2> QED  BY <2>1, <2>2
<1>5. \A i, j \in 1..n + 1 : i <= j => u[i].told <= u[j].told
  <2> TAKE i, j \in 1..n + 1
  <2>1. CASE j <= n
    <3>1. i <= j => i \in 1..n /\ t[i].told <= t[j].told
      BY <1>1, <2>1 DEF Path
    <3> QED  BY <1>1, <1>3, <2>1, <3>1
  <2>2. CASE j = n + 1 /\ i <= n
    <3>1. t[i].told <= t[n].told
      BY <1>1, <2>2 DEF Path
    <3>2. t[i].told \in Nat
      BY <1>1, <1>2, <2>2 DEF Views
    <3> QED  BY <1>1, <1>2, <1>3, <2>2, <3>1, <3>2
  <2>3. CASE i = n + 1 /\ j = n + 1
    BY <1>3, <2>3 DEF Views
  <2> QED  BY <1>1, <2>1, <2>2, <2>3
<1>6. u[1].phase = p /\ u[1].outcome = o /\ u[1].told = 0
  BY <1>1, <1>3 DEF Path
<1>7. Len(Append(es, e)) + 1 = n + 1 /\ Len(es) + 2 = n + 1
  BY <1>1
<1>8. Path(u, p, o, Append(es, e), ws)
  BY <1>3, <1>4, <1>5, <1>6, <1>7, <1>1 DEF Path
<1> QED  BY <1>3, <1>7, <1>8

\* Past the first event, a path leads to the same end.
Advances(t, es, ws) ==
  \E u : /\ Path(u, t[2].phase, t[2].outcome, Tail(es), ws)
         /\ u[Len(Tail(es)) + 1].phase = t[Len(es) + 1].phase
         /\ u[Len(Tail(es)) + 1].outcome = t[Len(es) + 1].outcome

LEMMA PathAdvances ==
  ASSUME NEW es \in Seq(Kinds), es # <<>>, NEW vs \in Seq(Outcome), NEW ws \in Seq(Outcome), NEW p, NEW o,
         NEW t, Path(t, p, o, es, vs),
         ws = IF Head(es) = "Ended" THEN Tail(vs) ELSE vs
  PROVE  Advances(t, es, ws)
<1> DEFINE n == Len(es)
           d == IF Head(es) = "Ended" THEN 1 ELSE 0
           u == [i \in 1..n |-> [phase |-> t[i + 1].phase, outcome |-> t[i + 1].outcome,
                                 told |-> t[i + 1].told - d]]
<1>1. /\ n \in Nat /\ n >= 1 /\ Len(Tail(es)) = n - 1 /\ Head(es) = es[1]
      /\ \A i \in 1..n - 1 : Tail(es)[i] = es[i + 1]
      /\ d \in {0, 1}
  OBVIOUS
<1>2. t \in [1..n + 1 -> Views] /\ \A i \in 1..n + 1 : t[i] \in Views /\ t[i].told \in Nat
  BY DEF Path, Views
<1>3. Follows(t[1], es[1], t[2], vs) /\ t[1].told = 0
  BY <1>1 DEF Path
<1>4. t[2].told = d /\ (d = 1 => Len(vs) >= 1)
  BY <1>1, <1>2, <1>3 DEF Follows, Kinds
<1>5. \A i \in 2..n + 1 : t[i].told >= d
  BY <1>1, <1>2, <1>4 DEF Path
<1>6. Len(ws) = Len(vs) - d /\ \A k \in 1..Len(ws) : ws[k] = vs[k + d]
  BY <1>1, <1>4
<1>7. \A i \in 1..n : /\ u[i] \in Views
                      /\ u[i].phase = t[i + 1].phase /\ u[i].outcome = t[i + 1].outcome
                      /\ u[i].told = t[i + 1].told - d
  BY <1>1, <1>2, <1>5 DEF Views
<1>8. u \in [1..n -> Views]
  BY <1>7
<1> HIDE DEF u, d
<1>9. \A i \in 1..n - 1 : Follows(u[i], Tail(es)[i], u[i + 1], ws)
  <2> TAKE i \in 1..n - 1
  <2>1. Follows(t[i + 1], es[i + 1], t[i + 2], vs) /\ Tail(es)[i] = es[i + 1]
    BY <1>1 DEF Path
  <2>2. /\ u[i].phase = t[i + 1].phase /\ u[i].outcome = t[i + 1].outcome
        /\ u[i].told = t[i + 1].told - d
        /\ u[i + 1].phase = t[i + 2].phase /\ u[i + 1].outcome = t[i + 2].outcome
        /\ u[i + 1].told = t[i + 2].told - d
    BY <1>1, <1>7
  <2>3. t[i + 1].told >= d /\ t[i + 1].told \in Nat /\ t[i + 2].told \in Nat
    BY <1>1, <1>2, <1>5
  <2> HIDE DEF Kinds
  <2> QED
    <3>1. CASE es[i + 1] = "Ended"
      <4>1. /\ t[i + 1].phase # "Idle" /\ t[i + 2].told = t[i + 1].told + 1 /\ t[i + 2].told <= Len(vs)
            /\ t[i + 2].phase = "Idle" /\ t[i + 2].outcome = vs[t[i + 2].told]
        BY <2>1, <3>1 DEF Follows
      <4>2. u[i + 1].told \in 1..Len(ws)
        BY <1>1, <1>6, <2>2, <2>3, <4>1
      <4>3. ws[u[i + 1].told] = vs[u[i + 1].told + d]
        BY <1>6, <4>2
      <4>4. u[i + 1].told + d = t[i + 2].told
        BY <1>1, <2>2, <2>3
      <4>5. u[i + 1].told = u[i].told + 1
        BY <1>1, <2>2, <2>3, <4>1
      <4> QED  BY <2>1, <2>2, <3>1, <4>1, <4>2, <4>3, <4>4, <4>5 DEF Follows
    <3>2. CASE es[i + 1] # "Ended"
      <4>1. t[i + 2].told = t[i + 1].told
        BY <2>1, <3>2 DEF Follows
      <4>2. u[i + 1].told = u[i].told
        BY <2>2, <4>1
      <4> QED  BY <2>1, <2>2, <3>2, <4>2 DEF Follows
    <3> QED  BY <3>1, <3>2
<1>10. \A i, j \in 1..n : i <= j => u[i].told <= u[j].told
  <2> TAKE i, j \in 1..n
  <2>1. i <= j => t[i + 1].told <= t[j + 1].told
    BY <1>1 DEF Path
  <2> QED  BY <1>1, <1>2, <1>7, <2>1
<1>11. u[n].told = Len(ws)
  BY <1>1, <1>6, <1>7 DEF Path
<1>12. u[1].told = 0
  BY <1>1, <1>4, <1>7
<1>13. Path(u, t[2].phase, t[2].outcome, Tail(es), ws)
  BY <1>1, <1>7, <1>8, <1>9, <1>10, <1>11, <1>12 DEF Path
<1> QED  BY <1>1, <1>7, <1>13 DEF Advances

\* No dictation is at hand.
AtRest == ctl = "idle" /\ ~live.on

\* When all events are applied, the pill will show view b, which tells what the
\* control thread is at and, at rest, what became of the last words.
Ahead(b) ==
  /\ AtRest \/ ctl = "opening" => b.phase = "Idle"
  /\ live.on \/ ctl \in {"stopping", "cancelling"} => b.phase = "Recording"
  /\ ctl \in {"arming", "giving up"} => b.phase = "Arming"
  /\ ctl = "finishing" => IF answer = "none" THEN b.phase = "Arming"
                          ELSE b.phase \in {"Transcribing", "Polishing"}
  /\ AtRest => (b.outcome = "pasted" <=> typed)

Telling ==
  /\ answer \in {"none", "awaited"} \cup InHand \cup Outcome
  /\ typed \in BOOLEAN
  /\ answer # "none" => ctl = "finishing"
  /\ ~AtRest => (typed <=> answer \in {"posted", "pasted"})

Leading ==
  /\ phases \in Seq(Kinds) /\ verdicts \in Seq(Outcome)
  /\ phase \in Phases /\ outcome \in Outcome \cup {"none"}
  /\ \E t : Path(t, phase, outcome, phases, verdicts) /\ Ahead(t[Len(phases) + 1])

Standing ==
  /\ pill \in [open : {"none", "shown", "failed"}, held : BOOLEAN]
  /\ OneStandingPill
  /\ phase # "Idle" => pill.open # "none"
  /\ escape = Cancellable(phase)

\* The steps, as far as the pill goes.
Emissions ==
  \/ Refused \/ Unavailable \/ Cancelled \/ AwaitsText \/ Ended
  \/ (MicOpens \/ MicLive \/ PolishingArrives) /\ UNCHANGED feedbackVars
Unsaid == UNCHANGED <<phases, verdicts, phase, outcome>>

LEMMA TellingHolds ==
  ASSUME Shapes, Recorder, Telling, [FNext]_<<vars, feedbackVars>> PROVE Telling'
<1> USE DEF Telling, AtRest, InHand, Outcome, Recorder, feedbackVars, textVars, Shapes, Ending
<1>1. CASE UNCHANGED <<vars, feedbackVars>>
  BY <1>1 DEF vars
<1>2. CASE (User \/ Window \/ PolishingArrives) /\ UNCHANGED feedbackVars
  BY <1>2 DEF User, PressKey, ReleaseKey, PressEscape, Window, SwitchBehavior, BeginCapture,
              CancelCapture, CommitHotkey, SwitchOutput, ToggleMute, PolishingArrives
<1>3. CASE \E c \in Contents : Copies(c)
  <2>1. UNCHANGED <<answer, typed, ctl, live>>
    BY <1>3 DEF Copies
  <2> QED  BY <2>1
<1>4. CASE FinishReturns
  BY <1>4 DEF FinishReturns, Classified, vars
<1>5. CASE PostKeys
  <2>1. UNCHANGED <<ctl, live>> /\ ctl = "finishing" /\ ~typed
    BY <1>5 DEF PostKeys, vars
  <2>2. CASE answer' = "posted" /\ typed' = TRUE
    BY <2>1, <2>2
  <2>3. CASE answer' = "unposted" /\ typed' = typed
    BY <2>1, <2>3
  <2> QED  BY <1>5, <2>2, <2>3 DEF PostKeys
<1>6. CASE Restored
  BY <1>6 DEF Restored, Settled, vars
<1>7. CASE Refused
  BY <1>7 DEF Refused, PressRefused, Take
<1>8. CASE Starts
  BY <1>8 DEF Starts, PressStarts, Take
<1>9. CASE Unavailable \/ Cancelled
  BY <1>9, NoLiveIsTyped DEF Unavailable, MicUnavailable, Cancelled, CancelEnds, Joined
<1>10. CASE AwaitsText
  BY <1>10 DEF AwaitsText, Stopped, Joined
<1>11. CASE Ended
  BY <1>11, NoLiveIsTyped DEF Ended, Finished
<1>12. CASE (IgnoreEvent \/ Release \/ Cancel) /\ UNCHANGED feedbackVars
  BY <1>12 DEF IgnoreEvent, Take, Release, Cancel
<1>13. CASE (MicOpens \/ MicLive \/ MicSilent \/ GaveUp) /\ UNCHANGED feedbackVars
  BY <1>13 DEF MicOpens, MicLive, MicSilent, GaveUp, Joined
<1>14. CASE FMonitor
  BY <1>14 DEF FMonitor, Monitor, SendChunk, MonitorEnds
<1>15. CASE Apply
  BY <1>15 DEF Apply, ApplyPhase
<1>16. CASE HoldEnds
  BY <1>16 DEF HoldEnds, vars
<1> QED
  BY <1>1, <1>2, <1>3, <1>4, <1>5, <1>6, <1>7, <1>8, <1>9, <1>10, <1>11, <1>12, <1>13, <1>14, <1>15,
     <1>16 DEF FNext, FUser, FControl, Settle, OtherControl

\* A step that sends no event changes nothing about where the events lead.
LEMMA NothingEmitted ==
  ASSUME Shapes, Recorder, Telling, [FNext]_<<vars, feedbackVars>>, ~Emissions, ~Apply,
         NEW b \in Views, Ahead(b)
  PROVE  Unsaid /\ Ahead(b)'
<1> USE DEF Unsaid, Ahead, AtRest, Telling, InHand, Outcome, Recorder, feedbackVars, textVars, shownVars,
            uiVars, Shapes, Ending
<1>1. CASE UNCHANGED <<vars, feedbackVars>>
  BY <1>1 DEF vars
<1>2. CASE (User \/ Window) /\ UNCHANGED feedbackVars
  BY <1>2 DEF User, PressKey, ReleaseKey, PressEscape, Window, SwitchBehavior, BeginCapture,
              CancelCapture, CommitHotkey, SwitchOutput, ToggleMute
<1>3. CASE \E c \in Contents : Copies(c)
  <2>1. UNCHANGED <<answer, typed, ctl, live>> /\ Unsaid
    BY <1>3 DEF Copies
  <2> QED  BY <2>1
<1>4. CASE FinishReturns
  BY <1>4 DEF FinishReturns, Classified, vars
<1>5. CASE PostKeys
  BY <1>5 DEF PostKeys, vars
<1>6. CASE Restored
  BY <1>6 DEF Restored, Settled, vars
<1>8. CASE Starts
  BY <1>8 DEF Starts, PressStarts, Take
<1>12. CASE (IgnoreEvent \/ Release \/ Cancel) /\ UNCHANGED feedbackVars
  BY <1>12 DEF IgnoreEvent, Take, Release, Cancel
<1>13. CASE (MicSilent \/ GaveUp) /\ UNCHANGED feedbackVars
  BY <1>13 DEF MicSilent, GaveUp, Joined
<1>14. CASE FMonitor
  BY <1>14 DEF FMonitor, Monitor, SendChunk, MonitorEnds
<1>16. CASE HoldEnds
  BY <1>16 DEF HoldEnds, vars
<1> QED
  BY <1>1, <1>2, <1>3, <1>4, <1>5, <1>6, <1>8, <1>12, <1>13, <1>14, <1>16
  DEF FNext, FUser, FControl, Settle, OtherControl, Emissions

LEMMA Emitted ==
  ASSUME Leading, NEW e \in Kinds, NEW ws \in Seq(Outcome),
         phases' = Append(phases, e), verdicts' = ws, UNCHANGED <<phase, outcome>>,
         Len(verdicts) <= Len(ws), \A i \in 1..Len(verdicts) : ws[i] = verdicts[i],
         \A a \in Views : Ahead(a) /\ a.told = Len(verdicts) =>
            \E b \in Views : Follows(a, e, b, ws) /\ b.told = Len(ws) /\ Ahead(b)'
  PROVE  Leading'
<1>1. PICK t : Path(t, phase, outcome, phases, verdicts) /\ Ahead(t[Len(phases) + 1])
  BY DEF Leading
<1>2. PICK a \in Views : a = t[Len(phases) + 1] /\ a.told = Len(verdicts)
  BY <1>1 DEF Path, Leading
<1>3. PICK b \in Views : Follows(a, e, b, ws) /\ b.told = Len(ws) /\ Ahead(b)'
  BY <1>1, <1>2
<1>4. PICK u : Path(u, phase, outcome, Append(phases, e), ws) /\ u[Len(phases) + 2] = b
  BY <1>1, <1>2, <1>3, PathExtends DEF Leading
<1>5. Len(phases') + 1 = Len(phases) + 2 /\ phases' \in Seq(Kinds)
  BY DEF Leading
<1>6. Path(u, phase', outcome', phases', verdicts') /\ u[Len(phases') + 1] = b
  BY <1>4, <1>5
<1>7. Ahead(u[Len(phases) + 1])'
  BY <1>3, <1>6 DEF Ahead
<1>8. ws = verdicts' /\ phase' \in Phases /\ outcome' \in Outcome \cup {"none"}
  BY DEF Leading
<1> QED  BY <1>5, <1>6, <1>7, <1>8 DEF Leading

LEMMA ArmedAndEnded ==
  ASSUME Leading, NEW v \in Outcome,
         phases' = phases \o <<"Armed", "Ended">>, verdicts' = Append(verdicts, v),
         UNCHANGED <<phase, outcome>>,
         \A a \in Views : Ahead(a) => a.phase = "Idle",
         \A b \in Views : b.phase = "Idle" /\ b.outcome = v => Ahead(b)'
  PROVE  Leading'
<1>1. PICK t : Path(t, phase, outcome, phases, verdicts) /\ Ahead(t[Len(phases) + 1])
  BY DEF Leading
<1>2. PICK a \in Views : a = t[Len(phases) + 1] /\ a.told = Len(verdicts) /\ a.phase = "Idle"
  BY <1>1 DEF Path, Leading
<1>15. phases \in Seq(Kinds) /\ verdicts \in Seq(Outcome) /\ Len(verdicts) \in Nat
  BY DEF Leading
<1>3. PICK b \in Views : b = [phase |-> "Arming", outcome |-> "none", told |-> Len(verdicts)]
  BY <1>15 DEF Views, Phases
<1>4. Follows(a, "Armed", b, verdicts) /\ "Armed" \in Kinds /\ "Ended" \in Kinds
  BY <1>2, <1>3 DEF Follows, Kinds
<1>5. PICK es \in Seq(Kinds) : es = Append(phases, "Armed")
  <2>1. Append(phases, "Armed") \in Seq(Kinds)
    BY <1>4, <1>15
  <2> QED  BY <2>1
<1>6. PICK u : Path(u, phase, outcome, es, verdicts) /\ u[Len(es) + 1] = b
  <2>1. Len(es) + 1 = Len(phases) + 2
    BY <1>5 DEF Leading
  <2>2. PICK u : Path(u, phase, outcome, Append(phases, "Armed"), verdicts) /\ u[Len(phases) + 2] = b
    <3>1. Len(verdicts) <= Len(verdicts) /\ b.told = Len(verdicts)
      BY <1>3, <1>15
    <3> QED  BY <1>1, <1>2, <1>4, <1>15, <3>1, PathExtends
  <2> QED  BY <1>5, <2>1, <2>2
<1>7. PICK ws \in Seq(Outcome) : ws = Append(verdicts, v)
  <2>1. Append(verdicts, v) \in Seq(Outcome)
    BY <1>15
  <2> QED  BY <2>1
<1>8. /\ Len(ws) = Len(verdicts) + 1 /\ ws[Len(ws)] = v /\ Len(verdicts) <= Len(ws)
      /\ \A i \in 1..Len(verdicts) : ws[i] = verdicts[i]
  BY <1>7, <1>15
<1>9. PICK c \in Views : c = [phase |-> "Idle", outcome |-> v, told |-> Len(ws)]
  <2>1. Len(ws) \in Nat
    OBVIOUS
  <2> QED  BY <2>1 DEF Views, Phases
<1>10. Follows(b, "Ended", c, ws) /\ c.told = Len(ws)
  BY <1>3, <1>8, <1>9 DEF Follows
<1>11. PICK w : Path(w, phase, outcome, Append(es, "Ended"), ws) /\ w[Len(es) + 2] = c
  <2>1. Follows(u[Len(es) + 1], "Ended", c, ws) /\ "Ended" \in Kinds
    BY <1>4, <1>6, <1>10
  <2>2. Path(u, phase, outcome, es, verdicts)
    BY <1>6
  <2>3. /\ c.told = Len(ws) /\ Len(verdicts) <= Len(ws)
        /\ \A i \in 1..Len(verdicts) : ws[i] = verdicts[i]
    BY <1>8, <1>10
  <2>4. verdicts \in Seq(Outcome)
    BY <1>15
  <2> HIDE DEF Path, Follows, Outcome, Views, Kinds
  <2> QED  BY <2>1, <2>2, <2>3, <2>4, PathExtends
<1>12. phases' = Append(es, "Ended") /\ phases' \in Seq(Kinds) /\ Len(phases') + 1 = Len(es) + 2
  BY <1>4, <1>5 DEF Leading
<1>13. Path(w, phase', outcome', phases', verdicts') /\ w[Len(phases') + 1] = c
  BY <1>7, <1>11, <1>12
<1>14. Ahead(w[Len(phases) + 1])'
  <2>1. Ahead(c)'
    BY <1>9
  <2> QED  BY <1>13, <2>1 DEF Ahead
<1>16. ws = verdicts' /\ phase' \in Phases /\ outcome' \in Outcome \cup {"none"}
  BY <1>7 DEF Leading
<1> QED  BY <1>12, <1>13, <1>14, <1>16 DEF Leading

\* An event that brings no verdict, and one that brings verdict v.
LEMMA EmittedAlone ==
  ASSUME Leading, NEW e \in Kinds \ {"Ended"}, Emit(e), UNCHANGED <<phase, outcome, verdicts>>,
         \A a \in Views : Ahead(a) =>
            \E b \in Views : Follows(a, e, b, verdicts) /\ b.told = a.told /\ Ahead(b)'
  PROVE  Leading'
<1>1. PICK ws \in Seq(Outcome) : ws = verdicts
  BY DEF Leading
<1>2. verdicts' = ws /\ Len(verdicts) <= Len(ws) /\ \A i \in 1..Len(verdicts) : ws[i] = verdicts[i]
  BY <1>1
<1>3. \A a \in Views : Ahead(a) /\ a.told = Len(verdicts) =>
         \E b \in Views : Follows(a, e, b, ws) /\ b.told = Len(ws) /\ Ahead(b)'
  BY <1>1
<1> QED  BY <1>2, <1>3, Emitted DEF Emit

LEMMA EmittedEnd ==
  ASSUME Leading, NEW v \in Outcome, Emit("Ended"), EndedAs(v), UNCHANGED <<phase, outcome>>,
         \A a \in Views : Ahead(a) => a.phase # "Idle",
         \A b \in Views : b.phase = "Idle" /\ b.outcome = v => Ahead(b)'
  PROVE  Leading'
<1>0. verdicts \in Seq(Outcome)
  BY DEF Leading
<1>1. PICK ws \in Seq(Outcome) : ws = Append(verdicts, v)
  <2>1. Append(verdicts, v) \in Seq(Outcome)
    BY <1>0
  <2> QED  BY <2>1
<1>2. /\ Len(ws) = Len(verdicts) + 1 /\ ws[Len(ws)] = v /\ Len(verdicts) \in Nat
      /\ \A i \in 1..Len(verdicts) : ws[i] = verdicts[i]
  BY <1>1 DEF Leading
<1>3. PICK b \in Views : b = [phase |-> "Idle", outcome |-> v, told |-> Len(ws)]
  <2>1. Len(ws) \in Nat
    OBVIOUS
  <2> QED  BY <2>1 DEF Views, Phases
<1>4. \A a \in Views : Ahead(a) /\ a.told = Len(verdicts) => Follows(a, "Ended", b, ws)
  BY <1>2, <1>3 DEF Follows
<1>5. b.told = Len(ws) /\ Ahead(b)'
  BY <1>3
<1>6. \A a \in Views : Ahead(a) /\ a.told = Len(verdicts) =>
         \E c \in Views : Follows(a, "Ended", c, ws) /\ c.told = Len(ws) /\ Ahead(c)'
  BY <1>4, <1>5
<1>7. "Ended" \in Kinds /\ phases' = Append(phases, "Ended") /\ verdicts' = ws /\ Len(verdicts) <= Len(ws)
  BY <1>1, <1>2 DEF Kinds, Emit, EndedAs
<1> QED  BY <1>2, <1>6, <1>7, Emitted

LEMMA EmissionsLead ==
  ASSUME Shapes, Recorder, Telling, Leading, Emissions PROVE Leading'
<1> USE DEF Telling, AtRest, InHand, Recorder, feedbackVars, shownVars, textVars, uiVars, Shapes, Ending
<1>2. CASE Refused
  <2>1. AtRest /\ AtRest' /\ ~typed' /\ ctl' = "idle" /\ ~live'.on
    BY <1>2 DEF Refused, PressRefused, Take
  <2>2. \A a \in Views : Ahead(a) => a.phase = "Idle"
    BY <2>1 DEF Ahead
  <2>3. \A b \in Views : b.phase = "Idle" /\ b.outcome = "failed" => Ahead(b)'
    BY <2>1 DEF Ahead
  <2> QED  BY <1>2, <2>2, <2>3, ArmedAndEnded DEF Refused, PressRefused, EndedAs, Outcome
<1>3. CASE Unavailable
  <2>1. ctl = "opening" /\ AtRest' /\ ~typed' /\ ctl' = "idle" /\ ~live'.on
    BY <1>3, NoLiveIsTyped DEF Unavailable, MicUnavailable
  <2>2. \A a \in Views : Ahead(a) => a.phase = "Idle"
    BY <2>1 DEF Ahead
  <2>3. \A b \in Views : b.phase = "Idle" /\ b.outcome = "failed" => Ahead(b)'
    BY <2>1 DEF Ahead
  <2> QED  BY <1>3, <2>2, <2>3, ArmedAndEnded DEF Unavailable, MicUnavailable, EndedAs, Outcome
<1>4. CASE Cancelled
  <2>1. ctl = "cancelling" /\ AtRest' /\ ~typed' /\ ctl' = "idle" /\ ~live'.on
    BY <1>4, NoLiveIsTyped DEF Cancelled, CancelEnds, Joined
  <2>2. \A a \in Views : Ahead(a) => a.phase # "Idle"
    BY <2>1 DEF Ahead
  <2>3. \A b \in Views : b.phase = "Idle" /\ b.outcome = "cancelled" => Ahead(b)'
    BY <2>1 DEF Ahead
  <2> QED  BY <1>4, <2>2, <2>3, EmittedEnd DEF Cancelled, CancelEnds, Outcome
<1>5. CASE AwaitsText
  <2>1. ctl = "stopping" /\ ~live'.on /\ ctl' = "finishing" /\ answer' = "awaited"
    BY <1>5 DEF AwaitsText, Stopped, Joined
  <2>2. ASSUME NEW a \in Views, Ahead(a)
        PROVE  \E b \in Views : Follows(a, "Stopped", b, verdicts) /\ b.told = a.told /\ Ahead(b)'
    <3>1. PICK b \in Views : b = [phase |-> "Transcribing", outcome |-> a.outcome, told |-> a.told]
      BY DEF Views, Phases
    <3>2. a.phase = "Recording"
      BY <2>1, <2>2 DEF Ahead
    <3>3. Ahead(b)'
      BY <2>1, <3>1 DEF Ahead
    <3> QED  BY <3>1, <3>2, <3>3 DEF Follows
  <2> QED  BY <1>5, <2>2, EmittedAlone DEF AwaitsText, Stopped, Kinds
<1>6. CASE Ended
  <2>1. ctl = "finishing" /\ AtRest' /\ ctl' = "idle" /\ ~live'.on /\ UNCHANGED typed /\ ~AtRest
    BY <1>6, NoLiveIsTyped DEF Ended, Finished
  <2>2. \A a \in Views : Ahead(a) => a.phase # "Idle"
    BY <2>1 DEF Ahead
  <2>3. PICK v \in Outcome : EndedAs(v) /\ (v = "pasted" <=> typed)
    <3>1. CASE answer = "none"
      BY <1>6, <2>1, <3>1 DEF Ended, Outcome
    <3>2. CASE answer \in Outcome
      BY <1>6, <2>1, <3>2 DEF Ended, Outcome
    <3> QED  BY <1>6, <3>1, <3>2 DEF Ended
  <2>4. \A b \in Views : b.phase = "Idle" /\ b.outcome = v => Ahead(b)'
    BY <2>1, <2>3 DEF Ahead
  <2> QED  BY <1>6, <2>2, <2>3, <2>4, EmittedEnd DEF Ended, Finished
<1>7. CASE MicOpens /\ UNCHANGED feedbackVars
  <2>1. ctl = "opening" /\ ~live'.on /\ ctl' = "arming"
    BY <1>7 DEF MicOpens
  <2>2. ASSUME NEW a \in Views, Ahead(a)
        PROVE  \E b \in Views : Follows(a, "Armed", b, verdicts) /\ b.told = a.told /\ Ahead(b)'
    <3>1. PICK b \in Views : b = [phase |-> "Arming", outcome |-> "none", told |-> a.told]
      BY DEF Views, Phases
    <3>2. a.phase = "Idle"
      BY <2>1, <2>2 DEF Ahead
    <3>3. Ahead(b)'
      BY <2>1, <3>1 DEF Ahead
    <3> QED  BY <3>1, <3>2, <3>3 DEF Follows
  <2> QED  BY <1>7, <2>2, EmittedAlone DEF MicOpens, Kinds
<1>8. CASE MicLive /\ UNCHANGED feedbackVars
  <2>1. ctl = "arming" /\ live'.on /\ ctl' = "idle"
    BY <1>8 DEF MicLive
  <2>2. ASSUME NEW a \in Views, Ahead(a)
        PROVE  \E b \in Views : Follows(a, "Started", b, verdicts) /\ b.told = a.told /\ Ahead(b)'
    <3>1. PICK b \in Views : b = [phase |-> "Recording", outcome |-> a.outcome, told |-> a.told]
      BY DEF Views, Phases
    <3>2. a.phase = "Arming"
      BY <2>1, <2>2 DEF Ahead
    <3>3. Ahead(b)'
      BY <2>1, <3>1 DEF Ahead
    <3> QED  BY <3>1, <3>2, <3>3 DEF Follows
  <2> QED  BY <1>8, <2>2, EmittedAlone DEF MicLive, Kinds
<1>9. CASE PolishingArrives /\ UNCHANGED feedbackVars
  <2>1. UNCHANGED <<ctl, live, answer, typed>>
    BY <1>9 DEF PolishingArrives
  <2>2. ASSUME NEW a \in Views, Ahead(a)
        PROVE  \E b \in Views : Follows(a, "Polishing", b, verdicts) /\ b.told = a.told /\ Ahead(b)'
    <3>1. PICK b \in Views :
             b = [phase |-> IF a.phase = "Transcribing" THEN "Polishing" ELSE a.phase,
                  outcome |-> a.outcome, told |-> a.told]
      BY DEF Views, Phases
    <3>3. Ahead(b)'
      BY <2>1, <2>2, <3>1 DEF Ahead
    <3> QED  BY <3>1, <3>3 DEF Follows
  <2> QED  BY <1>9, <2>2, EmittedAlone DEF PolishingArrives, Kinds
<1> QED  BY <1>2, <1>3, <1>4, <1>5, <1>6, <1>7, <1>8, <1>9 DEF Emissions

\* Applying the next event takes the first step of the path.
LEMMA NextApplied ==
  ASSUME Leading, Apply
  PROVE  /\ Leading'
         /\ phase = "Idle" /\ phase' # "Idle" => Head(phases) = "Armed"
         /\ phase # "Idle" /\ phase' = "Idle" => Head(phases) = "Ended"
         /\ Head(phases) = "Ended" => phase # "Idle" /\ phase' = "Idle" /\ outcome' \in Outcome
<1> USE DEF Leading
<1>1. PICK t : Path(t, phase, outcome, phases, verdicts) /\ Ahead(t[Len(phases) + 1])
  OBVIOUS
<1>2. /\ phases # <<>> /\ phases' = Tail(phases) /\ phase' = Shown(Head(phases))
      /\ Head(phases) = phases[1] /\ Head(phases) \in Kinds /\ 1 \in 1..Len(phases)
      /\ UNCHANGED <<ctl, live, answer, typed>>
  BY DEF Apply, ApplyPhase, textVars
<1>3. Follows(t[1], Head(phases), t[2], verdicts) /\ t[1].phase = phase /\ t[1].outcome = outcome
  BY <1>1, <1>2 DEF Path
<1>4. t[1] \in Views /\ t[2] \in Views /\ t[1].told = 0
  <2>1. 1 \in 1..Len(phases) + 1 /\ 2 \in 1..Len(phases) + 1
    BY <1>2
  <2> QED  BY <1>1, <2>1 DEF Path
<1>5. /\ verdicts' = IF Head(phases) = "Ended" THEN Tail(verdicts) ELSE verdicts
      /\ outcome' = IF Head(phases) = "Ended" THEN Head(verdicts)
                    ELSE IF Head(phases) = "Armed" THEN "none" ELSE outcome
  BY DEF Apply, SetOutcome
<1>6. Head(phases) = "Ended" => verdicts # <<>> /\ verdicts[1] = Head(verdicts) /\ Head(verdicts) \in Outcome
  BY <1>3, <1>4 DEF Follows
<1>7. phase' = t[2].phase /\ outcome' = t[2].outcome
  BY <1>2, <1>3, <1>4, <1>5, <1>6 DEF Follows, Shown, Kinds
<1>8. phases' \in Seq(Kinds) /\ verdicts' \in Seq(Outcome)
  BY <1>2, <1>5, <1>6
<1>9. PICK u : /\ Path(u, phase', outcome', phases', verdicts')
               /\ u[Len(phases') + 1].phase = t[Len(phases) + 1].phase
               /\ u[Len(phases') + 1].outcome = t[Len(phases) + 1].outcome
  <2>1. PICK ws \in Seq(Outcome) :
           ws = verdicts' /\ ws = IF Head(phases) = "Ended" THEN Tail(verdicts) ELSE verdicts
    BY <1>5, <1>8
  <2>2. Path(t, phase, outcome, phases, verdicts) /\ phases \in Seq(Kinds) /\ verdicts \in Seq(Outcome)
    BY <1>1
  <2> HIDE DEF Leading
  <2>3. Advances(t, phases, ws)
    <3>1. phases # <<>>
      BY <1>2
    <3>2. ws = IF Head(phases) = "Ended" THEN Tail(verdicts) ELSE verdicts
      BY <2>1
    <3> QED  BY <2>2, <3>1, <3>2, PathAdvances
  <2> QED  BY <1>2, <1>7, <2>1, <2>3 DEF Advances
<1>10. Ahead(u[Len(phases) + 1])'
  BY <1>1, <1>2, <1>9 DEF Ahead, AtRest
<1>11. phase' \in Phases /\ outcome' \in Outcome \cup {"none"}
  BY <1>4, <1>7 DEF Views
<1>12. Leading'
  BY <1>8, <1>9, <1>10, <1>11
<1> QED  BY <1>3, <1>5, <1>6, <1>7, <1>12 DEF Follows

LEMMA OnlyAppliedShows ==
  ASSUME [FNext]_<<vars, feedbackVars>>
  PROVE  Apply \/ HoldEnds \/ UNCHANGED <<phase, escape, outcome, pill>>
<1> USE DEF feedbackVars, shownVars, uiVars
<1>1. CASE UNCHANGED <<vars, feedbackVars>>
  BY <1>1 DEF vars
<1>2. CASE (User \/ Window \/ PolishingArrives) /\ UNCHANGED feedbackVars
  BY <1>2 DEF User, PressKey, ReleaseKey, PressEscape, Window, SwitchBehavior, BeginCapture,
              CancelCapture, CommitHotkey, SwitchOutput, ToggleMute, PolishingArrives
<1>3. CASE \E c \in Contents : Copies(c)
  BY <1>3 DEF Copies
<1>4. CASE Settle
  BY <1>4 DEF Settle, FinishReturns, PostKeys, Restored, vars
<1>5. CASE Refused \/ Starts \/ Unavailable \/ Cancelled \/ AwaitsText \/ Ended
  BY <1>5 DEF Refused, PressRefused, Starts, PressStarts, Unavailable, MicUnavailable, Cancelled,
              CancelEnds, AwaitsText, Stopped, Ended, Finished
<1>6. CASE OtherControl
  BY <1>6 DEF OtherControl, IgnoreEvent, MicOpens, MicLive, MicSilent, Release, Cancel, GaveUp
<1>7. CASE FMonitor
  BY <1>7 DEF FMonitor, Monitor, SendChunk, MonitorEnds
<1> QED
  BY <1>1, <1>2, <1>3, <1>4, <1>5, <1>6, <1>7 DEF FNext, FUser, FControl

\* A pill shows a running session, or is held to show how the last one ended.
LEMMA ViewTells ==
  ASSUME phase \in Phases, outcome \in Outcome \cup {"none"}
  PROVE  /\ View # "phase" <=> phase = "Idle" /\ outcome # "none"
         /\ phase = "Idle" => (View = "bloom" <=> outcome = "pasted")
BY DEF View, Outcome, Phases

LEMMA StandingHolds ==
  ASSUME Leading, Standing, [FNext]_<<vars, feedbackVars>> PROVE Standing'
<1>0. /\ pill \in [open : {"none", "shown", "failed"}, held : BOOLEAN]
      /\ phase \in Phases /\ outcome \in Outcome \cup {"none"}
      /\ pill.open = "shown" => phase # "Idle" /\ ~pill.held
      /\ pill.held => phase = "Idle" /\ outcome # "none"
      /\ phase # "Idle" => pill.open # "none"
  BY ViewTells DEF Leading, Standing, OneStandingPill
<1>1. CASE UNCHANGED <<phase, escape, outcome, pill>>
  BY <1>1 DEF Standing, OneStandingPill, View
<1>2. CASE HoldEnds
  <2>1. UNCHANGED <<phase, escape, outcome>> /\ pill' = [pill EXCEPT !.held = FALSE]
    BY <1>2 DEF HoldEnds, vars, uiVars
  <2>2. pill' \in [open : {"none", "shown", "failed"}, held : BOOLEAN]
    BY <1>0, <2>1
  <2>3. pill'.open = pill.open /\ ~pill'.held
    BY <1>0, <2>1
  <2> QED  BY <1>0, <2>1, <2>2, <2>3 DEF Standing, OneStandingPill
<1>3. CASE Apply
  <2>1. /\ Leading' /\ escape' = Cancellable(phase')
        /\ phase # "Idle" /\ phase' = "Idle" => Head(phases) = "Ended"
        /\ Head(phases) = "Ended" => outcome' \in Outcome
    BY <1>3, NextApplied DEF Apply, ApplyPhase
  <2>2. phase' \in Phases /\ outcome' \in Outcome \cup {"none"}
    BY <2>1 DEF Leading
  <2>3. phase' = "Idle" /\ phase # "Idle" => outcome' # "none"
    BY <2>1 DEF Outcome
  <2>4. phase' = "Idle" /\ phase = "Idle" => outcome' = outcome \/ outcome' \in Outcome
    <3>1. Head(phases) \in Kinds
      BY <1>3 DEF Leading, Apply, ApplyPhase
    <3> QED  BY <1>3, <2>1, <3>1 DEF Apply, SetOutcome, ApplyPhase, Shown, Kinds
  <2>5. /\ pill' \in [open : {"none", "shown", "failed"}, held : BOOLEAN]
        /\ pill'.open = "shown" => phase' # "Idle" /\ ~pill'.held
        /\ pill'.held => phase' = "Idle" /\ outcome' # "none"
        /\ phase' # "Idle" => pill'.open # "none"
    <3>1. Manage(phase' = "Idle")
      BY <1>3 DEF Apply
    <3>2. CASE phase' = "Idle" /\ pill.open = "shown"
      <4>1. pill' = [pill EXCEPT !.open = "none", !.held = TRUE]
        BY <3>1, <3>2 DEF Manage
      <4> QED  BY <1>0, <2>3, <3>2, <4>1
    <3>3. CASE phase' = "Idle" /\ pill.open # "shown"
      <4>1. pill' = [pill EXCEPT !.open = "none"]
        BY <3>1, <3>3 DEF Manage
      <4>2. pill.held => outcome' # "none"
        BY <1>0, <2>4, <3>3 DEF Outcome
      <4> QED  BY <1>0, <3>3, <4>1, <4>2
    <3>4. CASE phase' # "Idle" /\ pill.open # "shown"
      <4>1. PICK open \in {"shown", "failed"} : pill' = [pill EXCEPT !.open = open, !.held = FALSE]
        BY <3>1, <3>4 DEF Manage, OpenPill
      <4> QED  BY <1>0, <3>4, <4>1
    <3>5. CASE phase' # "Idle" /\ pill.open = "shown"
      <4>1. pill' = pill
        BY <3>1, <3>5 DEF Manage
      <4> QED  BY <1>0, <3>5, <4>1
    <3> QED  BY <3>2, <3>3, <3>4, <3>5
  <2>6. (View # "phase")' <=> phase' = "Idle" /\ outcome' # "none"
    BY <2>2 DEF View, Outcome
  <2> QED  BY <2>1, <2>5, <2>6 DEF Standing, OneStandingPill
<1> QED  BY <1>1, <1>2, <1>3, OnlyAppliedShows

\* An error that is shown was armed for: its pill is there, or could not be opened.
LEMMA ErrorShown ==
  ASSUME Leading, Standing, [FNext]_<<vars, feedbackVars>>,
         verdicts # <<>>, verdicts' = Tail(verdicts), outcome' = "failed"
  PROVE  pill.open = "failed" \/ pill'.held
<1>1. Apply /\ Head(phases) = "Ended"
  <2>0. verdicts \in Seq(Outcome)
    BY DEF Leading
  <2>1. verdicts' # verdicts /\ \A v \in Outcome : verdicts' # Append(verdicts, v)
    BY <2>0
  <2>2. CASE Apply
    BY <2>1, <2>2 DEF Apply, SetOutcome
  <2>3. CASE ~Apply
    <3>1. UNCHANGED verdicts \/ \E v \in Outcome : verdicts' = Append(verdicts, v)
      <4> USE <2>3 DEF feedbackVars, shownVars
      <4>1. CASE UNCHANGED <<vars, feedbackVars>>
        BY <4>1
      <4>2. CASE FUser \/ FMonitor \/ HoldEnds
        BY <4>2 DEF FUser, FMonitor, HoldEnds, Copies
      <4>3. CASE Settle \/ OtherControl
        BY <4>3 DEF Settle, FinishReturns, PostKeys, Restored, OtherControl
      <4>4. CASE Starts \/ AwaitsText
        BY <4>4 DEF Starts, AwaitsText
      <4>5. CASE Refused \/ Unavailable \/ Cancelled \/ Ended
        BY <4>5 DEF Refused, Unavailable, Cancelled, Ended, EndedAs, Outcome
      <4> QED  BY <4>1, <4>2, <4>3, <4>4, <4>5 DEF FNext, FControl
    <3> QED  BY <2>1, <3>1
  <2> QED  BY <2>2, <2>3
<1>2. phase # "Idle" /\ phase' = "Idle"
  BY <1>1, NextApplied
<1>3. pill.open \in {"shown", "failed"} /\ pill \in [open : {"none", "shown", "failed"}, held : BOOLEAN]
  BY <1>2 DEF Standing
<1>4. CASE pill.open = "shown"
  <2>1. pill' = [pill EXCEPT !.open = "none", !.held = TRUE]
    BY <1>1, <1>2, <1>4 DEF Apply, Manage
  <2> QED  BY <1>3, <2>1
<1> QED  BY <1>3, <1>4

PillInv == Shapes /\ Recorder /\ Telling /\ Leading /\ Standing

THEOREM PillInductive == FSpec => []PillInv
<1>1. FInit => Telling /\ Leading /\ Standing
  <2> SUFFICES ASSUME FInit PROVE Telling /\ Leading /\ Standing
    OBVIOUS
  <2>1. Telling
    BY NoLiveIsTyped DEF FInit, Init, Telling, AtRest
  <2>2. Standing
    <3>1. escape = FALSE /\ phase = "Idle" /\ pill = [open |-> "none", held |-> FALSE]
      BY DEF FInit, Init, NoPill
    <3>2. Cancellable(phase) = FALSE
      BY <3>1 DEF Cancellable
    <3>3. escape = Cancellable(phase)
      BY <3>1, <3>2
    <3> QED  BY <3>1, <3>3 DEF Standing, OneStandingPill
  <2>3. PICK b \in Views : b = [phase |-> "Idle", outcome |-> "none", told |-> 0]
    BY DEF Views, Phases
  <2>4. Ahead(b)
    BY <2>3, NoLiveIsTyped DEF FInit, Init, Ahead, AtRest
  <2>5. phases = <<>> /\ verdicts = <<>> /\ phase = "Idle" /\ outcome = "none"
    BY DEF FInit, Init
  <2>6. PICK t : t = [i \in 1..1 |-> b]
    OBVIOUS
  <2>7. t \in [1..1 -> Views] /\ t[1] = b /\ Len(phases) = 0 /\ Len(verdicts) = 0
    BY <2>5, <2>6
  <2>8. Path(t, phase, outcome, phases, verdicts) /\ t[Len(phases) + 1] = b
    BY <2>3, <2>5, <2>7 DEF Path
  <2>9. phases \in Seq(Kinds) /\ verdicts \in Seq(Outcome) /\ phase \in Phases
    BY <2>5 DEF Phases
  <2> QED  BY <2>1, <2>2, <2>4, <2>5, <2>8, <2>9 DEF Leading
<1>2. PillInv /\ [FNext]_<<vars, feedbackVars>> => (Telling /\ Leading /\ Standing)'
  <2> SUFFICES ASSUME PillInv, [FNext]_<<vars, feedbackVars>> PROVE (Telling /\ Leading /\ Standing)'
    OBVIOUS
  <2> USE DEF PillInv
  <2>1. Telling'
    BY TellingHolds
  <2>2. Standing'
    BY StandingHolds
  <2>3. CASE Emissions
    BY <2>1, <2>2, <2>3, EmissionsLead
  <2>4. CASE Apply
    BY <2>1, <2>2, <2>4, NextApplied
  <2>5. CASE ~Emissions /\ ~Apply
    <3>1. PICK t : Path(t, phase, outcome, phases, verdicts) /\ Ahead(t[Len(phases) + 1])
      BY DEF Leading
    <3>2. PICK b \in Views : b = t[Len(phases) + 1]
      BY <3>1 DEF Path, Leading
    <3>3. Unsaid /\ Ahead(b)'
      BY <2>5, <3>1, <3>2, NothingEmitted
    <3>4. Ahead(t[Len(phases) + 1])' /\ Path(t, phase', outcome', phases', verdicts')
      BY <3>1, <3>2, <3>3 DEF Unsaid, Ahead
    <3>5. Leading'
      BY <3>3, <3>4 DEF Leading, Unsaid
    <3> QED  BY <2>1, <2>2, <3>5
  <2> QED  BY <2>3, <2>4, <2>5
<1>3. IInv => Shapes /\ Recorder
  BY DEF IInv
<1>4. Shapes /\ Recorder /\ Telling /\ Leading /\ Standing <=> PillInv
  BY DEF PillInv
<1> QED  BY <1>1, <1>2, <1>3, <1>4, Inductive, PTL DEF FSpec

LEMMA AllApplied ==
  ASSUME PillInv, phases = <<>>
  PROVE  \E b \in Views : Ahead(b) /\ b.phase = phase /\ b.outcome = outcome
<1>1. PICK t : Path(t, phase, outcome, phases, verdicts) /\ Ahead(t[Len(phases) + 1])
  BY DEF PillInv, Leading
<1>2. Len(phases) + 1 = 1
  OBVIOUS
<1> QED  BY <1>1, <1>2 DEF Path

\* For any number of presses, cancels and late events: once every phase event is
\* applied, the pill shows what the control thread is at, and Escape is registered
\* exactly while there is a dictation to cancel (main.rs, dictation.rs apply).
THEOREM PillIsTrue == FSpec => []PillTellsTheTruth
<1>1. PillInv => PillTellsTheTruth
  <2> SUFFICES ASSUME PillInv, phases = <<>>
               PROVE  /\ ctl = "idle" => phase = (IF live.on THEN "Recording" ELSE "Idle")
                      /\ ctl = "arming" => phase = "Arming"
                      /\ ctl \in {"idle", "arming"} => escape = (live.on \/ ctl = "arming")
    BY DEF PillTellsTheTruth
  <2>1. PICK b \in Views : Ahead(b) /\ b.phase = phase
    BY AllApplied
  <2>2. /\ ctl = "idle" => phase = (IF live.on THEN "Recording" ELSE "Idle")
        /\ ctl = "arming" => phase = "Arming"
    BY <2>1 DEF Ahead, AtRest
  <2>3. ctl \in {"idle", "arming"} => (Cancellable(phase) <=> live.on \/ ctl = "arming")
    BY <2>2 DEF Cancellable, PillInv, Recorder
  <2>4. escape = Cancellable(phase) /\ live.on \in BOOLEAN
    BY DEF PillInv, Standing, Shapes
  <2>5. Cancellable(phase) \in BOOLEAN
    BY DEF Cancellable
  <2> QED  BY <2>2, <2>3, <2>4, <2>5
<1> QED  BY <1>1, PillInductive, PTL

\* Whatever becomes of a text, an answer or a paste: once a dictation is over and its
\* events are applied the pill blooms exactly if the keys were posted for it
\* (session.rs 312-313).
THEOREM BloomIsEarned == FSpec => []BloomMeansWords
<1>1. PillInv => BloomMeansWords
  <2> SUFFICES ASSUME PillInv, ctl = "idle", ~live.on, phases = <<>> PROVE View = "bloom" <=> typed
    BY DEF BloomMeansWords
  <2>1. PICK b \in Views : Ahead(b) /\ b.phase = phase /\ b.outcome = outcome
    BY AllApplied
  <2>2. phase = "Idle" /\ (outcome = "pasted" <=> typed)
    BY <2>1 DEF Ahead, AtRest
  <2>3. phase \in Phases /\ outcome \in Outcome \cup {"none"}
    BY DEF PillInv, Leading
  <2> QED  BY <2>2, <2>3, ViewTells
<1> QED  BY <1>1, PillInductive, PTL

\* For any number of sessions, of pills that fail to open and of timers that fire
\* late: no finished pill stands over a running session (pill.rs 110-111, 138-142).
THEOREM PillStandsAlone == FSpec => []OneStandingPill
<1>1. PillInv => OneStandingPill
  BY DEF PillInv, Standing
<1> QED  BY <1>1, PillInductive, PTL

\* However a dictation fails, the error turns a pill that was opened for it, or
\* that could not be opened (session.rs 187-188).
THEOREM ErrorsAreSeen == FSpec => ErrorIsSeen
<1>1. PillInv /\ [FNext]_<<vars, feedbackVars>> =>
        [verdicts # <<>> /\ verdicts' = Tail(verdicts) /\ outcome' = "failed" =>
           pill.open = "failed" \/ pill'.held]_<<vars, feedbackVars>>
  BY ErrorShown DEF PillInv
<1> QED  BY <1>1, PillInductive, PTL DEF FSpec, ErrorIsSeen

=============================================================================
