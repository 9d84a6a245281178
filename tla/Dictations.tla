------------------------------ MODULE Dictations ------------------------------
(***************************************************************************)
(* From the hotkey to the daemon's commands and the pill's phases.         *)
(*                                                                         *)
(*   main thread      keeps the hotkey and Escape registered, applies the  *)
(*                    phase events the pill shows, runs the settings       *)
(*   control thread   takes key events one at a time; a press or a release *)
(*                    is handled to its end before the next event          *)
(*   monitor thread   one per recording: chunks, then one Flush or Cancel  *)
(*                                                                         *)
(* Both threads feed the transport's command channel. What the transport   *)
(* does with it, and that finish always returns, is module Transport's.    *)
(***************************************************************************)
EXTENDS Integers, Sequences, FiniteSets

CONSTANTS
    Devices,        \* output devices
    NoDevice,
    MaxPresses,     \* times the hotkey is pressed
    MaxEscapes,     \* times Escape is pressed
    MaxChunks,      \* chunks one recording sends
    MaxChanges      \* changes made in the settings or to the output device

ASSUME DictationsAssumption ==
    /\ Devices # {} /\ NoDevice \notin Devices
    /\ MaxPresses \in Nat /\ MaxEscapes \in Nat /\ MaxChunks \in Nat /\ MaxChanges \in Nat

VARIABLES
    key,            \* the physical chord: held or not, tracked by the OS or not
    registered,     \* whether the chord is registered (HotkeyRebind not suspended)
    current,        \* number of the chord registered last
    recordId,       \* Hotkeys.record: the chord the control loop listens to
    behavior,       \* settings.hotkey_behavior
    output,         \* the default output device
    muted,          \* devices whose master mute flag is on
    mutedByUser,    \* those the user muted
    bounds,         \* presses, escapes and changes so far
    events,         \* channel event_tx -> event_rx
    phases,         \* channel of PhaseEvents
    phase,          \* Dictation.phase
    escape,         \* escape_registered
    ctl,            \* where the control thread stands
    live,           \* Dictations.live
    monitor,        \* the monitor thread and the flags it reads
    wire,           \* what the transport has been told
    blind           \* a capture began while the phase lagged behind the keys, and the
                    \* chord was not pressed since

keyVars  == <<key, registered, current, recordId>>
outVars  == <<output, muted, mutedByUser>>
uiVars   == <<phase, escape>>
vars == <<keyVars, behavior, outVars, bounds, events, phases, uiVars, ctl, live, monitor,
          wire, blind>>

NoLive    == [on |-> FALSE, behavior |-> "Hold", muted |-> NoDevice]
NoMonitor == [runs |-> FALSE, stop |-> FALSE, cancelled |-> FALSE, chunks |-> 0]

\* The command channel as its reader sees it: a session is open or closed, or a
\* command came that does not fit; flushes not yet answered by finish, and those
\* whose Polishing has not been relayed.
NothingSaid == [session |-> "closed", owed |-> 0, unpolished |-> 0]

-----------------------------------------------------------------------------
(* The user's keys. The OS reports a chord that was registered when it went  *)
(* down, and its release while it still is.                                  *)

PressKey ==
    /\ ~key.held /\ registered
    /\ bounds.presses < MaxPresses
    /\ key' = [held |-> TRUE, tracked |-> TRUE]
    /\ bounds' = [bounds EXCEPT !.presses = @ + 1]
    /\ events' = Append(events, [kind |-> "down", id |-> current])
    /\ blind' = FALSE
    /\ UNCHANGED <<registered, current, recordId, behavior, outVars, phases, uiVars, ctl, live,
                   monitor, wire>>

ReleaseKey ==
    /\ key.held
    /\ key' = [held |-> FALSE, tracked |-> FALSE]
    /\ events' = IF key.tracked THEN Append(events, [kind |-> "up", id |-> current]) ELSE events
    /\ UNCHANGED <<registered, current, recordId, behavior, outVars, bounds, phases, uiVars, ctl,
                   live, monitor, blind, wire>>

PressEscape ==
    /\ escape
    /\ bounds.escapes < MaxEscapes
    /\ bounds' = [bounds EXCEPT !.escapes = @ + 1]
    /\ events' = Append(events, [kind |-> "escape", id |-> 0])
    /\ UNCHANGED <<keyVars, behavior, outVars, phases, uiVars, ctl, live, monitor, blind, wire>>

-----------------------------------------------------------------------------
(* The settings window and the system's volume control *)

Change ==
    /\ bounds.changes < MaxChanges
    /\ bounds' = [bounds EXCEPT !.changes = @ + 1]

SwitchBehavior ==
    /\ Change
    /\ behavior' = IF behavior = "Hold" THEN "Toggle" ELSE "Hold"
    /\ UNCHANGED <<keyVars, outVars, events, phases, uiVars, ctl, live, monitor, blind, wire>>

\* suspend: only in phase Idle, as the main thread knows it.
BeginCapture ==
    /\ registered /\ phase = "Idle"
    /\ Change
    /\ registered' = FALSE
    /\ key' = [key EXCEPT !.tracked = FALSE]
    /\ blind' = (blind \/ key.tracked \/ events # <<>> \/ ctl # "idle" \/ live.on)
    /\ UNCHANGED <<current, recordId, behavior, outVars, events, phases, uiVars, ctl, live,
                   monitor, wire>>

\* resume: Escape in the window, its focus lost, or its end.
CancelCapture ==
    /\ ~registered
    /\ registered' = TRUE
    /\ UNCHANGED <<key, current, recordId, behavior, outVars, bounds, events, phases, uiVars, ctl,
                   live, monitor, blind, wire>>

\* commit: the new chord is registered while it is still held down.
CommitHotkey ==
    /\ ~registered
    /\ registered' = TRUE
    /\ current' = current + 1
    /\ recordId' = current'
    /\ key' = [held |-> TRUE, tracked |-> FALSE]
    /\ UNCHANGED <<behavior, outVars, bounds, events, phases, uiVars, ctl, live, monitor, blind,
                   wire>>

SwitchOutput(d) ==
    /\ d # output
    /\ Change
    /\ output' = d
    /\ UNCHANGED <<keyVars, behavior, muted, mutedByUser, events, phases, uiVars, ctl, live,
                   monitor, blind, wire>>

\* The user mutes or unmutes a device no dictation has in hand.
ToggleMute(d) ==
    /\ d # live.muted
    /\ Change
    /\ LET flip(s) == IF d \in s THEN s \ {d} ELSE s \cup {d}
       IN  muted' = flip(muted) /\ mutedByUser' = flip(mutedByUser)
    /\ UNCHANGED <<keyVars, behavior, output, events, phases, uiVars, ctl, live, monitor, blind,
                   wire>>

-----------------------------------------------------------------------------
(* The control thread: one event at a time *)

Emit(e)   == phases' = Append(phases, e)
Ends == {"Flush", "Cancel"}

Hear(w, cmd) ==
    [session    |-> IF w.session = "broken" \/ (cmd = "Start" <=> w.session = "open")
                    THEN "broken"
                    ELSE IF cmd \in Ends THEN "closed" ELSE "open",
     owed       |-> w.owed + (IF cmd = "Flush" THEN 1 ELSE 0),
     unpolished |-> w.unpolished + (IF cmd = "Flush" THEN 1 ELSE 0)]

Tell(cmd) == wire' = Hear(wire, cmd)

Take(kind) ==
    /\ ctl = "idle"
    /\ events # <<>>
    /\ Head(events).kind = kind
    /\ events' = Tail(events)

OurChord == Head(events).id = recordId

\* mutant: key_up goes by the behavior set now
EndsOnKeyUpNow == behavior = "Hold"

\* key_up: by the behavior the session started under.
EndsOnKeyUp == live.behavior = "Hold"

\* Events that mean nothing: another chord, no dictation to end, or the key of
\* one that does not end that way.
IgnoreEvent ==
    /\ \/ Take("down") /\ (~OurChord \/ (live.on /\ behavior = "Hold"))
       \/ Take("up") /\ (~OurChord \/ ~live.on \/ ~EndsOnKeyUp)
       \/ Take("escape") /\ ~live.on
    /\ UNCHANGED <<keyVars, behavior, outVars, bounds, phases, uiVars, ctl, live, monitor, blind,
                   wire>>

\* press: a rerun has the daemon, or microphone access was never asked for.
PressRefused ==
    /\ Take("down") /\ OurChord /\ ~live.on
    /\ phases' = phases \o <<"Armed", "Ended">>
    /\ UNCHANGED <<keyVars, behavior, outVars, bounds, uiVars, ctl, live, monitor, blind, wire>>

\* press: the Start goes out before the microphone opens.
PressStarts ==
    /\ Take("down") /\ OurChord /\ ~live.on
    /\ Tell("Start")
    /\ live' = [live EXCEPT !.behavior = behavior]
    /\ ctl' = "opening"
    /\ UNCHANGED <<keyVars, behavior, outVars, bounds, phases, uiVars, monitor, blind>>

\* recorder.start failed: the session is cancelled.
MicUnavailable ==
    /\ ctl = "opening"
    /\ Tell("Cancel")
    /\ phases' = phases \o <<"Armed", "Ended">>
    /\ live' = NoLive
    /\ ctl' = "idle"
    /\ UNCHANGED <<keyVars, behavior, outVars, bounds, events, uiVars, monitor, blind>>

MicOpens ==
    /\ ctl = "opening"
    /\ monitor' = [NoMonitor EXCEPT !.runs = TRUE]
    /\ Emit("Armed")
    /\ ctl' = "arming"
    /\ UNCHANGED <<keyVars, behavior, outVars, bounds, events, uiVars, live, blind, wire>>

\* Muted::engage: the default output is muted, unless it already was, or is
\* missing, or does not let itself be muted.
Engage(taken) ==
    /\ taken \in {output, NoDevice} \ muted
    /\ muted' = muted \cup ({taken} \ {NoDevice})

\* Samples flow: playback is muted, unless the settings say not to.
MicLive ==
    /\ ctl = "arming"
    /\ \E taken \in {output, NoDevice} : Engage(taken) /\ live' = [live EXCEPT !.on = TRUE, !.muted = taken]
    /\ Emit("Started")
    /\ ctl' = "idle"
    /\ UNCHANGED <<keyVars, behavior, output, mutedByUser, bounds, events, uiVars, monitor, blind,
                   wire>>

\* mutant: the failed recording is stopped, its result left to the next finish
MicSilentForgets ==
    /\ ctl = "arming"
    /\ monitor' = [monitor EXCEPT !.stop = TRUE]
    /\ Emit("Ended")
    /\ live' = NoLive
    /\ ctl' = "idle"
    /\ UNCHANGED <<keyVars, behavior, outVars, bounds, events, uiVars, blind, wire>>

\* No sample within MIC_READY_TIMEOUT: stop, and consume the empty result.
MicSilent ==
    /\ ctl = "arming"
    /\ monitor' = [monitor EXCEPT !.stop = TRUE]
    /\ ctl' = "giving up"
    /\ UNCHANGED <<keyVars, behavior, outVars, bounds, events, phases, uiVars, live, blind, wire>>

\* release: the key came up in Hold, or went down again in Toggle.
Release ==
    /\ \/ Take("up") /\ EndsOnKeyUp
       \/ Take("down") /\ behavior = "Toggle"
    /\ OurChord /\ live.on
    /\ monitor' = [monitor EXCEPT !.stop = TRUE]
    /\ live' = [live EXCEPT !.on = FALSE]
    /\ ctl' = "stopping"
    /\ UNCHANGED <<keyVars, behavior, outVars, bounds, phases, uiVars, blind, wire>>

\* mutant: the device that is the default by now is unmuted
RestoreCurrent == muted' = IF live.muted = NoDevice THEN muted ELSE muted \ {output}

\* Dropping Muted: the flag it turned on is turned off again.
Restore == muted' = muted \ {live.muted}

\* cancel: playback back first, then the recording is discarded.
Cancel ==
    /\ Take("escape") /\ live.on
    /\ Restore
    /\ live' = [live EXCEPT !.on = FALSE, !.muted = NoDevice]
    /\ monitor' = [monitor EXCEPT !.stop = TRUE, !.cancelled = TRUE]
    /\ ctl' = "cancelling"
    /\ UNCHANGED <<keyVars, behavior, output, mutedByUser, bounds, phases, uiVars, blind, wire>>

Joined(at) == ctl = at /\ ~monitor.runs

CancelEnds ==
    /\ Joined("cancelling")
    /\ Emit("Ended")
    /\ live' = NoLive
    /\ ctl' = "idle"
    /\ UNCHANGED <<keyVars, behavior, outVars, bounds, events, uiVars, monitor, blind, wire>>

\* The recording is joined: playback comes back, then finish blocks.
Stopped ==
    /\ Joined("stopping")
    /\ Restore
    /\ live' = [live EXCEPT !.muted = NoDevice]
    /\ Emit("Stopped")
    /\ ctl' = "finishing"
    /\ UNCHANGED <<keyVars, behavior, output, mutedByUser, bounds, events, uiVars, monitor, blind,
                   wire>>

GaveUp ==
    /\ Joined("giving up")
    /\ ctl' = "finishing"
    /\ UNCHANGED <<keyVars, behavior, outVars, bounds, events, phases, uiVars, live, monitor,
                   blind, wire>>

\* finish returned, the text is pasted or not; the pill ends either way.
Finished ==
    /\ ctl = "finishing"
    /\ wire' = [wire EXCEPT !.owed = @ - 1]
    /\ Emit("Ended")
    /\ live' = NoLive
    /\ ctl' = "idle"
    /\ UNCHANGED <<keyVars, behavior, outVars, bounds, events, uiVars, monitor, blind>>

-----------------------------------------------------------------------------
(* The monitor thread *)

SendChunk ==
    /\ monitor.runs
    /\ monitor.chunks < MaxChunks
    /\ monitor' = [monitor EXCEPT !.chunks = @ + 1]
    /\ Tell("Chunk")
    /\ UNCHANGED <<keyVars, behavior, outVars, bounds, events, phases, uiVars, ctl, live, blind>>

\* The last tick: Cancel, or what speech is left and the Flush.
MonitorEnds ==
    /\ monitor.runs /\ monitor.stop
    /\ IF monitor.cancelled
       THEN Tell("Cancel")
       ELSE \/ Tell("Flush")
            \/ /\ monitor.chunks < MaxChunks
               /\ wire' = Hear(Hear(wire, "Chunk"), "Flush")
    /\ monitor' = NoMonitor
    /\ UNCHANGED <<keyVars, behavior, outVars, bounds, events, phases, uiVars, ctl, live, blind>>

-----------------------------------------------------------------------------
(* The pill's phase *)

\* The transport relays a Polishing, at any time after the Flush it belongs to.
PolishingArrives ==
    /\ wire.unpolished > 0
    /\ wire' = [wire EXCEPT !.unpolished = @ - 1]
    /\ Emit("Polishing")
    /\ UNCHANGED <<keyVars, behavior, outVars, bounds, events, uiVars, ctl, live, monitor, blind>>

\* mutant: a stale PolishingStarted flips any phase
ShownAlways(e) ==
    CASE e = "Armed" -> "Arming" [] e = "Started" -> "Recording" [] e = "Stopped" -> "Transcribing"
      [] e = "Ended" -> "Idle" [] e = "Polishing" -> "Polishing"

\* Dictation.apply
Shown(e) ==
    CASE e = "Armed" -> "Arming" [] e = "Started" -> "Recording" [] e = "Stopped" -> "Transcribing"
      [] e = "Ended" -> "Idle"
      [] e = "Polishing" -> IF phase = "Transcribing" THEN "Polishing" ELSE phase

\* mutant: Escape only while recording
EscapeWhileRecording(p) == p = "Recording"

Cancellable(p) == p \in {"Arming", "Recording"}

\* The event is applied, and the observer follows the phase with Escape.
ApplyPhase ==
    /\ phases # <<>>
    /\ phases' = Tail(phases)
    /\ phase' = Shown(Head(phases))
    /\ escape' = Cancellable(phase')
    /\ UNCHANGED <<keyVars, behavior, outVars, bounds, events, ctl, live, monitor, blind, wire>>

-----------------------------------------------------------------------------

Init ==
    /\ key = [held |-> FALSE, tracked |-> FALSE] /\ registered = TRUE
    /\ current = 0 /\ recordId = 0
    /\ behavior \in {"Hold", "Toggle"}
    /\ output = (CHOOSE d \in Devices : TRUE) /\ muted = {} /\ mutedByUser = {}
    /\ bounds = [presses |-> 0, escapes |-> 0, changes |-> 0]
    /\ events = <<>> /\ phases = <<>>
    /\ phase = "Idle" /\ escape = FALSE
    /\ ctl = "idle" /\ live = NoLive /\ monitor = NoMonitor
    /\ wire = NothingSaid /\ blind = FALSE

User    == PressKey \/ ReleaseKey \/ PressEscape
Window  == \/ SwitchBehavior \/ BeginCapture \/ CancelCapture \/ CommitHotkey
           \/ \E d \in Devices : SwitchOutput(d) \/ ToggleMute(d)
Control == \/ IgnoreEvent \/ PressRefused \/ PressStarts \/ MicUnavailable \/ MicOpens
           \/ MicLive \/ MicSilent \/ Release \/ Cancel \/ CancelEnds \/ Stopped \/ GaveUp
           \/ Finished
Monitor == SendChunk \/ MonitorEnds

Next == User \/ Window \/ Control \/ Monitor \/ PolishingArrives \/ ApplyPhase

Spec == Init /\ [][Next]_vars

\* The three threads keep running; finish has its timeout. The user owes nothing.
FairSpec == Spec /\ WF_vars(Control) /\ WF_vars(MonitorEnds) /\ WF_vars(ApplyPhase)

-----------------------------------------------------------------------------
(* Properties *)

\* Every variable has its type; a dictation is live only between two events,
\* with its monitor running, and the muted device is part of it (session.rs Live).
TypeOK ==
    /\ key \in [held : BOOLEAN, tracked : BOOLEAN] /\ (key.tracked => key.held /\ registered)
    /\ registered \in BOOLEAN /\ current \in Nat /\ recordId = current
    /\ behavior \in {"Hold", "Toggle"}
    /\ output \in Devices /\ muted \subseteq Devices /\ mutedByUser \subseteq Devices
    /\ \A i \in DOMAIN events : events[i] \in [kind : {"down", "up", "escape"}, id : 0..current]
    /\ \A i \in DOMAIN phases : phases[i] \in {"Armed", "Started", "Stopped", "Polishing", "Ended"}
    /\ phase \in {"Idle", "Arming", "Recording", "Transcribing", "Polishing"}
    /\ ctl \in {"idle", "opening", "arming", "giving up", "stopping", "cancelling", "finishing"}
    /\ live \in [on : BOOLEAN, behavior : {"Hold", "Toggle"}, muted : Devices \cup {NoDevice}]
    /\ live.on => ctl = "idle" /\ monitor.runs /\ ~monitor.stop
    /\ wire \in [session : {"closed", "open", "broken"}, owed : Nat, unpolished : Nat]

\* The transport sees whole sessions one after another: a Start, chunks, then
\* exactly one Flush or Cancel, whichever way the dictation went; nothing of an
\* old recording arrives later. And finish is called once per Flush, so no
\* result is left to be taken for the next dictation's (session.rs 220-232,
\* capture.rs Session::stop, which joins the monitor).
SessionsFramed ==
    /\ wire.session # "broken"
    /\ ctl = "idle" /\ ~live.on => wire.session = "closed" /\ wire.owed = 0

\* When every phase event is applied, the pill says what the control thread is
\* at, and Escape, which is stolen from all other programs, is registered exactly
\* while there is a dictation to cancel (main.rs phase observer, "register
\* Escape only while a session could still be cancelled"; dictation.rs apply).
PillTellsTheTruth ==
    phases = <<>> =>
        /\ ctl = "idle" => phase = (IF live.on THEN "Recording" ELSE "Idle")
        /\ ctl = "arming" => phase = "Arming"
        /\ ctl \in {"idle", "arming"} => escape = (live.on \/ ctl = "arming")

\* Playback is restored as it was: between dictations every device is muted
\* exactly if the user muted it, whichever is the default by now (muting.rs
\* "only a flag we turned on is turned back off").
PlaybackRestored ==
    ctl = "idle" /\ ~live.on => muted = mutedByUser

\* Letting go of the key ends a Hold dictation: with no event left to handle, a
\* live one has its chord held and its release will be reported. Excepted is the
\* window the code leaves open, remembered in blind: a capture that began when
\* the phase, all the settings window looks at (settings.rs 1431-1434), had not
\* caught up with the keys may strand a dictation. The next press of the chord
\* ends the exception: its release ends even a stranded one.
HoldHasItsKey ==
    ctl = "idle" /\ events = <<>> /\ live.on /\ live.behavior = "Hold" /\ ~blind => key.tracked

\* What was recorded is dealt with: after the recording stops the pill always
\* comes back to rest or to the next dictation (session.rs release, cancel).
PillComesToRest == phase \in {"Transcribing", "Polishing"} ~> phase \in {"Idle", "Arming", "Recording"}

=============================================================================
