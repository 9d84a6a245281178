----------------------------- MODULE Microphone -----------------------------
(***************************************************************************)
(* The Recorder and the microphones it opens: when a session keeps the     *)
(* device of the last one, when it opens another, and what becomes of a    *)
(* device that was unplugged, came back under its name, or died without a  *)
(* word. A handle names one connection of a device: after a reconnection   *)
(* the old handle is dead, though the device's name is present, and the    *)
(* rate of the new one may differ.                                         *)
(***************************************************************************)
EXTENDS Integers, FiniteSets

CONSTANTS
  Names,        \* input devices
  None,         \* no device, no preference
  Rates,
  MaxPlugs,     \* bound: connections of each device
  MaxRefusals,  \* bound: a present device that cannot be opened or played
  MaxSessions   \* bound: dictations

ASSUME MicrophoneAssumption ==
  /\ None \notin Names /\ None \notin [name : Names, life : 1 .. MaxPlugs, rate : Rates]
  /\ MaxPlugs \in Nat \ {0} /\ MaxRefusals \in Nat /\ MaxSessions \in Nat

Handles == [name : Names, life : 1 .. MaxPlugs, rate : Rates]

VARIABLES
  plugged,   \* the handle each device would be opened with, None when absent
  lives,     \* connections of each device so far
  default,   \* the system's default input
  choice,    \* the microphone of the settings
  preferred, \* Recorder.preferred
  input,     \* Recorder.input
  failed,    \* Recorder.stream_failed
  stage,     \* how far Recorder::start has come
  again,     \* this is open_stream's second attempt
  rate,      \* the rate the session's resampler was made for
  blamed,    \* ghost: handles that reported an error or gave no samples since they were opened
  steady,    \* ghost: nothing changed outside since the press
  kept,      \* ghost: reopening failed in this session
  refusals, sessions

system == <<plugged, lives, default, choice>>
bounds == <<refusals, sessions>>
micVars == <<system, preferred, input, failed, stage, again, rate, blamed, steady, kept, bounds>>

Present == {n \in Names : plugged[n] # None}
Live(h) == h # None /\ plugged[h.name] = h
Refusal == refusals < MaxRefusals /\ refusals' = refusals + 1

-----------------------------------------------------------------------------
(* Outside *)

\* The system's default is some input that is present.
DefaultAmong(present) ==
  default' \in IF present = {} THEN {None} ELSE present

Plug(n) ==
  /\ plugged[n] = None /\ lives[n] < MaxPlugs
  /\ lives' = [lives EXCEPT ![n] = @ + 1]
  /\ \E r \in Rates :
       plugged' = [plugged EXCEPT ![n] = [name |-> n, life |-> lives'[n], rate |-> r]]
  /\ DefaultAmong(Present \cup {n})
  /\ steady' = FALSE
  /\ UNCHANGED <<choice, preferred, input, failed, stage, again, rate, blamed, kept, bounds>>

\* The error callback tells of it, while there is a stream, or nothing does.
Unplug(n) ==
  /\ plugged[n] # None
  /\ plugged' = [plugged EXCEPT ![n] = None]
  /\ DefaultAmong(Present \ {n})
  /\ steady' = FALSE
  /\ \/ UNCHANGED <<failed, blamed>>
     \/ /\ stage \in {"waiting", "recording"} /\ input = plugged[n]
        /\ failed' = TRUE /\ blamed' = blamed \cup {input}
  /\ UNCHANGED <<lives, choice, preferred, input, stage, again, rate, kept, bounds>>

\* microphone_options: the system's default, what a scan has found, and the saved
\* choice though it is not connected.
Options == {None, choice} \cup {n \in Names : lives[n] > 0}

\* Another microphone is chosen in the settings.
Choose ==
  /\ choice' \in Options
  /\ UNCHANGED <<plugged, lives, default, preferred, input, failed, stage, again, rate,
                 blamed, steady, kept, bounds>>

-----------------------------------------------------------------------------
(* Recorder *)

\* resolve_input_name: the chosen device while it is present, else the default.
Wanted(chosen) == IF chosen \in Present THEN chosen ELSE default

\* Mutant of Stale: only a failure reopens the device.
StaleWhenFailed(chosen) == input = None \/ failed

\* What makes ensure_input reopen; a wanted device of another name, if there is one.
Stale(chosen) ==
  \/ input = None
  \/ failed
  \/ Wanted(chosen) # None /\ Wanted(chosen) # input.name

\* start, and ensure_input up to where it opens the device; the failure is consumed.
Press ==
  /\ stage = "idle" /\ sessions < MaxSessions /\ sessions' = sessions + 1
  /\ preferred' = choice
  /\ stage' = IF Stale(choice) THEN "opening" ELSE "opened"
  /\ failed' = FALSE /\ again' = FALSE /\ steady' = TRUE /\ kept' = FALSE
  /\ UNCHANGED <<system, input, rate, blamed, refusals>>

\* open_input.
Open ==
  /\ stage = "opening"
  /\ Wanted(preferred) # None
  /\ input' = plugged[Wanted(preferred)]
  /\ stage' = IF again THEN "playing" ELSE "opened"
  /\ kept' = FALSE /\ blamed' = blamed \ {input'}
  /\ UNCHANGED <<system, preferred, failed, again, rate, steady, bounds>>

\* Nothing can be opened: a device in hand is kept and the retry stays armed. In
\* open_stream that was the second chance, and the session ends.
OpenFails ==
  /\ stage = "opening"
  /\ IF Wanted(preferred) = None THEN UNCHANGED refusals ELSE Refusal
  /\ kept' = TRUE
  /\ failed' = (failed \/ input # None)
  /\ stage' = IF input = None \/ again THEN "idle" ELSE "opened"
  /\ UNCHANGED <<system, preferred, input, again, rate, blamed, steady, sessions>>

\* The resampler is made, unless the voice detector's model cannot be loaded.
MakeResampler ==
  /\ stage = "opened"
  /\ \/ rate' = input.rate /\ stage' = "playing" /\ UNCHANGED refusals
     \/ Refusal /\ stage' = "idle" /\ UNCHANGED rate
  /\ UNCHANGED <<system, preferred, input, failed, again, blamed, steady, kept, sessions>>

\* play_stream; a dead device may play all the same, and give nothing.
Play ==
  /\ stage = "playing"
  /\ stage' = "waiting"
  /\ UNCHANGED <<system, preferred, input, failed, again, rate, blamed, steady, kept, bounds>>

\* open_stream: once, the device is marked as failed, which ensure_input takes
\* back as it reopens it.
PlayFails ==
  /\ stage = "playing"
  /\ IF Live(input) THEN Refusal ELSE UNCHANGED refusals
  /\ IF again THEN stage' = "idle" /\ UNCHANGED failed
              ELSE stage' = "opening" /\ failed' = FALSE
  /\ again' = TRUE
  /\ UNCHANGED <<system, preferred, input, rate, blamed, steady, kept, sessions>>

FirstSample ==
  /\ stage = "waiting" /\ Live(input)
  /\ stage' = "recording"
  /\ UNCHANGED <<system, preferred, input, failed, again, rate, blamed, steady, kept, bounds>>

\* Mutant of NoSamples: the session ends and the device is not marked.
NoSamplesUnmarked ==
  /\ stage = "waiting"
  /\ IF Live(input) THEN Refusal ELSE UNCHANGED refusals
  /\ stage' = "idle" /\ blamed' = blamed \cup {input}
  /\ UNCHANGED <<system, preferred, input, failed, again, rate, steady, kept, sessions>>

\* wait_until_live gives up; another program may hold a device that is well.
NoSamples ==
  /\ stage = "waiting"
  /\ IF Live(input) THEN Refusal ELSE UNCHANGED refusals
  /\ failed' = TRUE
  /\ stage' = "idle" /\ blamed' = blamed \cup {input}
  /\ UNCHANGED <<system, preferred, input, again, rate, steady, kept, sessions>>

\* stop or cancel; the stream goes with the session.
Stop ==
  /\ stage = "recording" /\ stage' = "idle"
  /\ UNCHANGED <<system, preferred, input, failed, again, rate, blamed, steady, kept, bounds>>

MInit ==
  /\ \E present \in SUBSET Names, r \in [Names -> Rates] :
       plugged = [n \in Names |-> IF n \in present THEN [name |-> n, life |-> 1, rate |-> r[n]]
                                                  ELSE None]
  /\ lives = [n \in Names |-> IF n \in Present THEN 1 ELSE 0]
  /\ default \in IF Present = {} THEN {None} ELSE Present
  /\ choice \in Names \cup {None} /\ preferred = choice
  /\ input = None /\ failed = FALSE /\ stage = "idle" /\ again = FALSE
  /\ rate \in Rates /\ blamed = {} /\ steady = TRUE /\ kept = FALSE
  /\ refusals = 0 /\ sessions = 0

MNext ==
  \/ \E n \in Names : Plug(n) \/ Unplug(n)
  \/ Choose
  \/ Press \/ Open \/ OpenFails \/ MakeResampler
  \/ Play \/ PlayFails \/ FirstSample \/ NoSamples \/ Stop

MSpec == MInit /\ [][MNext]_micVars

-----------------------------------------------------------------------------
(* What must hold *)

Running == stage \in {"waiting", "recording"}

\* Every variable has its type, and a session that runs has a device.
MTypeOK ==
  /\ plugged \in [Names -> Handles \cup {None}] /\ lives \in [Names -> 0 .. MaxPlugs]
  /\ default \in Names \cup {None}
  /\ choice \in Names \cup {None} /\ preferred \in Names \cup {None}
  /\ input \in Handles \cup {None}
  /\ failed \in BOOLEAN /\ again \in BOOLEAN /\ steady \in BOOLEAN /\ kept \in BOOLEAN
  /\ stage \in {"idle", "opening", "opened", "playing", "waiting", "recording"}
  /\ rate \in Rates /\ blamed \subseteq Handles
  /\ refusals \in 0 .. MaxRefusals /\ sessions \in 0 .. MaxSessions
  /\ stage \in {"opened", "playing", "waiting", "recording"} => input # None

\* A device that died fails one dictation: the next one opens it anew, and never
\* plays the dead handle again unless nothing could be opened (capture.rs:
\* stream_failed, through the callback, mark_stream_failed and ensure_input).
FailsOnce == stage = "playing" /\ input \in blamed => kept

\* A session records from the microphone the settings prefer, or from the default
\* while that one is not connected, as both were at the press, unless nothing
\* could be opened or is there (capture.rs: ensure_input and resolve_input_name).
RightMicrophone ==
  Running /\ steady /\ ~kept => Wanted(preferred) \in {input.name, None}

\* "The whole session at 16 kHz mono" (capture.rs, Captured.samples): the samples
\* are resampled from the rate of the device that gave them.
ResampledFromItsRate == Running => rate = input.rate
=============================================================================
