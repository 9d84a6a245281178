---------------------------- MODULE Preferences ----------------------------
(***************************************************************************)
(* The settings of the client and everything that writes them: config.json *)
(* and the healing of it at launch, the settings window with its rows and  *)
(* its fallback when Apple Intelligence is gone, the recording of a new    *)
(* hotkey with its suspended registration, and the onboarding window. All  *)
(* of it runs on the main thread; what is uncertain is the file, which a   *)
(* crash or a full disk leaves cut short, and the system, which refuses    *)
(* registrations and changes permissions at any time.                      *)
(***************************************************************************)
EXTENDS Integers, Sequences, FiniteSets

CONSTANTS
  Languages, English, Croatian,
  Speaks,               \* the catalog's transcription models: the languages of each
  Polishers,            \* the catalog's polishing models
  DefaultTranscription, CroatianTranscription,
  DefaultPolishing, CroatianPolishing, Apple,
  Chords, DefaultChord,
  Unknown,              \* an id, a language or a chord that is none of them
  NoFile, NoWindow,
  MaxMishaps            \* bound: failed saves, refused registrations, crashes

Transcribers == DOMAIN Speaks

ASSUME PreferencesAssumption ==
  /\ {English, Croatian} \subseteq Languages /\ English # Croatian
  /\ Speaks \in [Transcribers -> Seq(Languages)]
  /\ \A t \in Transcribers : Speaks[t] # <<>>
  /\ DefaultTranscription \in Transcribers
  /\ CroatianTranscription \in Transcribers
  /\ \E i \in DOMAIN Speaks[CroatianTranscription] :
       Speaks[CroatianTranscription][i] = Croatian
  /\ {DefaultPolishing, CroatianPolishing, Apple} \subseteq Polishers
  /\ CroatianPolishing \notin {DefaultPolishing, Apple}
  /\ DefaultPolishing # Apple
  /\ DefaultChord \in Chords /\ Unknown \notin Chords
  /\ Unknown \notin Languages \cup Transcribers \cup Polishers
  /\ NoFile \notin [language : Languages \cup {Unknown},
                    transcription : Transcribers \cup {Unknown},
                    polishing : Polishers \cup {Unknown}, chord : Chords \cup {Unknown},
                    onboarded : BOOLEAN]
  /\ NoWindow \notin [language : Languages, transcription : Transcribers,
                      polishing : Polishers, chord : Chords, capturing : BOOLEAN,
                      apple : BOOLEAN, onboarded : BOOLEAN]
  /\ MaxMishaps \in Nat

Microphones == {"not asked", "denied", "granted"}
Permissions == [microphone : Microphones, accessibility : BOOLEAN]
Steps       == {"welcome", "microphone", "accessibility", "closed"}

VARIABLES
  file,        \* config.json; NoFile when absent, empty or cut short
  running,
  memory,      \* the settings every part of the running client shares
  chosen,      \* ModelSelectionControl: the models asked of the daemon
  window,      \* the settings window: its rows, and whether it records a chord
  registered,  \* the chords the system delivers to the client
  current, suspended, \* HotkeyRebind
  phaseIdle,   \* the dictation the window sees is idle
  granted,     \* what macOS permits
  step,        \* the onboarding window
  shown,       \* Onboarding.status: what it last saw of granted
  refused,     \* ghost: resume could not register the chord again
  stuck,       \* ghost: the chords the system would not unregister
  strayed,     \* ghost: the chord in use could not be saved when it was recorded
  unsaved,     \* ghost: the last save failed, or a crash cut it short
  seen,        \* ghost: a save that says onboarded has succeeded since
  mishaps

chord   == <<registered, current, suspended, refused, stuck, strayed>>
stored  == <<file, unsaved, seen>>
flow    == <<step, shown>>
vars    == <<stored, running, memory, chosen, window, chord, phaseIdle, granted, flow, mishaps>>

-----------------------------------------------------------------------------
(* SessionSettings *)

Mishap == mishaps < MaxMishaps /\ mishaps' = mishaps + 1

Settings(languages, transcribers, polishers, chords) ==
  [language : languages, transcription : transcribers, polishing : polishers,
   chord : chords, onboarded : BOOLEAN]

Defaults == [language |-> English, transcription |-> DefaultTranscription,
             polishing |-> DefaultPolishing, chord |-> DefaultChord, onboarded |-> FALSE]

Spoken(t) == {Speaks[t][i] : i \in DOMAIN Speaks[t]}

LanguageForModel(language, t) ==
  IF language \in Spoken(t) THEN language
  ELSE IF English \in Spoken(t) THEN English ELSE Speaks[t][1]

\* models(): an id the catalog does not list is replaced by the default.
Resolved(s) ==
  [s EXCEPT !.transcription = IF @ \in Transcribers THEN @ ELSE DefaultTranscription,
            !.polishing = IF @ \in Polishers THEN @ ELSE DefaultPolishing]

Models(s) == [transcription |-> s.transcription, polishing |-> s.polishing]

Normalized(s) ==
  [s EXCEPT !.language = LanguageForModel(@, Resolved(s).transcription)]

\* match_models_to_language
Matched(s, previous) ==
  LET croatian == s.language = Croatian
  IN  [s EXCEPT
         !.transcription = IF croatian /\ previous # Croatian THEN CroatianTranscription ELSE @,
         !.polishing = IF croatian THEN CroatianPolishing
                       ELSE IF @ = CroatianPolishing THEN DefaultPolishing ELSE @]

WithoutApple(s, available) ==
  [s EXCEPT !.polishing = IF @ = Apple /\ ~available THEN DefaultPolishing ELSE @]

\* read: no file, or one that does not parse, gives the defaults.
ReadFrom(f) ==
  LET s == IF f = NoFile THEN Defaults ELSE f
  IN  [s EXCEPT !.chord = IF @ \in Chords THEN @ ELSE DefaultChord]

\* What main makes of the file before anything runs.
Healed(f, available) ==
  LET s == Normalized(WithoutApple(Resolved(ReadFrom(f)), available))
  IN  Matched(s, s.language)

\* Mutant of Settled: the models are not matched again once the language is normalized.
SettledOnce(rows, previous) == Normalized(Resolved(Matched(rows, previous)))

\* What SettingsWindow::save makes of the rows.
Settled(rows, previous) ==
  Matched(Normalized(Resolved(Matched(rows, previous))), previous)

Written(s) ==
  /\ file' = s /\ unsaved' = FALSE
  /\ seen' = (seen \/ s.onboarded)
  /\ UNCHANGED mishaps

\* std::fs::write empties the file before it writes.
NotWritten ==
  /\ Mishap
  /\ unsaved' = TRUE
  /\ \/ file' = NoFile /\ seen' = FALSE
     \/ UNCHANGED <<file, seen>>

Off ==
  /\ running' = FALSE /\ registered' = {} /\ suspended' = FALSE /\ refused' = FALSE
  /\ stuck' = {} /\ strayed' = FALSE
  /\ window' = NoWindow /\ step' = "closed" /\ phaseIdle' = TRUE
  /\ UNCHANGED <<memory, chosen, current, shown, granted>>

-----------------------------------------------------------------------------
(* Launch: main *)

AllGranted(p) == p.microphone = "granted" /\ p.accessibility

\* needed: nothing is asked for twice, nor of an install that has all of it.
Needed(s) == ~s.onboarded /\ ~AllGranted(granted)

\* onboarding::open: on its first step, unless the window cannot be opened.
OnboardingOpens == step' \in {"welcome", "closed"}

\* Everything after the save of what was healed: the chord is registered, and
\* onboarding opens when it is needed.
Launched(s) ==
  /\ running' = TRUE
  /\ memory' = s /\ chosen' = Models(s)
  /\ registered' = {s.chord} /\ current' = s.chord
  /\ IF Needed(s) THEN OnboardingOpens ELSE step' = "closed"
  /\ shown' = granted
  /\ UNCHANGED <<window, suspended, refused, stuck, strayed, phaseIdle, granted>>

SameFields(s, t) ==
  /\ s.language = t.language /\ s.transcription = t.transcription
  /\ s.polishing = t.polishing

\* A save or a registration that fails ends main before anything is shown.
Launch ==
  /\ ~running
  /\ \E available \in BOOLEAN :
       LET s == Healed(file, available)
           same == SameFields(s, ReadFrom(file))
       IN  \/ /\ IF same THEN UNCHANGED <<stored, mishaps>> ELSE Written(s)
              /\ Launched(s)
           \/ /\ ~same /\ NotWritten
              /\ UNCHANGED <<running, memory, chosen, window, chord, phaseIdle, granted, flow>>

-----------------------------------------------------------------------------
(* The settings window *)

Open == running /\ window # NoWindow

\* open and SettingsWindow::new: one window, with rows for what memory holds. A
\* polisher that is gone is replaced at once, in memory whether or not it is saved.
OpenWindow ==
  /\ running /\ window = NoWindow
  /\ \E available \in BOOLEAN :
       LET s == WithoutApple(Resolved(memory), available)
       IN  /\ window' = [language |-> s.language, transcription |-> s.transcription,
                         polishing |-> s.polishing, chord |-> s.chord,
                         capturing |-> FALSE, apple |-> available,
                         onboarded |-> s.onboarded]
           /\ IF WithoutApple(memory, available) # memory
              THEN /\ memory' = s /\ chosen' = Models(s)
                   /\ Written(s) \/ NotWritten
              ELSE UNCHANGED <<memory, chosen, stored, mishaps>>
  /\ UNCHANGED <<running, chord, phaseIdle, granted, flow>>

\* Mutant of Rows: what the window read when it opened.
RowsAsOpened(w) ==
  [language |-> w.language, transcription |-> w.transcription, polishing |-> w.polishing,
   chord |-> w.chord, onboarded |-> w.onboarded]

\* Every field of a save comes from the window's rows, save for onboarded.
Rows(w) ==
  [language |-> w.language, transcription |-> w.transcription, polishing |-> w.polishing,
   chord |-> w.chord, onboarded |-> memory.onboarded]

\* save: the rows follow what was settled whether or not it is written.
Save(w) ==
  LET s == Settled(Rows(w), memory.language)
  IN  /\ window' = [w EXCEPT !.language = s.language, !.transcription = s.transcription,
                             !.polishing = s.polishing]
      /\ \/ Written(s) /\ memory' = s /\ chosen' = Models(s)
         \/ NotWritten /\ UNCHANGED <<memory, chosen>>

\* Another row of a picker; the languages are those of the selected model, and
\* Apple Intelligence is offered when it was there as the window opened.
Select ==
  /\ Open
  /\ \/ \E l \in Spoken(window.transcription) : Save([window EXCEPT !.language = l])
     \/ \E t \in Transcribers : Save([window EXCEPT !.transcription = t])
     \/ \E p \in {q \in Polishers : q = Apple => window.apple} :
          Save([window EXCEPT !.polishing = p])
  /\ UNCHANGED <<running, chord, phaseIdle, granted, flow>>

\* HotkeyRebind::suspend: an unregistering that the system refuses is only logged, and
\* the chord stays with it for good.
Suspended ==
  /\ suspended' = TRUE /\ UNCHANGED <<current, refused, strayed>>
  /\ IF suspended THEN UNCHANGED <<registered, stuck, mishaps>>
     ELSE \/ registered' = registered \ ({current} \ stuck) /\ UNCHANGED <<stuck, mishaps>>
          \/ /\ current \in registered /\ Mishap
             /\ stuck' = stuck \cup {current} /\ UNCHANGED registered

\* HotkeyRebind::resume: a registration the system refuses is only logged.
Resumed ==
  /\ suspended' = FALSE /\ UNCHANGED <<current, stuck, strayed>>
  /\ IF ~suspended
     THEN UNCHANGED <<registered, refused, mishaps>>
     ELSE \/ registered' = registered \cup {current} /\ UNCHANGED <<refused, mishaps>>
          \/ Mishap /\ refused' = TRUE /\ UNCHANGED registered

\* Mutant of Committed: the chord stays suspended after it is replaced.
CommittedSuspended(c) ==
  /\ registered' = registered \cup {c} /\ current' = c
  /\ refused' = FALSE /\ UNCHANGED <<suspended, stuck>>

\* HotkeyRebind::commit.
Committed(c) ==
  /\ registered' = registered \cup {c} /\ current' = c
  /\ suspended' = FALSE /\ refused' = FALSE /\ UNCHANGED stuck

\* A click on the chord, refused while a dictation could hold it.
Capture ==
  /\ Open /\ ~window.capturing /\ phaseIdle
  /\ Suspended
  /\ window' = [window EXCEPT !.capturing = TRUE]
  /\ UNCHANGED <<stored, running, memory, chosen, phaseIdle, granted, flow>>

\* capture_hotkey; a chord the system refuses leaves the capture on.
RecordChord(c) ==
  /\ Open /\ window.capturing
  /\ \/ /\ Committed(c)
        /\ Save([window EXCEPT !.capturing = FALSE, !.chord = c])
        /\ strayed' = unsaved'
     \/ Mishap /\ UNCHANGED <<stored, window, memory, chosen, chord>>
  /\ UNCHANGED <<running, phaseIdle, granted, flow>>

\* Escape, or the focus goes elsewhere.
EndCapture ==
  /\ Open /\ window.capturing
  /\ window' = [window EXCEPT !.capturing = FALSE]
  /\ Resumed
  /\ UNCHANGED <<stored, running, memory, chosen, phaseIdle, granted, flow>>

\* on_release.
CloseWindow ==
  /\ Open
  /\ window' = NoWindow
  /\ IF window.capturing THEN Resumed ELSE UNCHANGED <<chord, mishaps>>
  /\ UNCHANGED <<stored, running, memory, chosen, phaseIdle, granted, flow>>

-----------------------------------------------------------------------------
(* Onboarding *)

After(s) == IF s = "welcome" THEN "microphone"
            ELSE IF s = "microphone" THEN "accessibility" ELSE "closed"

Satisfied(s, p) ==
  \/ s = "microphone" /\ p.microphone = "granted"
  \/ s = "accessibility" /\ p.accessibility

\* next_visible: a step already satisfied is passed, save for the last one.
NextVisible(s, p) ==
  IF After(s) = "microphone" /\ Satisfied("microphone", p)
  THEN "accessibility" ELSE After(s)

\* A grant moves the flow along without a press, save on its last step.
AdvancesItself(s, p) == After(s) # "closed" /\ Satisfied(s, p)

\* Mutant of Remembered: the settings written are cloned before the flag is set.
RememberedStale ==
  IF memory.onboarded
  THEN UNCHANGED <<memory, stored, mishaps>>
  ELSE /\ memory' = [memory EXCEPT !.onboarded = TRUE]
       /\ Written(memory) \/ NotWritten

\* remember, when the window goes: memory first, and then the file.
Remembered ==
  IF memory.onboarded
  THEN UNCHANGED <<memory, stored, mishaps>>
  ELSE /\ memory' = [memory EXCEPT !.onboarded = TRUE]
       /\ Written([memory EXCEPT !.onboarded = TRUE]) \/ NotWritten

MovesTo(s) ==
  /\ step' = s
  /\ IF s = "closed" THEN Remembered ELSE UNCHANGED <<memory, stored, mishaps>>

\* act: the button moves on once the step is satisfied, and asks macOS before.
Act ==
  /\ running /\ step # "closed"
  /\ step = "welcome" \/ Satisfied(step, shown)
  /\ MovesTo(NextVisible(step, shown))
  /\ UNCHANGED <<running, chosen, window, chord, phaseIdle, granted, shown>>

\* observed, once a second: what macOS permits by now.
Observe ==
  /\ running /\ step # "closed" /\ shown # granted
  /\ shown' = granted
  /\ MovesTo(IF AdvancesItself(step, granted) THEN NextVisible(step, granted) ELSE step)
  /\ UNCHANGED <<running, chosen, window, chord, phaseIdle, granted>>

CloseOnboarding ==
  /\ running /\ step # "closed" /\ MovesTo("closed")
  /\ UNCHANGED <<running, chosen, window, chord, phaseIdle, granted, shown>>

-----------------------------------------------------------------------------
(* Around them *)

\* A dictation starts, by its chord, and ends.
Dictate ==
  /\ running /\ (phaseIdle => current \in registered)
  /\ phaseIdle' = ~phaseIdle
  /\ UNCHANGED <<stored, running, memory, chosen, window, chord, granted, flow, mishaps>>

\* request_microphone, from main, onboarding or the settings: macOS prompts once,
\* and the user answers.
Prompt ==
  /\ running /\ granted.microphone = "not asked"
  /\ \E m \in {"denied", "granted"} : granted' = [granted EXCEPT !.microphone = m]
  /\ UNCHANGED <<stored, running, memory, chosen, window, chord, phaseIdle, flow, mishaps>>

\* Changed in System Settings, which list the microphone once it was asked for.
Grant ==
  /\ \/ /\ granted.microphone # "not asked"
        /\ \E m \in {"denied", "granted"} : granted' = [granted EXCEPT !.microphone = m]
     \/ granted' = [granted EXCEPT !.accessibility = ~@]
  /\ UNCHANGED <<stored, running, memory, chosen, window, chord, phaseIdle, flow, mishaps>>

\* Quit, which tells nobody, or a crash.
Stop == running /\ Off /\ UNCHANGED <<stored, mishaps>>

Init ==
  /\ file \in Settings(Languages \cup {Unknown}, Transcribers \cup {Unknown},
                      Polishers \cup {Unknown}, Chords \cup {Unknown}) \cup {NoFile}
  /\ running = FALSE /\ memory = Defaults /\ chosen = Models(Defaults)
  /\ window = NoWindow
  /\ registered = {} /\ current = DefaultChord /\ suspended = FALSE /\ refused = FALSE
  /\ stuck = {} /\ strayed = FALSE
  /\ phaseIdle = TRUE
  /\ granted \in Permissions /\ shown = granted /\ step = "closed"
  /\ unsaved = FALSE /\ seen = FALSE /\ mishaps = 0

Next ==
  \/ Launch \/ Stop
  \/ OpenWindow \/ Select \/ CloseWindow
  \/ Capture \/ EndCapture \/ (\E c \in Chords : RecordChord(c))
  \/ Act \/ Observe \/ CloseOnboarding
  \/ Dictate \/ Prompt \/ Grant

Spec == Init /\ [][Next]_vars

-----------------------------------------------------------------------------
(* What must hold *)

Stored == Settings(Languages, Transcribers, Polishers, Chords)
Asked  == [transcription : Transcribers, polishing : Polishers]
Window == [language : Languages, transcription : Transcribers, polishing : Polishers,
           chord : Chords, capturing : BOOLEAN, apple : BOOLEAN, onboarded : BOOLEAN]

\* Every variable has its type; memory never holds what the catalog does not list.
TypeOK ==
  /\ running \in BOOLEAN /\ memory \in Stored /\ chosen \in Asked
  /\ window \in Window \cup {NoWindow}
  /\ registered \in SUBSET Chords /\ current \in Chords
  /\ suspended \in BOOLEAN /\ refused \in BOOLEAN /\ phaseIdle \in BOOLEAN
  /\ stuck \in SUBSET Chords /\ strayed \in BOOLEAN
  /\ granted \in Permissions /\ shown \in Permissions /\ step \in Steps
  /\ unsaved \in BOOLEAN /\ seen \in BOOLEAN /\ mishaps \in 0 .. MaxMishaps

\* A language the transcription model cannot transcribe never reaches it, and
\* Croatian has the one polisher that does not skip it, which no other language
\* has: through every choice of rows, every file found at launch, every fallback
\* (config.rs: match_models_to_language and normalize_language, in save and main).
LanguagesFit ==
  running => /\ memory.language \in Spoken(memory.transcription)
             /\ (memory.language = Croatian) = (memory.polishing = CroatianPolishing)
             /\ chosen = Models(memory)

\* One chord at most is ever registered, the current one, none while a new one is
\* recorded, and it is registered again however the recording ends; what was recorded
\* is what the settings say. Three refusals end this, and only these: a chord that the
\* system would not unregister goes on being delivered beside the next, and while one is
\* recorded; a registration it refused in resume leaves the app keyless until a chord is
\* recorded, and not one refused in commit; a chord that could not be saved is in use
\* until the next launch (main.rs: HotkeyRebind, over the ends of a capture in
\* settings.rs).
OneChordHeard ==
  running =>
    /\ registered \subseteq {current} \cup stuck
    /\ suspended = (Open /\ window.capturing)
    /\ suspended => registered \subseteq stuck
    /\ ~suspended /\ ~refused => current \in registered
    /\ ~strayed => current = memory.chord

\* Once a save has said that onboarding was seen, its window never returns, over
\* every later save of the settings window and every launch, as long as the file
\* is not lost (onboarding.rs: remember; settings.rs: save; config.rs: onboarded).
OnboardingNeverReturns == seen => step = "closed" /\ file.onboarded

\* When the last save succeeded, the next launch starts with the settings this one
\* uses, except for a polisher that is gone by then (settings.rs: save and new;
\* main.rs: the healing at launch, which must settle at once).
RestartKeepsSettings == running /\ ~unsaved => Healed(file, TRUE) = memory
=============================================================================
