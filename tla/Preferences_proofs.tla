------------------------- MODULE Preferences_proofs -------------------------
(***************************************************************************)
(* The settings for any catalog, any file found at launch, any number of   *)
(* mishaps: they fit together, they survive a restart, onboarding stays    *)
(* seen, and the hotkey is registered once.                                *)
(***************************************************************************)
EXTENDS Preferences, TLAPS

Raw   == Settings(Languages \cup {Unknown}, Transcribers \cup {Unknown},
                  Polishers \cup {Unknown}, Chords \cup {Unknown})
\* With a chord that parses, and then with models of the catalog.
Read  == Settings(Languages \cup {Unknown}, Transcribers \cup {Unknown},
                  Polishers \cup {Unknown}, Chords)
Known == Settings(Languages \cup {Unknown}, Transcribers, Polishers, Chords)

\* Settings that fit together.
Fit(s) ==
  /\ s \in Stored
  /\ s.language \in Spoken(s.transcription)
  /\ (s.language = Croatian) = (s.polishing = CroatianPolishing)

-----------------------------------------------------------------------------
(* The operators on settings *)

\* Every language a model speaks is a language, and it speaks its first one.
LEMMA SpokenLanguages ==
  ASSUME NEW t \in Transcribers
  PROVE  Spoken(t) \subseteq Languages /\ Speaks[t][1] \in Spoken(t)
<1>1. Speaks[t] \in Seq(Languages) /\ Speaks[t] # <<>>
  BY PreferencesAssumption DEF PreferencesAssumption
<1>2. 1 \in DOMAIN Speaks[t] BY <1>1
<1> QED BY <1>1, <1>2 DEF Spoken

LEMMA CroatianIsSpoken == Croatian \in Spoken(CroatianTranscription)
BY PreferencesAssumption DEF PreferencesAssumption, Spoken

\* A file that is there is read field by field.
LEMMA ReadFromType ==
  ASSUME NEW f \in Raw \cup {NoFile}
  PROVE  /\ ReadFrom(f) \in Read
         /\ f # NoFile => ReadFrom(f).onboarded = f.onboarded
<1>1. Defaults \in Raw
  BY PreferencesAssumption DEF PreferencesAssumption, Defaults, Raw, Settings
<1>2. CASE f = NoFile
  BY <1>1, <1>2, PreferencesAssumption DEF PreferencesAssumption, ReadFrom, Raw, Read, Settings
<1>3. CASE f # NoFile
  BY <1>3, PreferencesAssumption DEF PreferencesAssumption, ReadFrom, Raw, Read, Settings
<1> QED BY <1>2, <1>3

LEMMA ResolvedType ==
  ASSUME NEW s \in Read
  PROVE  /\ Resolved(s) \in Known
         /\ Resolved(s).onboarded = s.onboarded /\ Resolved(s).language = s.language
         /\ Resolved(s).chord = s.chord
BY PreferencesAssumption DEF PreferencesAssumption, Resolved, Read, Known, Settings

LEMMA ResolvedKnown ==
  ASSUME NEW s \in Known
  PROVE  Resolved(s) = s
BY PreferencesAssumption DEF PreferencesAssumption, Resolved, Known, Settings

LEMMA WithoutAppleType ==
  ASSUME NEW s \in Known, NEW available \in BOOLEAN
  PROVE  /\ WithoutApple(s, available) \in Known
         /\ WithoutApple(s, available).onboarded = s.onboarded
         /\ WithoutApple(s, available).language = s.language
         /\ WithoutApple(s, available).transcription = s.transcription
         /\ WithoutApple(s, available).polishing \in {s.polishing, DefaultPolishing}
         /\ s.polishing # Apple => WithoutApple(s, available) = s
         /\ ~available => WithoutApple(s, available).polishing # Apple
         /\ s.polishing # Apple \/ WithoutApple(s, available).polishing # CroatianPolishing
BY PreferencesAssumption DEF PreferencesAssumption, WithoutApple, Known, Settings

LEMMA LanguageForModelSpoken ==
  ASSUME NEW l, NEW t \in Transcribers
  PROVE  /\ LanguageForModel(l, t) \in Spoken(t)
         /\ l \in Spoken(t) => LanguageForModel(l, t) = l
BY SpokenLanguages DEF LanguageForModel

LEMMA NormalizedFits ==
  ASSUME NEW s \in Known
  PROVE  /\ Normalized(s) \in Stored
         /\ Normalized(s).language \in Spoken(Normalized(s).transcription)
         /\ Normalized(s).onboarded = s.onboarded
         /\ Normalized(s).transcription = s.transcription
         /\ Normalized(s).polishing = s.polishing
         /\ Normalized(s).chord = s.chord
         /\ s.language \in Spoken(s.transcription) => Normalized(s) = s
<1>1. s.transcription \in Transcribers BY DEF Known, Settings
<1>2. Normalized(s) = [s EXCEPT !.language = LanguageForModel(s.language, s.transcription)]
  BY ResolvedKnown DEF Normalized
<1>3. LanguageForModel(s.language, s.transcription) \in Spoken(s.transcription)
  BY <1>1, LanguageForModelSpoken
<1>4. LanguageForModel(s.language, s.transcription) \in Languages
  BY <1>1, <1>3, SpokenLanguages
<1>5. s.language \in Spoken(s.transcription)
        => LanguageForModel(s.language, s.transcription) = s.language
  BY <1>1, LanguageForModelSpoken
<1> QED BY <1>2, <1>3, <1>4, <1>5 DEF Known, Stored, Settings

\* Matching keeps a spoken language spoken, and hands out the Croatian polisher.
LEMMA MatchedFits ==
  ASSUME NEW s \in Stored, s.language \in Spoken(s.transcription), NEW previous
  PROVE  /\ Fit(Matched(s, previous))
         /\ Matched(s, previous).onboarded = s.onboarded
         /\ Matched(s, previous).chord = s.chord
<1>1. CASE s.language = Croatian
  BY <1>1, CroatianIsSpoken, PreferencesAssumption
  DEF PreferencesAssumption, Matched, Fit, Stored, Settings
<1>2. CASE s.language # Croatian
  BY <1>2, PreferencesAssumption DEF PreferencesAssumption, Matched, Fit, Stored, Settings
<1> QED BY <1>1, <1>2

LEMMA MatchedType ==
  ASSUME NEW s \in Stored, NEW previous
  PROVE  /\ Matched(s, previous) \in Stored
         /\ Matched(s, previous).onboarded = s.onboarded /\ Matched(s, previous).chord = s.chord
BY PreferencesAssumption DEF PreferencesAssumption, Matched, Stored, Settings

LEMMA StoredKnown == Stored \subseteq Known /\ Stored \subseteq Raw /\ Known \subseteq Read
BY DEF Stored, Known, Raw, Read, Settings

\* What main starts with fits, and it keeps whether onboarding was seen.
LEMMA HealedFits ==
  ASSUME NEW f \in Raw \cup {NoFile}, NEW available \in BOOLEAN
  PROVE  /\ Fit(Healed(f, available))
         /\ f # NoFile => Healed(f, available).onboarded = f.onboarded
<1> DEFINE r == Resolved(ReadFrom(f))
           a == WithoutApple(r, available)
           n == Normalized(a)
<1>1. ReadFrom(f) \in Read /\ (f # NoFile => ReadFrom(f).onboarded = f.onboarded)
  BY ReadFromType
<1>2. r \in Known /\ r.onboarded = ReadFrom(f).onboarded BY <1>1, ResolvedType
<1> HIDE DEF r
<1>3. a \in Known /\ a.onboarded = r.onboarded BY <1>2, WithoutAppleType
<1> HIDE DEF a
<1>4. /\ n \in Stored /\ n.language \in Spoken(n.transcription)
      /\ n.onboarded = a.onboarded
  BY <1>3, NormalizedFits
<1> HIDE DEF n
<1>5. Fit(Matched(n, n.language)) /\ Matched(n, n.language).onboarded = n.onboarded
  BY <1>4, MatchedFits
<1>6. Healed(f, available) = Matched(n, n.language) BY DEF Healed, n, a, r
<1> QED BY <1>1, <1>2, <1>3, <1>4, <1>5, <1>6

\* Settings that fit are what healing makes of them.
LEMMA HealedStable ==
  ASSUME NEW s, Fit(s)
  PROVE  Healed(s, TRUE) = s
<1>1. s \in Stored /\ s \in Known /\ s \in Raw BY StoredKnown DEF Fit
<1>2. s # NoFile BY <1>1, PreferencesAssumption DEF PreferencesAssumption, Raw, Settings
<1>3. ReadFrom(s) = s BY <1>1, <1>2 DEF ReadFrom, Stored, Settings
<1>4. Resolved(s) = s BY <1>1, ResolvedKnown
<1>5. WithoutApple(s, TRUE) = s BY <1>1 DEF WithoutApple, Stored, Settings
<1>6. Normalized(s) = s BY <1>1, NormalizedFits DEF Fit
<1>7. Matched(s, s.language) = s
  <2>1. CASE s.language = Croatian
    BY <1>1, <2>1 DEF Fit, Matched, Stored, Settings
  <2>2. CASE s.language # Croatian
    BY <1>1, <2>2 DEF Fit, Matched, Stored, Settings
  <2> QED BY <2>1, <2>2
<1> QED BY <1>3, <1>4, <1>5, <1>6, <1>7 DEF Healed

\* A launch that has nothing to save starts with what any launch would.
LEMMA HealedSame ==
  ASSUME NEW f \in Raw \cup {NoFile}, NEW available \in BOOLEAN,
         SameFields(Healed(f, available), ReadFrom(f))
  PROVE  Healed(f, TRUE) = Healed(f, available)
<1> DEFINE r == Resolved(ReadFrom(f))
           a == WithoutApple(r, available)
           n == Normalized(a)
<1>1. ReadFrom(f) \in Read BY ReadFromType
<1>2. r \in Known BY <1>1, ResolvedType
<1>3. CASE available \/ r.polishing # Apple
  <2>1. WithoutApple(r, available) = r /\ WithoutApple(r, TRUE) = r
    BY <1>2, <1>3 DEF WithoutApple, Known, Settings
  <2> QED BY <2>1 DEF Healed
<1>4. CASE ~available /\ r.polishing = Apple
  <2>1. ReadFrom(f).polishing = Apple
    BY <1>1, <1>4, PreferencesAssumption DEF PreferencesAssumption, Resolved, Read, Settings
  <2>2. a \in Known /\ a.polishing # Apple BY <1>2, <1>4, WithoutAppleType
  <2>3. n \in Stored /\ n.polishing # Apple BY <2>2, NormalizedFits
  <2>4. Matched(n, n.language).polishing # Apple
    BY <2>3, PreferencesAssumption DEF PreferencesAssumption, Matched, Stored, Settings
  <2> QED BY <2>1, <2>4 DEF Healed, SameFields
<1> QED BY <1>3, <1>4

\* What a save makes of the rows fits.
LEMMA SettledFits ==
  ASSUME NEW rows \in Stored, NEW previous
  PROVE  /\ Fit(Settled(rows, previous))
         /\ Settled(rows, previous).onboarded = rows.onboarded
         /\ Settled(rows, previous).chord = rows.chord
<1> DEFINE m == Matched(rows, previous)
           n == Normalized(Resolved(m))
<1>1. m \in Stored /\ m.onboarded = rows.onboarded /\ m.chord = rows.chord BY MatchedType
<1> HIDE DEF m
<1>2. m \in Known /\ Resolved(m) = m BY <1>1, StoredKnown, ResolvedKnown
<1>3. /\ n \in Stored /\ n.language \in Spoken(n.transcription)
      /\ n.onboarded = m.onboarded /\ n.chord = m.chord
  BY <1>2, NormalizedFits
<1> HIDE DEF n
<1>4. /\ Fit(Matched(n, previous))
      /\ Matched(n, previous).onboarded = n.onboarded /\ Matched(n, previous).chord = n.chord
  BY <1>3, MatchedFits
<1> QED BY <1>1, <1>3, <1>4 DEF Settled, m, n

\* The fallback of a window that opens changes nothing that fits but the polisher.
LEMMA FallbackFits ==
  ASSUME NEW s, Fit(s), NEW available \in BOOLEAN
  PROVE  /\ Fit(WithoutApple(Resolved(s), available))
         /\ WithoutApple(Resolved(s), available).onboarded = s.onboarded
         /\ WithoutApple(Resolved(s), available).chord = s.chord
         /\ Resolved(s) = s
<1>1. s \in Stored /\ s \in Known BY StoredKnown DEF Fit
<1>2. Resolved(s) = s BY <1>1, ResolvedKnown
<1>3. CASE s.polishing = Apple /\ ~available
  BY <1>1, <1>2, <1>3, PreferencesAssumption
  DEF PreferencesAssumption, Fit, WithoutApple, Stored, Settings
<1>4. CASE ~(s.polishing = Apple /\ ~available)
  <2>1. WithoutApple(s, available) = s BY <1>1, <1>4 DEF WithoutApple, Stored, Settings
  <2> QED BY <1>2, <2>1
<1> QED BY <1>2, <1>3, <1>4

-----------------------------------------------------------------------------
(* The invariant *)

\* What runs uses settings that fit, and has asked the daemon for their models.
InUse == running => Fit(memory) /\ chosen = Models(memory)

\* The file gives them back, once they are saved.
Kept ==
  /\ file \in Raw \cup {NoFile}
  /\ unsaved \in BOOLEAN /\ (running /\ ~unsaved => Healed(file, TRUE) = memory)

\* What was seen is in the file and in memory, and nothing shows it again.
Seen ==
  /\ seen \in BOOLEAN
  /\ seen => file # NoFile /\ file.onboarded /\ step = "closed"
  /\ seen /\ running => memory.onboarded
  /\ running /\ step # "closed" => ~memory.onboarded

Rowed ==
  /\ window \in Window \cup {NoWindow}
  /\ ~running => window = NoWindow /\ suspended = FALSE /\ refused = FALSE

\* The rows show the chord in use, unless it could not be saved.
ChordRow == Open /\ ~strayed => window.chord = current

IInv == InUse /\ Kept /\ Seen /\ Rowed /\ OneChordHeard /\ ChordRow

LEMMA InitIInv == Init => IInv
BY DEF Init, IInv, InUse, Kept, Seen, Rowed, OneChordHeard, ChordRow, Raw, Open

\* A file lost with a failed save is no longer one that was seen.
LEMMA NotWrittenSeen ==
  ASSUME Seen, NotWritten, UNCHANGED <<running, step>>,
         memory'.onboarded = memory.onboarded
  PROVE  Seen'
<1>1. CASE file' = NoFile /\ seen' = FALSE BY <1>1 DEF Seen
<1>2. CASE UNCHANGED <<file, seen>> BY <1>2 DEF Seen
<1> QED BY <1>1, <1>2 DEF NotWritten

\* A save of settings that fit, over what memory says of onboarding, whether
\* or not it reaches the file.
LEMMA WrittenKept ==
  ASSUME Kept, Seen, running, Fit(memory),
         NEW s, Fit(s), s.onboarded = memory.onboarded,
         UNCHANGED <<running, step>>,
         \/ Written(s) /\ memory' = s
         \/ NotWritten /\ (memory' = memory \/ memory' = s)
  PROVE  Kept' /\ Seen'
<1>1. s \in Raw /\ s # NoFile /\ s.onboarded \in BOOLEAN
  BY StoredKnown, PreferencesAssumption DEF PreferencesAssumption, Fit, Raw, Stored, Settings
<1>2. Healed(s, TRUE) = s BY HealedStable
<1>3. CASE Written(s) /\ memory' = s
  BY <1>1, <1>2, <1>3 DEF Kept, Seen, Written
<1>4. CASE NotWritten /\ (memory' = memory \/ memory' = s)
  <2>1. memory'.onboarded = memory.onboarded BY <1>4
  <2>2. Kept' BY <1>4 DEF Kept, NotWritten
  <2>3. Seen' BY <1>4, <2>1, NotWrittenSeen
  <2> QED BY <2>2, <2>3
<1> QED BY <1>3, <1>4

LEMMA LaunchIInv == IInv /\ Launch => IInv'
<1> SUFFICES ASSUME IInv, Launch PROVE IInv'
  OBVIOUS
<1>0. InUse /\ Kept /\ Seen /\ Rowed /\ OneChordHeard /\ ~running BY DEF IInv, Launch
<1>1. PICK available \in BOOLEAN :
        LET s == Healed(file, available)
            same == SameFields(s, ReadFrom(file))
        IN  \/ /\ IF same THEN UNCHANGED <<stored, mishaps>> ELSE Written(s)
               /\ Launched(s)
            \/ /\ ~same /\ NotWritten
               /\ UNCHANGED <<running, memory, chosen, window, chord, phaseIdle, granted, flow>>
  BY DEF Launch
<1> DEFINE s == Healed(file, available)
           same == SameFields(s, ReadFrom(file))
<1>2. Fit(s) /\ (file # NoFile => s.onboarded = file.onboarded)
  BY <1>0, HealedFits DEF Kept
<1>3. same => Healed(file, TRUE) = s BY <1>0, HealedSame DEF Kept
<1>4. Healed(s, TRUE) = s BY <1>2, HealedStable
<1>5. s \in Raw /\ s # NoFile /\ s.onboarded \in BOOLEAN
  BY <1>2, StoredKnown, PreferencesAssumption
  DEF PreferencesAssumption, Fit, Raw, Stored, Settings
<1>6. CASE Launched(s) /\ IF same THEN UNCHANGED <<stored, mishaps>> ELSE Written(s)
  <2> HIDE DEF s, same
  <2>1. InUse' /\ Rowed' /\ ChordRow' BY <1>0, <1>2, <1>6 DEF Launched, InUse, Rowed, ChordRow, Open
  <2>2. OneChordHeard' BY <1>0, <1>6 DEF Launched, OneChordHeard, Rowed, Open
  <2>3. Kept' BY <1>0, <1>3, <1>4, <1>5, <1>6 DEF Launched, Kept, Written, stored
  <2>4. s.onboarded => step' = "closed" BY <1>6 DEF Launched, Needed
  <2>5. Seen' BY <1>0, <1>2, <1>5, <1>6, <2>4 DEF Launched, Seen, Written, stored
  <2> QED BY <2>1, <2>2, <2>3, <2>5 DEF IInv
<1>7. CASE NotWritten /\ UNCHANGED <<running, memory, chosen, window, chord, phaseIdle, granted, flow>>
  <2>1. Seen' BY <1>0, <1>7, NotWrittenSeen DEF flow
  <2>2. Kept' BY <1>0, <1>7 DEF NotWritten, Kept
  <2>3. InUse' /\ Rowed' /\ OneChordHeard' /\ ChordRow'
    BY <1>0, <1>7 DEF InUse, Rowed, OneChordHeard, ChordRow, Open, chord
  <2> QED BY <2>1, <2>2, <2>3 DEF IInv
<1> QED BY <1>1, <1>6, <1>7

\* Everything a save of the window changes.
LEMMA SaveIInv ==
  ASSUME InUse, Kept, Seen, running,
         NEW w \in Window, Save(w), UNCHANGED <<running, step>>
  PROVE  /\ InUse' /\ Kept' /\ Seen'
         /\ window' \in Window /\ window'.capturing = w.capturing /\ window'.chord = w.chord
         /\ memory'.chord = w.chord \/ (unsaved' /\ memory' = memory)
         /\ unsaved' \in BOOLEAN
<1> DEFINE s == Settled(Rows(w), memory.language)
<1>1. Rows(w) \in Stored /\ Rows(w).onboarded = memory.onboarded /\ Rows(w).chord = w.chord
  BY DEF Rows, Window, Stored, Settings, InUse, Fit
<1>2. Fit(s) /\ s.onboarded = memory.onboarded /\ s.chord = w.chord BY <1>1, SettledFits
<1> HIDE DEF s
<1>3. /\ window' = [w EXCEPT !.language = s.language, !.transcription = s.transcription,
                             !.polishing = s.polishing]
      /\ \/ Written(s) /\ memory' = s /\ chosen' = Models(s)
         \/ NotWritten /\ UNCHANGED <<memory, chosen>>
  BY DEF Save, s
<1>4. Kept' /\ Seen' BY <1>2, <1>3, WrittenKept DEF InUse
<1>5. InUse' BY <1>2, <1>3 DEF InUse
<1>6. window' \in Window /\ window'.capturing = w.capturing /\ window'.chord = w.chord
  <2>1. s.language \in Languages /\ s.transcription \in Transcribers /\ s.polishing \in Polishers
    BY <1>2 DEF Fit, Stored, Settings
  <2> QED BY <1>3, <2>1 DEF Window
<1>7. memory'.chord = w.chord \/ (unsaved' /\ memory' = memory)
  BY <1>2, <1>3 DEF NotWritten
<1>8. unsaved' \in BOOLEAN BY <1>3 DEF Written, NotWritten
<1> QED BY <1>4, <1>5, <1>6, <1>7, <1>8

\* The registrations, while the window is not touched by anything else.
LEMMA ChordsKept ==
  ASSUME OneChordHeard, UNCHANGED <<running, chord>>, running => memory'.chord = memory.chord,
         (Open /\ window.capturing)' = (Open /\ window.capturing)
  PROVE  OneChordHeard'
BY DEF OneChordHeard, chord

LEMMA WindowIInv ==
  ASSUME IInv, OpenWindow \/ Select \/ CloseWindow
  PROVE  IInv'
<1>0. InUse /\ Kept /\ Seen /\ Rowed /\ OneChordHeard /\ running
  BY DEF IInv, OpenWindow, Select, CloseWindow, Open
<1>a. ChordRow BY DEF IInv
<1>1. CASE OpenWindow
  <2>1. PICK available \in BOOLEAN :
          LET s == WithoutApple(Resolved(memory), available)
          IN  /\ window' = [language |-> s.language, transcription |-> s.transcription,
                            polishing |-> s.polishing, chord |-> s.chord,
                            capturing |-> FALSE, apple |-> available,
                            onboarded |-> s.onboarded]
              /\ IF WithoutApple(memory, available) # memory
                 THEN /\ memory' = s /\ chosen' = Models(s)
                      /\ Written(s) \/ NotWritten
                 ELSE UNCHANGED <<memory, chosen, stored, mishaps>>
    BY <1>1 DEF OpenWindow
  <2> DEFINE s == WithoutApple(Resolved(memory), available)
  <2>2. UNCHANGED <<running, chord, phaseIdle, granted, flow>> /\ window = NoWindow
    BY <1>1 DEF OpenWindow
  <2>3. Fit(memory) /\ Fit(s) /\ s.onboarded = memory.onboarded /\ s.chord = memory.chord
    BY <1>0, FallbackFits DEF InUse
  <2> HIDE DEF s
  <2>4. /\ window' = [language |-> s.language, transcription |-> s.transcription,
                      polishing |-> s.polishing, chord |-> s.chord,
                      capturing |-> FALSE, apple |-> available, onboarded |-> s.onboarded]
        /\ \/ memory' = s /\ chosen' = Models(s) /\ (Written(s) \/ NotWritten)
           \/ UNCHANGED <<memory, chosen, stored, mishaps>>
    BY <2>1 DEF s
  <2>5. window' \in Window /\ ~window'.capturing BY <2>3, <2>4 DEF Window, Fit, Stored, Settings
  <2>6. Rowed' BY <1>0, <2>2, <2>5 DEF Rowed
  <2>7. OneChordHeard' BY <1>0, <2>2, <2>3, <2>4, <2>5, ChordsKept DEF Open
  <2>10. ChordRow' BY <1>0, <2>2, <2>3, <2>4 DEF ChordRow, OneChordHeard, chord
  <2>8. InUse' BY <1>0, <2>2, <2>3, <2>4 DEF InUse
  <2>9. Kept' /\ Seen'
    <3>1. CASE memory' = s /\ (Written(s) \/ NotWritten)
      BY <1>0, <2>2, <2>3, <3>1, WrittenKept DEF flow
    <3>2. CASE UNCHANGED <<memory, stored>>
      BY <1>0, <2>2, <3>2 DEF Kept, Seen, stored, flow
    <3> QED BY <2>4, <3>1, <3>2
  <2> QED BY <2>6, <2>7, <2>8, <2>9, <2>10 DEF IInv
<1>2. CASE Select
  <2>1. UNCHANGED <<running, chord, phaseIdle, granted, flow>> /\ window # NoWindow
        /\ window \in Window
    BY <1>0, <1>2 DEF Select, Open, Rowed
  <2>2. PICK w \in Window : Save(w) /\ w.capturing = window.capturing /\ w.chord = window.chord
    <3>1. CASE \E l \in Spoken(window.transcription) : Save([window EXCEPT !.language = l])
      <4>1. PICK l \in Spoken(window.transcription) : Save([window EXCEPT !.language = l])
        BY <3>1
      <4>2. l \in Languages BY <2>1, <4>1, SpokenLanguages DEF Window
      <4> QED BY <2>1, <4>1, <4>2 DEF Window
    <3>2. CASE \E t \in Transcribers : Save([window EXCEPT !.transcription = t])
      BY <2>1, <3>2 DEF Window
    <3>3. CASE \E p \in {q \in Polishers : q = Apple => window.apple} :
                 Save([window EXCEPT !.polishing = p])
      BY <2>1, <3>3 DEF Window
    <3> QED BY <1>2, <3>1, <3>2, <3>3 DEF Select
  <2>3. /\ InUse' /\ Kept' /\ Seen'
        /\ window' \in Window /\ window'.capturing = w.capturing /\ window'.chord = w.chord
        /\ memory'.chord = w.chord \/ memory' = memory
    BY <1>0, <2>1, <2>2, SaveIInv DEF flow
  <2>4. window' # NoWindow
    BY <2>3, PreferencesAssumption DEF PreferencesAssumption, Window
  <2>5. ChordRow' BY <1>a, <2>1, <2>2, <2>3 DEF ChordRow, Open, chord
  <2>6. strayed \/ memory'.chord = current BY <1>a, <1>0, <2>1, <2>2, <2>3 DEF ChordRow, OneChordHeard, Open
  <2>7. OneChordHeard' BY <1>0, <2>1, <2>2, <2>3, <2>4, <2>6 DEF OneChordHeard, Open, chord
  <2> QED BY <1>0, <2>1, <2>3, <2>5, <2>7 DEF IInv, Rowed
<1>3. CASE CloseWindow
  <2>1. InUse' /\ Kept' /\ Seen' /\ Rowed'
    BY <1>0, <1>3 DEF CloseWindow, InUse, Kept, Seen, Rowed, stored, flow
  <2>2. OneChordHeard'
    <3>1. Open /\ ~Open' /\ UNCHANGED <<running, memory>> BY <1>3 DEF CloseWindow, Open
    <3>2. CASE window.capturing
      <4>1. Resumed /\ suspended BY <1>0, <1>3, <3>1, <3>2 DEF CloseWindow, OneChordHeard
      <4> QED BY <1>0, <3>1, <4>1 DEF OneChordHeard, Resumed
    <3>3. CASE ~window.capturing
      <4>1. UNCHANGED chord /\ ~suspended BY <1>0, <1>3, <3>1, <3>3 DEF CloseWindow, OneChordHeard
      <4> QED BY <1>0, <3>1, <4>1 DEF OneChordHeard, chord
    <3> QED BY <3>2, <3>3
  <2>3. ChordRow' BY <1>3 DEF CloseWindow, ChordRow, Open
  <2> QED BY <2>1, <2>2, <2>3 DEF IInv
<1> QED BY <1>1, <1>2, <1>3

LEMMA CaptureIInv ==
  ASSUME IInv, Capture \/ EndCapture \/ (\E c \in Chords : RecordChord(c))
  PROVE  IInv'
<1>0. /\ InUse /\ Kept /\ Seen /\ Rowed /\ OneChordHeard /\ running
      /\ window \in Window /\ window # NoWindow /\ ChordRow
  BY DEF IInv, Capture, EndCapture, RecordChord, Open, Rowed
<1>1. \A b \in BOOLEAN :
        /\ [window EXCEPT !.capturing = b] \in Window
        /\ [window EXCEPT !.capturing = b].capturing = b
        /\ [window EXCEPT !.capturing = b].chord = window.chord
  BY <1>0 DEF Window
<1>a. \A b \in BOOLEAN, c \in Chords :
        /\ [window EXCEPT !.capturing = b, !.chord = c] \in Window
        /\ [window EXCEPT !.capturing = b, !.chord = c].capturing = b
        /\ [window EXCEPT !.capturing = b, !.chord = c].chord = c
  BY <1>0 DEF Window
<1>2. NoWindow \notin Window BY PreferencesAssumption DEF PreferencesAssumption, Window
<1>3. CASE Capture
  <2>1. window' \in Window /\ window'.capturing /\ window' # NoWindow
    BY <1>1, <1>2, <1>3 DEF Capture
  <2>2. InUse' /\ Kept' /\ Seen' /\ Rowed'
    BY <1>0, <1>3, <2>1 DEF Capture, InUse, Kept, Seen, Rowed, stored, flow
  <2>3. OneChordHeard'
    BY <1>0, <1>3, <2>1 DEF Capture, OneChordHeard, Suspended, Open
  <2>4. ChordRow' BY <1>0, <1>1, <1>3 DEF Capture, ChordRow, Suspended, Open
  <2> QED BY <2>2, <2>3, <2>4 DEF IInv
<1>4. CASE EndCapture
  <2>1. window' \in Window /\ ~window'.capturing /\ window' # NoWindow
    BY <1>1, <1>2, <1>4 DEF EndCapture
  <2>2. InUse' /\ Kept' /\ Seen' /\ Rowed'
    BY <1>0, <1>4, <2>1 DEF EndCapture, InUse, Kept, Seen, Rowed, stored, flow
  <2>3. OneChordHeard'
    BY <1>0, <1>4, <2>1 DEF EndCapture, OneChordHeard, Resumed, Open
  <2>4. ChordRow' BY <1>0, <1>1, <1>4 DEF EndCapture, ChordRow, Resumed, Open
  <2> QED BY <2>2, <2>3, <2>4 DEF IInv
<1>5. ASSUME NEW c \in Chords, RecordChord(c) PROVE IInv'
  <2>1. CASE Mishap /\ UNCHANGED <<stored, window, memory, chosen, chord>>
    <3>1. InUse' /\ Kept' /\ Seen' /\ Rowed'
      BY <1>0, <1>5, <2>1 DEF RecordChord, InUse, Kept, Seen, Rowed, stored, chord, flow
    <3>2. OneChordHeard' BY <1>0, <1>5, <2>1, ChordsKept DEF RecordChord, Open
    <3>3. ChordRow' BY <1>0, <1>5, <2>1 DEF RecordChord, ChordRow, Open, chord
    <3> QED BY <3>1, <3>2, <3>3 DEF IInv
  <2>2. CASE Committed(c) /\ Save([window EXCEPT !.capturing = FALSE, !.chord = c]) /\ strayed' = unsaved'
    <3> DEFINE w == [window EXCEPT !.capturing = FALSE, !.chord = c]
    <3>1. w \in Window /\ w.capturing = FALSE /\ w.chord = c BY <1>a
    <3>2. Save(w) BY <2>2
    <3> HIDE DEF w
    <3>3. UNCHANGED <<running, step>> BY <1>5 DEF RecordChord, flow
    <3>4. /\ InUse' /\ Kept' /\ Seen'
          /\ window' \in Window /\ window'.capturing = FALSE /\ window'.chord = c
          /\ memory'.chord = c \/ unsaved'
          /\ unsaved' \in BOOLEAN
      BY <1>0, <3>1, <3>2, <3>3, SaveIInv
    <3>5. window' # NoWindow BY <1>2, <3>4
    <3>6. Rowed' BY <1>0, <3>3, <3>4 DEF Rowed
    <3>7. suspended /\ registered \subseteq stuck BY <1>0, <1>5 DEF RecordChord, OneChordHeard, Open
    <3>8. OneChordHeard' BY <2>2, <3>4, <3>7 DEF OneChordHeard, Committed, Open
    <3>9. ChordRow' BY <2>2, <3>4 DEF ChordRow, Committed, Open
    <3> QED BY <3>4, <3>6, <3>8, <3>9 DEF IInv
  <2> QED BY <1>5, <2>1, <2>2 DEF RecordChord
<1> QED BY <1>3, <1>4, <1>5

\* What the flow does when it moves, or goes.
LEMMA MovesToIInv ==
  ASSUME InUse, Kept, Seen, running, step # "closed",
         NEW to, MovesTo(to), UNCHANGED <<running, chosen>>
  PROVE  InUse' /\ Kept' /\ Seen' /\ memory'.chord = memory.chord
<1>1. CASE to # "closed" \/ memory.onboarded
  BY <1>1 DEF MovesTo, Remembered, InUse, Kept, Seen, stored
<1>2. CASE to = "closed" /\ ~memory.onboarded
  <2> DEFINE s == [memory EXCEPT !.onboarded = TRUE]
  <2>1. memory \in Stored /\ Fit(memory) BY DEF InUse, Fit
  <2>2. Fit(s) /\ s.onboarded = TRUE /\ Models(s) = Models(memory) /\ s.chord = memory.chord
    BY <2>1 DEF Fit, Stored, Settings, Models
  <2>3. memory' = s /\ step' = "closed" /\ (Written(s) \/ NotWritten)
    BY <1>2 DEF MovesTo, Remembered
  <2> HIDE DEF s
  <2>4. InUse' BY <2>2, <2>3 DEF InUse
  <2>5. s \in Raw /\ s # NoFile
    BY <2>2, StoredKnown, PreferencesAssumption
    DEF PreferencesAssumption, Fit, Raw, Stored, Settings
  <2>6. Healed(s, TRUE) = s BY <2>2, HealedStable
  <2>7. CASE Written(s)
    BY <2>2, <2>3, <2>5, <2>6, <2>7, <2>4 DEF Kept, Seen, Written
  <2>8. CASE NotWritten
    <3>1. Kept' BY <2>8 DEF Kept, NotWritten
    <3>2. seen = FALSE BY DEF Seen
    <3>3. seen' = FALSE BY <2>8, <3>2 DEF NotWritten
    <3> QED BY <2>2, <2>3, <2>4, <3>1, <3>3 DEF Seen
  <2> QED BY <2>3, <2>7, <2>8, <2>4
<1> QED BY <1>1, <1>2

LEMMA FlowIInv ==
  ASSUME IInv, Act \/ Observe \/ CloseOnboarding
  PROVE  IInv'
<1>0. InUse /\ Kept /\ Seen /\ Rowed /\ OneChordHeard /\ running /\ step # "closed"
  BY DEF IInv, Act, Observe, CloseOnboarding
<1>1. UNCHANGED <<running, chosen, window, chord>> /\ \E to : MovesTo(to)
  BY DEF Act, Observe, CloseOnboarding
<1>2. InUse' /\ Kept' /\ Seen' /\ memory'.chord = memory.chord BY <1>0, <1>1, MovesToIInv
<1>3. Rowed' BY <1>0, <1>1 DEF Rowed, chord
<1>4. OneChordHeard' BY <1>0, <1>1, <1>2, ChordsKept DEF Open
<1>5. ChordRow' BY <1>1 DEF IInv, ChordRow, Open, chord
<1> QED BY <1>2, <1>3, <1>4, <1>5 DEF IInv

LEMMA NextIInv == IInv /\ [Next]_vars => IInv'
<1> SUFFICES ASSUME IInv, [Next]_vars PROVE IInv'
  OBVIOUS
<1>0. InUse /\ Kept /\ Seen /\ Rowed /\ OneChordHeard /\ ChordRow BY DEF IInv
<1>1. CASE Launch BY <1>1, LaunchIInv
<1>2. CASE Stop
  BY <1>0, <1>2
  DEF Stop, Off, stored, IInv, InUse, Kept, Seen, Rowed, OneChordHeard, ChordRow, Open
<1>3. CASE OpenWindow \/ Select \/ CloseWindow BY <1>3, WindowIInv
<1>4. CASE Capture \/ EndCapture \/ (\E c \in Chords : RecordChord(c)) BY <1>4, CaptureIInv
<1>5. CASE Act \/ Observe \/ CloseOnboarding BY <1>5, FlowIInv
<1>6. CASE UNCHANGED <<stored, running, memory, chosen, window, chord, flow>>
  <2>1. OneChordHeard' BY <1>0, <1>6, ChordsKept DEF Open
  <2> QED BY <1>0, <1>6, <2>1 DEF IInv, InUse, Kept, Seen, Rowed, ChordRow, Open, stored, chord, flow
<1>7. Dictate \/ Prompt \/ Grant \/ UNCHANGED vars
        => UNCHANGED <<stored, running, memory, chosen, window, chord, flow>>
  BY DEF Dictate, Prompt, Grant, vars
<1> QED BY <1>1, <1>2, <1>3, <1>4, <1>5, <1>6, <1>7 DEF Next

LEMMA SpecIInv == Spec => []IInv
BY InitIInv, NextIInv, PTL DEF Spec

-----------------------------------------------------------------------------
\* For any catalog, no choice in the window, no file found at launch and no
\* fallback leaves a language with models that cannot serve it.
THEOREM LanguagesAlwaysFit == Spec => []LanguagesFit
<1>1. IInv => LanguagesFit BY DEF IInv, InUse, Fit, LanguagesFit
<1> QED BY <1>1, SpecIInv, PTL

\* However captures start and end and whatever the system refuses, the chord in use is
\* the only one heard but for those that the system would not unregister, it is missing
\* only where resume was refused, and it is the one the settings hold unless it could not
\* be saved.
THEOREM ChordHeardOnce == Spec => []OneChordHeard
<1>1. IInv => OneChordHeard BY DEF IInv
<1> QED BY <1>1, SpecIInv, PTL

\* Onboarding that was saved as seen stays seen, while the file is not lost.
THEOREM OnboardedForGood == Spec => []OnboardingNeverReturns
<1>1. IInv => OnboardingNeverReturns BY DEF IInv, Seen, OnboardingNeverReturns
<1> QED BY <1>1, SpecIInv, PTL

\* A restart gives back the settings that were saved: healing is idempotent.
THEOREM SettingsSurvive == Spec => []RestartKeepsSettings
<1>1. IInv => RestartKeepsSettings BY DEF IInv, Kept, RestartKeepsSettings
<1> QED BY <1>1, SpecIInv, PTL
=============================================================================
