\* Any file at the first launch, any choice in the window, both orders of the two
\* windows, one mishap.
SPECIFICATION Spec
CONSTANTS
  en = en
  de = de
  hr = hr
  flash = flash
  wide = wide
  dictateHr = dictateHr
  Languages = {en, de, hr}
  English = en
  Croatian = hr
  Speaks <- MCSpeaks
  Polishers = {small, polisherHr, apple}
  DefaultTranscription = flash
  CroatianTranscription = dictateHr
  DefaultPolishing = small
  CroatianPolishing = polisherHr
  Apple = apple
  Chords = {k1, k2}
  DefaultChord = k1
  Unknown = Unknown
  NoFile = NoFile
  NoWindow = NoWindow
  MaxMishaps = 1
INVARIANTS
  LanguagesFit
  OneChordHeard
  OnboardingNeverReturns
  RestartKeepsSettings
