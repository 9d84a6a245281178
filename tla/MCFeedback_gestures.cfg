SPECIFICATION FFairSpec
CONSTANTS
    Devices = {speakers, headset}
    NoDevice = NoDevice
    Contents = {words, files}
    Readable = {words}
    Nothing = nothing
    Dictated = dictated
    MaxPresses = 2
    MaxEscapes = 1
    MaxChunks = 1
    MaxChanges = 1
INVARIANTS
    SessionsFramed
    PillTellsTheTruth
    PlaybackRestored
    HoldHasItsKey
    BloomMeansWords
    ClipboardGivenBack
    OneStandingPill
PROPERTIES
    ErrorIsSeen
    PillComesToRest
CHECK_DEADLOCK FALSE
