\* A session of up to 13 frames over a 3:2 resampler: long enough for a speech
\* cut at the limit, a pause shorter than the ring, and a held short segment.
SPECIFICATION Spec
CONSTANTS
  From = 3
  To = 2
  Frame = 2
  Onset = 2
  Prefill = 3
  Hangover = 2
  MinChunk = 5
  MaxPiece = 12
  Search = 6
  Window = 2
  Batches = {13, 16}
  MaxHeard = 42
  MaxErrors = 1
INVARIANTS
  SpeechIntact
  PiecesFit
  LastWordHeard
\* The session ends for good.
CHECK_DEADLOCK FALSE
