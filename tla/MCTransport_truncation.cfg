\* One dictation of two chunks whose connection dies between them.
SPECIFICATION Spec
CONSTANTS
  NumDictations = 1
  NumReruns = 1
  SpokenChunks = 2
  ClipChunks = 1
  Models = {m1, m2}
  NoModel = NoModel
  MaxFaults = 1
INVARIANTS
  NothingTruncated
CHECK_DEADLOCK FALSE
