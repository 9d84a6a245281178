\* Faults enough to use up the retries of one fetch, three mishaps, so that one
\* can hit what the other left; two sessions of two chunks, of a quarter and a
\* whole second, transcripts of which the longest do not fit the context.
SPECIFICATION IFairSpec
CONSTANTS
  NoDir = NoDir
  NoDirectory = NoDir
  Selected <- MCSelected
  DirOf <- MCDirOf
  Size = 2
  Retries = 3
  MaxFaults = 4
  MaxMishaps = 3
  Models <- MCModels
  Names = {"canary", "weights", "vocab", "polisher-hr"}
  Defaults <- MCSelection
  Selection <- MCSelection
  Languages = {"en", "de", "hr"}
  DefaultLanguage = "en"
  Word = {"No", "no", "wait"}
  Folded <- MCFolded
  Texts <- MCTexts
  Clips = {1, 4}
  NCtx = 12
  Overheads = {1, 2}
  Margin = 1
  TrainedLimit = 6
  MaxSessions = 2
  MaxChunks = 2
INVARIANTS
  OnlyVerified
  ContextHolds
  NothingInvented
PROPERTIES
  Implements
  ProvisionedInTheEnd
\* A daemon that has served its sessions and meets no further mishap waits.
CHECK_DEADLOCK FALSE
