\* Three dictations, two refusals, any device present, absent or chosen at any time.
SPECIFICATION MSpec
CONSTANTS
  Names = {builtin, airpods}
  None = None
  Rates = {24, 48}
  MaxPlugs = 2
  MaxRefusals = 2
  MaxSessions = 3
INVARIANTS
  FailsOnce
  RightMicrophone
\* The dictations are bounded.
CHECK_DEADLOCK FALSE
