\* A microphone that comes back under its name with another rate.
SPECIFICATION MSpec
CONSTANTS
  Names = {builtin, airpods}
  None = None
  Rates = {24, 48}
  MaxPlugs = 2
  MaxRefusals = 2
  MaxSessions = 2
INVARIANTS
  ResampledFromItsRate
\* The dictations are bounded.
CHECK_DEADLOCK FALSE
