\* Two clients that spawn a daemon each over the files a crash left.
SPECIFICATION Spec
CONSTANTS
  Clients = {c1, c2}
  Models = {m1}
  Other = Other
  MaxDaemons = 3
  MaxForeign = 0
  MaxFaults = 0
  MaxSwitches = 0
INVARIANTS
  NoneIsUnlinked
CHECK_DEADLOCK FALSE
