\* One client whose selection changes twice, over any first daemon and files,
\* with crashes, idle exits and timeouts; or a daemon of somebody else's beside it.
SPECIFICATION MCFairSpec
CONSTRAINT Bounded
CONSTANTS
  Clients = {c1}
  Models = {m1, m2}
  Other = Other
  MaxDaemons = 5
  MaxForeign = 1
  MaxFaults = 1
  MaxSwitches = 2

  
PROPERTIES
  SwitchTakesEffect
\* After Quit nothing may be left to do.
CHECK_DEADLOCK FALSE
