\* Two dictations and a rerun over a connection that fails once, or one switch
\* between two model pairs, and the fairness of the transport thread's loop.
SPECIFICATION MCFairSpec
CONSTANTS
  NumDictations = 2
  NumReruns = 1
  SpokenChunks = 2
  ClipChunks = 1
  Models = {m1, m2}
  NoModel = NoModel
  MaxFaults = 1
CONSTRAINT Bounded
INVARIANTS
  StaleIsOwed
  HeardWhole
  DeadMarkIsTrue
  OwnText
  RerunOwnText
  IdleWhenQuiet
PROPERTIES
  RerunReplied
\* The dictations and reruns are bounded.
CHECK_DEADLOCK FALSE
