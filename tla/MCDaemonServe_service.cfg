\* Two clients of the daemon, one of three frames and one of two, either of whom may
\* start with a frame that is no greeting.
SPECIFICATION FairSpec
CONSTANTS
    Clients = {c1, c2}
    Mismatched = {}
    Nobody = Nobody
    Greetings = {"Hello", "Chunk"}
    Commands = {"Hello", "QuietStart", "Chunk", "Flush", "Cancel"}
    MaxFrames = 3
CONSTRAINT Bounded
INVARIANTS
    UnackedAreCounted
    HistoryIsOneClients
PROPERTIES
    Implements
    HandoverCompletes
    EveryoneServed
CHECK_DEADLOCK FALSE
