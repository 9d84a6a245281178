---------------------------- MODULE MCDaemonServe ----------------------------
(***************************************************************************)
(* DaemonServe on a small instance. The clients are alike, so one of them  *)
(* is the first to connect; the other sends two frames at most.            *)
(***************************************************************************)
EXTENDS DaemonServe

First   == CHOOSE c \in Clients : TRUE
InTurn  == (\E c \in Clients : sock[c].at # "out") => sock[First].at # "out"
Bounded == InTurn /\ \A c \in Clients \ {First} : sock[c].sent <= 2

=============================================================================
