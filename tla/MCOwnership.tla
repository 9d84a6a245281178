---------------------------- MODULE MCOwnership ----------------------------
(***************************************************************************)
(* One client and the daemons it starts, meets and retires, and a daemon   *)
(* somebody else may start at any time; and, without Bounded, two clients  *)
(* that race.                                                              *)
(***************************************************************************)
EXTENDS Ownership

\* The models are interchangeable: one of them is the one selected first.
MCInit == Init /\ want = [c \in Clients |-> CHOOSE m \in Models : TRUE]

MCFairSpec == MCInit /\ [][Next]_vars /\ Fairness

\* Bound: after a race, and of switches once others start daemons, neither property says
\* anything; without switches and faults two spawners still race in every order.
Bounded == ~raced /\ (foreign # {} => switches = 0 /\ faults = 0)
=============================================================================
