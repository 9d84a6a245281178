---------------------------- MODULE MCTransport ----------------------------
(***************************************************************************)
(* Transport on a small instance. The two model pairs are interchangeable, *)
(* so it starts with the first of them wanted; only the dictations before  *)
(* the last speak more than one chunk.                                     *)
(***************************************************************************)
EXTENDS Transport

MCInit     == Init /\ desired = CHOOSE m \in Models : TRUE
MCFairSpec == MCInit /\ [][Next]_vars /\ Fairness
Bounded    == cur = NumDictations => spoken <= 1

=============================================================================
