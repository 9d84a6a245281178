---------------------------- MODULE MCMicrophone ----------------------------
(***************************************************************************)
(* Two microphones, of which one may come back once with another rate.     *)
(***************************************************************************)
EXTENDS Microphone
=============================================================================
