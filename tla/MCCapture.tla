----------------------------- MODULE MCCapture -----------------------------
(***************************************************************************)
(* A small session for TLC: frames of 2 samples, pieces of up to 12, a     *)
(* device at one and a half times the target rate.                         *)
(***************************************************************************)
EXTENDS Capture
=============================================================================
