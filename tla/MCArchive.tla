----------------------------- MODULE MCArchive -----------------------------
(***************************************************************************)
(* Two dictations over a history of two rows and one retained clip.        *)
(***************************************************************************)
EXTENDS Archive
=============================================================================
