--------------------------- MODULE MCPreferences ---------------------------
(***************************************************************************)
(* Three languages and the three kinds of transcription model: one without *)
(* Croatian, one with it, and one that speaks nothing else.                *)
(***************************************************************************)
EXTENDS Preferences

CONSTANTS en, de, hr, flash, wide, dictateHr

MCSpeaks == [t \in {flash, wide, dictateHr} |->
               IF t = flash THEN <<en, de>>
               ELSE IF t = wide THEN <<de, en, hr>> ELSE <<hr>>]
=============================================================================
