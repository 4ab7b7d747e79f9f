------------------------- MODULE MCVoiceSnapshots -------------------------
(***************************************************************************)
(* Small instances of VoiceSnapshots for TLC.                              *)
(***************************************************************************)
EXTENDS VoiceSnapshots

CONSTANTS none, o1, o2
=============================================================================
