---------------------------- MODULE MCVoiceCall ----------------------------
(* Small instances of VoiceCall for TLC. *)
EXTENDS VoiceCall
=============================================================================
