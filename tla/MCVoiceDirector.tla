-------------------------- MODULE MCVoiceDirector --------------------------
(***************************************************************************)
(* Small instances of VoiceDirector for TLC.                               *)
(***************************************************************************)
EXTENDS VoiceDirector, TLC

\* Channels are only compared with one another.
ChannelSymmetry == Permutations(Channel)
=============================================================================
