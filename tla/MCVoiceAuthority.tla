------------------------- MODULE MCVoiceAuthority -------------------------
(***************************************************************************)
(* Small instances of VoiceAuthority for TLC.                              *)
(***************************************************************************)
EXTENDS VoiceAuthority, TLC

CONSTANTS o1, o2, c1

\* Every operation is for the same channel: a new join or a recovery, and a move
\* into the channel the member is in, which the API allows.
OneChannel == [o \in Op |-> c1]

\* Handlers differ only in what they have read.
JobSymmetry == Permutations(Job)
=============================================================================
