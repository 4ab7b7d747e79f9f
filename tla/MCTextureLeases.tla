-------------------------- MODULE MCTextureLeases --------------------------
(***************************************************************************)
(* A small instance of TextureLeases for TLC.                              *)
(***************************************************************************)
EXTENDS TextureLeases

\* One slot that is used for every frame.
OneSlot == [k \in Key |-> 1]
=============================================================================
