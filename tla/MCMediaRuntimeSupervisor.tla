---------------------- MODULE MCMediaRuntimeSupervisor ----------------------
(***************************************************************************)
(* A small instance of MediaRuntimeSupervisor for TLC.                     *)
(***************************************************************************)
EXTENDS MediaRuntimeSupervisor, TLC
=============================================================================
