--------------------------- MODULE HostLifecycle ---------------------------
(***************************************************************************)
(* What the media runtime promises about the utility process that owns the *)
(* microphone, the camera, the screen and the LiveKit engine: processes    *)
(* are numbered in the order they are started, one starts only after every *)
(* earlier one is gone, at most the latest serves, and one that was given  *)
(* up never serves again.                                                  *)
(* MediaRuntimeSupervisor implements this specification and TextureLeases  *)
(* is built on it.                                                         *)
(***************************************************************************)
EXTENDS Naturals

VARIABLES
  epoch,    \* number of the latest process, 0 before the first
  running,  \* numbers of the processes that exist
  serving,  \* number of the process whose handshake is accepted, or 0
  over      \* the latest process is given up

hostVars == <<epoch, running, serving, over>>

HostInit == epoch = 0 /\ running = {} /\ serving = 0 /\ over = TRUE

\* A process is started, or its number is used up by one that could not be.
Launch ==
  /\ running = {} /\ over
  /\ epoch' = epoch + 1
  /\ running' \in {{}, {epoch'}}
  /\ over' = (running' = {})
  /\ UNCHANGED serving

\* The latest process shakes hands.
Serve ==
  /\ serving = 0 /\ ~over
  /\ serving' = epoch
  /\ UNCHANGED <<epoch, running, over>>

\* The latest process is given up: it died, failed, or has to stop.
Abandon ==
  /\ ~over /\ over' = TRUE
  /\ serving' = 0
  /\ UNCHANGED <<epoch, running>>

\* The operating system ends a process.
Die ==
  /\ \E e \in running : running' = running \ {e}
  /\ UNCHANGED <<epoch, serving, over>>

HostNext == Launch \/ Serve \/ Abandon \/ Die

HostSpec == HostInit /\ [][HostNext]_hostVars
=============================================================================
