--------------------------- MODULE TextureLeases ---------------------------
(***************************************************************************)
(* Zero-copy video: the media host exports GPU textures, the Electron main *)
(* process imports them and hands them to the renderer, and a texture's    *)
(* slot may be written again only when nobody reads it any more.           *)
(*                                                                         *)
(* One video stream.  The native side is the export owner and the pool of  *)
(* slots (frame_export_owner.cpp, shared_texture_pool.cpp), reached by     *)
(* queryFrames requests that may time out; the main process is             *)
(* MediaFrameController, TextureLeaseBridge and ElectronFrameTransfers.    *)
(* Hosts come and go as HostLifecycle promises.  Their frames are keyed    *)
(* generation:sequence:slot and every host counts from the start again, so *)
(* a lease is a pair of a host's epoch and a key.                          *)
(***************************************************************************)
EXTENDS HostLifecycle, FiniteSets, Sequences

CONSTANTS
  Key,         \* generation:sequence:slot of an exported frame
  SlotOf,      \* [Key -> slot]
  Cap,         \* leases of a stream at a time, on both sides
  MaxEpoch,    \* bound: hosts that are started
  MaxRenderer, \* bound: renderers
  MaxInbox     \* bound: queries the host has not handled when one more is sent

ASSUME ConstantsOK ==
  /\ IsFiniteSet(Key) /\ Cap \in Nat \ {0}
  /\ MaxEpoch \in Nat /\ MaxRenderer \in Nat /\ MaxInbox \in Nat \ {0}

VARIABLES
  entry,     \* native: [Key -> what the export owner has of the frame]
  shownTo,   \* native: the renderer the frame was exported for
  inbox,     \* queries the host has not handled, each the releases it carries
  query,     \* the controller's query (framePending)
  mainEpoch, \* the controller's epoch
  releases,  \* keys to be sent with the next query
  bridge,    \* [Lease -> the entry in its TextureLeaseBridge]
  active,    \* leases in a bridge of "bridges", not of "retired"
  renderer,  \* the controller's renderer, 0 for none
  renderers, \* renderers so far (nextRendererEpoch)
  alive,     \* renderers whose process lives
  framed,    \* renderers whose frame is not destroyed
  kept,      \* textures in ElectronFrameTransfers.entries
  mainRef,   \* of these: mainReference
  out,       \* of these: the receiver has not released
  final,     \* of these: finalizing, the GPU is not done
  hold       \* [Lease -> what the receiver does with the texture]

mainVars == <<query, mainEpoch, releases, bridge, active>>
electronVars == <<kept, mainRef, out, final, hold>>
rendererVars == <<renderer, renderers, alive, framed>>
nativeVars == <<entry, shownTo, inbox>>
vars == <<hostVars, nativeVars, mainVars, rendererVars, electronVars>>

Lease == (1..MaxEpoch) \X Key
Renderer == 1..MaxRenderer
NoQuery == [phase |-> "none", epoch |-> 0, rel |-> {}, frames |-> {}]
NotHeld == [by |-> 0, phase |-> "no"]
Fresh == [k \in Key |-> "new"]

Init ==
  /\ HostInit
  /\ entry = Fresh /\ shownTo = [k \in Key |-> 0] /\ inbox = <<>>
  /\ query = NoQuery /\ mainEpoch = 0 /\ releases = {}
  /\ bridge = [l \in Lease |-> "none"] /\ active = {}
  /\ renderer = 0 /\ renderers = 0 /\ alive = {} /\ framed = {}
  /\ kept = {} /\ mainRef = {} /\ out = {} /\ final = {}
  /\ hold = [l \in Lease |-> NotHeld]

------------------------------------------------------------------------------
(* The host. *)

\* The export lane takes a frame of a free slot, unless the stream has one that
\* waits for delivery or as many as it may have.
Leased(k) == entry[k] \in {"cached", "delivered"}

Export(k, r) ==
  /\ epoch \in running /\ r <= renderers /\ entry[k] = "new"
  /\ \A j \in Key : SlotOf[j] = SlotOf[k] => ~Leased(j)
  /\ LET stream == {j \in Key : Leased(j) /\ shownTo[j] = r} IN
     /\ \A j \in stream : entry[j] # "cached"
     /\ Cardinality(stream) < Cap
  /\ entry' = [entry EXCEPT ![k] = "cached"]
  /\ shownTo' = [shownTo EXCEPT ![k] = r]
  /\ UNCHANGED <<hostVars, inbox, mainVars, rendererVars, electronVars>>

\* A frame nobody fetched is stale or not wanted any more.
Expire(k) ==
  /\ epoch \in running /\ entry[k] = "cached"
  /\ entry' = [entry EXCEPT ![k] = "free"]
  /\ UNCHANGED <<hostVars, shownTo, inbox, mainVars, rendererVars, electronVars>>

\* queryFrames: releases are marked, then the frames that wait are taken.  The
\* answer is lost when the controller has stopped waiting for it.
HostServes ==
  /\ inbox # <<>> /\ epoch \in running
  /\ LET frames == {k \in Key : entry[k] = "cached" /\ k \notin Head(inbox)} IN
     /\ entry' = [k \in Key |->
          IF k \in frames THEN "delivered"
          ELSE IF k \in Head(inbox) /\ entry[k] \in {"cached", "delivered"} THEN "free"
          ELSE entry[k]]
     /\ query' = IF Len(inbox) = 1 /\ query.phase = "sent"
                 THEN [query EXCEPT !.phase = "answered", !.frames = frames] ELSE query
  /\ inbox' = Tail(inbox)
  /\ UNCHANGED <<hostVars, shownTo, mainEpoch, releases, bridge, active, rendererVars,
                 electronVars>>

\* Hosts start, shake hands, are given up and die.  A number without a process
\* changes nothing here.  What a dead host has answered may still be read.
HostStarts ==
  /\ epoch < MaxEpoch /\ Launch /\ running' # {}
  /\ entry' = Fresh /\ shownTo' = [k \in Key |-> 0] /\ inbox' = <<>>
  /\ UNCHANGED <<mainVars, rendererVars, electronVars>>

HostReady ==
  /\ Serve
  /\ UNCHANGED <<nativeVars, mainVars, rendererVars, electronVars>>

\* The supervisor rejects the request of a host it gives up.
HostAbandoned ==
  /\ Abandon
  /\ query' = NoQuery
  /\ UNCHANGED <<nativeVars, mainEpoch, releases, bridge, active, rendererVars, electronVars>>

HostDies ==
  /\ Die
  /\ UNCHANGED <<nativeVars, mainVars, rendererVars, electronVars>>

------------------------------------------------------------------------------
(* The controller. *)

\* The entries among these that wait for an acknowledgement get it.
AcknowledgeAny(b, leases) ==  \* mutant: references that are still out are not looked at
  [l \in Lease |-> IF l \in leases THEN "none" ELSE b[l]]

Acknowledge(b, leases) ==
  [l \in Lease |-> IF l \in leases /\ b[l] = "released" THEN "none" ELSE b[l]]

OfKeys(keys) == {l \in Lease : l[2] \in keys}

\* The epoch is over: what its bridges wait for is acknowledged on the spot, and
\* the releases its host will never see are forgotten.
RetiredEpoch == Acknowledge(bridge, active)

CanQueryShowing(queued) ==  \* mutant: releases alone are no reason to ask
  /\ serving # 0 /\ query.phase = "none" /\ epoch \in running
  /\ Len(inbox) < MaxInbox /\ renderer # 0

\* One query at a time, for frames to show or releases to send.
CanQuery(queued) ==
  /\ serving # 0 /\ query.phase = "none" /\ epoch \in running
  /\ Len(inbox) < MaxInbox
  /\ renderer # 0 \/ queued # {}

\* requestPoll(): the query carries every release that is queued.
Poll ==
  /\ LET ended == mainEpoch # (IF serving = 0 THEN 0 ELSE epoch)
         queued == IF ended THEN {} ELSE releases
         send == CanQuery(queued)
     IN /\ ended \/ send
        /\ mainEpoch' = IF serving = 0 THEN 0 ELSE epoch
        /\ releases' = queued
        /\ bridge' = IF ended THEN RetiredEpoch ELSE bridge
        /\ active' = IF ended THEN {} ELSE active
        /\ query' = IF send THEN [phase |-> "sent", epoch |-> epoch, rel |-> queued, frames |-> {}]
                    ELSE query
        /\ inbox' = IF send THEN Append(inbox, queued) ELSE inbox
  /\ UNCHANGED <<hostVars, entry, shownTo, rendererVars, electronVars>>

\* The query's deadline passes; the host may still handle it.
QueryTimeout ==
  /\ query.phase # "none"
  /\ query' = NoQuery
  /\ UNCHANGED <<hostVars, nativeVars, mainEpoch, releases, bridge, active, rendererVars,
                 electronVars>>

\* The answer: the releases it carried are settled, then each frame is offered.  The
\* answer of another epoch would be dropped, but HostAbandoned lets none arrive.
\* A frame without its renderer or publication goes straight back.
Acked == Acknowledge(bridge, OfKeys(query.rel))
ActiveBefore == active  \* mutant: frames are offered before releases are settled
ActiveAfter == {l \in active : Acked[l] # "none"}
RefusedClearing(accepted) == query.frames \ accepted  \* mutant: later releases are cleared
Refused(accepted) == (releases \ query.rel) \cup (query.frames \ accepted)

Answered ==
  /\ query.phase = "answered" /\ query.epoch = mainEpoch /\ query.epoch = epoch
  /\ query' = NoQuery

QueryRefused ==
  /\ Answered
  /\ bridge' = Acked /\ active' = ActiveAfter /\ releases' = Refused({})
  /\ UNCHANGED <<hostVars, nativeVars, mainEpoch, rendererVars, electronVars>>

\* A frame is accepted: a full bridge only reports it; otherwise the texture is
\* imported and sent, or the import fails, or there is no one to send it to.
QueryAccepted(k) ==
  LET l == <<mainEpoch, k>> IN
  /\ Answered /\ k \in query.frames
  /\ renderer # 0 /\ shownTo[k] = renderer
  /\ releases' = Refused({k})
  /\ IF Acked[l] # "none" \/ Cardinality(ActiveAfter) >= Cap
     THEN bridge' = Acked /\ active' = ActiveAfter /\ UNCHANGED electronVars
     ELSE /\ bridge' = [Acked EXCEPT ![l] = "held"] /\ active' = ActiveAfter \cup {l}
          /\ \/ /\ renderer \in framed
                /\ kept' = kept \cup {l} /\ mainRef' = mainRef \cup {l} /\ out' = out \cup {l}
                /\ hold' = [hold EXCEPT ![l] = [by |-> renderer, phase |-> "read"]]
                /\ UNCHANGED final
             \/ /\ kept' = kept \cup {l} /\ final' = final \cup {l}
                /\ UNCHANGED <<mainRef, out, hold>>
             \/ UNCHANGED electronVars
  /\ UNCHANGED <<hostVars, nativeVars, mainEpoch, rendererVars>>

------------------------------------------------------------------------------
(* The renderer. *)

RendererReady ==
  /\ renderer = 0 /\ renderers < MaxRenderer
  /\ renderers' = renderers + 1 /\ renderer' = renderers + 1
  /\ alive' = alive \cup {renderers + 1} /\ framed' = framed \cup {renderers + 1}
  /\ UNCHANGED <<hostVars, nativeVars, mainVars, electronVars>>

\* Chromium may keep the frame of a process that has exited.
RendererDies ==
  /\ \E r \in alive :
       /\ alive' = alive \ {r}
       /\ hold' = [l \in Lease |-> IF hold[l].by = r /\ l \notin out THEN NotHeld ELSE hold[l]]
  /\ UNCHANGED <<hostVars, nativeVars, mainVars, renderer, renderers, framed, kept, mainRef,
                 out, final>>

\* A navigation replaces the frame, or the window closes; the process may live on.
FrameDestroyed ==
  /\ \E r \in framed : framed' = framed \ {r}
  /\ UNCHANGED <<hostVars, nativeVars, mainVars, renderer, renderers, alive, electronVars>>

\* The process is gone, the window is destroyed, or the main frame starts to navigate,
\* while the renderer still reads.  The bridges are retired and repeat the releases
\* they wait for.
RendererGone ==
  /\ renderer # 0
  /\ renderer' = 0 /\ active' = {}
  /\ LET waiting == {l \in active : bridge[l] = "released"} IN
     /\ releases' = releases \cup {l[2] : l \in {w \in waiting : w[1] = mainEpoch}}
     /\ bridge' = Acknowledge(bridge, {w \in waiting : w[1] # mainEpoch})
  /\ UNCHANGED <<hostVars, nativeVars, query, mainEpoch, renderers, alive, framed, electronVars>>

\* Whoever has the texture can read it as long as its process lives, also the document
\* of a destroyed frame.
Holds(l) == hold[l].phase = "read" /\ hold[l].by \in alive

\* It says so; what nobody waits for is taken to be read until the process ends.
Releases(l) ==
  /\ Holds(l) /\ l \in out
  /\ hold' = [hold EXCEPT ![l].phase = "released"]
  /\ UNCHANGED <<hostVars, nativeVars, mainVars, rendererVars, kept, mainRef, out, final>>

------------------------------------------------------------------------------
(* Electron's textures. *)

\* Neither the main process nor the receiver has a reference: the GPU's end is
\* waited for.
FinalizeEarly(l, references) == final' = final \cup {l}  \* mutant: references are not looked at
Finalize(l, references) == final' = IF l \in references THEN final ELSE final \cup {l}

\* The transfer's promise is settled: imported, failed, or out of time.
MainReleases(l) ==
  /\ l \in mainRef
  /\ mainRef' = mainRef \ {l} /\ Finalize(l, out)
  /\ UNCHANGED <<hostVars, nativeVars, mainVars, rendererVars, kept, out, hold>>

\* The receiver says it has released the texture; a destroyed frame is not heard.
ReceiverReleased(l) ==
  /\ hold[l].phase = "released" /\ hold[l].by \in framed
  /\ hold' = [hold EXCEPT ![l] = NotHeld]
  /\ out' = out \ {l}
  /\ IF l \in out THEN Finalize(l, mainRef) ELSE UNCHANGED final
  /\ UNCHANGED <<hostVars, nativeVars, mainVars, rendererVars, kept, mainRef>>

SweepImpatient(l) ==  \* mutant: a receiver that takes long is taken for dead
  /\ l \in out
  /\ out' = out \ {l} /\ Finalize(l, mainRef)
  /\ UNCHANGED <<hostVars, nativeVars, mainVars, rendererVars, kept, mainRef, hold>>

\* The sweep finds that the receiver's frame is destroyed or its process has exited, and
\* waits for the receiver no longer, whatever a process that lives on does.
Sweep(l) ==
  /\ l \in out /\ hold[l].by \notin framed \cap alive
  /\ out' = out \ {l} /\ Finalize(l, mainRef)
  /\ hold' = IF Holds(l) THEN hold ELSE [hold EXCEPT ![l] = NotHeld]
  /\ UNCHANGED <<hostVars, nativeVars, mainVars, rendererVars, kept, mainRef>>

\* The last reference is gone: the lease goes back, or is forgotten when its
\* epoch is over.
GpuReleased(l) ==
  /\ l \in final
  /\ final' = final \ {l} /\ kept' = kept \ {l}
  /\ IF bridge[l] # "held" THEN UNCHANGED <<bridge, releases>>
     ELSE IF l[1] = mainEpoch
     THEN /\ bridge' = [bridge EXCEPT ![l] = "released"]
          /\ releases' = releases \cup {l[2]}
     ELSE bridge' = [bridge EXCEPT ![l] = "none"] /\ UNCHANGED releases
  /\ active' = {a \in active : bridge'[a] # "none"}
  /\ UNCHANGED <<hostVars, nativeVars, query, mainEpoch, rendererVars, mainRef, out, hold>>

------------------------------------------------------------------------------

Native == HostServes \/ \E k \in Key : Expire(k) \/ \E r \in Renderer : Export(k, r)
Controller ==
  \/ Poll \/ QueryTimeout \/ QueryRefused \/ \E k \in Key : QueryAccepted(k)
Textures ==
  \E l \in Lease : \/ Releases(l) \/ MainReleases(l) \/ ReceiverReleased(l)
                   \/ Sweep(l) \/ GpuReleased(l)

Next ==
  \/ HostStarts \/ HostReady \/ HostAbandoned \/ HostDies
  \/ Native \/ Controller \/ Textures
  \/ RendererReady \/ RendererDies \/ FrameDestroyed \/ RendererGone

Spec == Init /\ [][Next]_vars

------------------------------------------------------------------------------
(* Safety. *)

\* Every entry, query and texture is in one of its states.
TypeOK ==
  /\ epoch \in 0..MaxEpoch /\ running \subseteq 1..MaxEpoch /\ serving \in 0..MaxEpoch
  /\ over \in BOOLEAN
  /\ entry \in [Key -> {"new", "cached", "delivered", "free"}]
  /\ shownTo \in [Key -> 0..MaxRenderer]
  /\ inbox \in Seq(SUBSET Key) /\ Len(inbox) <= MaxInbox
  /\ query \in [phase : {"none", "sent", "answered"}, epoch : 0..MaxEpoch,
                rel : SUBSET Key, frames : SUBSET Key]
  /\ mainEpoch \in 0..MaxEpoch /\ releases \subseteq Key
  /\ bridge \in [Lease -> {"none", "held", "released"}] /\ active \subseteq Lease
  /\ renderer \in 0..MaxRenderer /\ renderers \in 0..MaxRenderer
  /\ alive \cup framed \subseteq Renderer
  /\ kept \subseteq Lease /\ mainRef \cup out \cup final \subseteq kept
  /\ hold \in [Lease -> [by : 0..MaxRenderer, phase : {"no", "read", "released"}]]

\* Somebody may still read the texture: a frame that has it or will get it, even when
\* the controller has given its renderer up, the main process, or the GPU.
Read(l) == l \in kept \/ (Holds(l) /\ hold[l].by \in framed)

\* The host does not write a slot that is read, whatever timed out, died, navigated or
\* was counted anew meanwhile.  The one reader that is not waited for is a document
\* whose frame was destroyed while its process lives on.
NoReuseWhileRead == \A l \in Lease : Read(l) /\ l[1] \in running => entry[l[2]] = "delivered"

\* A texture is never forgotten by the bridge that has to give its slot back.
TextureTracked == \A l \in kept : bridge[l] = "held"

\* A frame that could be shown always finds room: the main process settles its
\* releases before it takes the frames that replace them.
BridgeHasRoom ==
  query.phase = "answered" /\ query.epoch = mainEpoch /\ query.epoch = epoch =>
    \A k \in query.frames :
      renderer # 0 /\ shownTo[k] = renderer => Cardinality(ActiveAfter) < Cap

\* A release the bridge still waits for is still queued, over any number of lost
\* answers.
ReleaseKept == \A l \in Lease : bridge[l] = "released" /\ l[1] = mainEpoch => l[2] \in releases

------------------------------------------------------------------------------
(* Liveness.  The controller's timer and the host's thread go on, and a    *)
(* query ends by its answer or its deadline.                               *)

Fairness ==
  /\ WF_vars(Poll) /\ WF_vars(HostServes) /\ WF_vars(QueryTimeout)

FairSpec == Spec /\ Fairness

\* A release that is queued reaches its host over any number of lost answers,
\* unless the host goes first.
ReleaseArrives ==
  \A k \in Key : (k \in releases /\ mainEpoch = epoch /\ epoch \in running)
                    ~> (entry[k] # "delivered" \/ mainEpoch # epoch \/ running = {})
=============================================================================
