------------------------- MODULE TextureLeasesProofs -------------------------
(***************************************************************************)
(* No slot is written while its texture is read, no release is forgotten,  *)
(* and the bridge has room, for any number of frames, slots, hosts,        *)
(* renderers and queries.                                                  *)
(***************************************************************************)
EXTENDS TextureLeases, SequenceTheorems, FiniteSetTheorems, TLAPS

\* Hosts are numbered; the controller never is ahead of them.
Epochs ==
  /\ running \subseteq {epoch} /\ mainEpoch <= epoch
  /\ serving \in {0, epoch} /\ (serving # 0 => ~over)

\* A query is one of the latest host, which is not given up.
QueryCurrent == query.phase # "none" => query.epoch = epoch /\ epoch # 0 /\ ~over

\* Without an answer a query has no frames.
QuietQuery == query.phase # "answered" => query.frames = {}

\* No lease is older than the host it comes from.
LeasesExist == \A l \in Lease : bridge[l] # "none" => l[1] <= epoch

\* Keys the host has been told, or will be told, to free.
OnWay(k) ==
  \/ \E i \in 1..Len(inbox) : k \in inbox[i]
  \/ mainEpoch = epoch /\ k \in releases

\* What the main process knows of a frame agrees with what the host does.
Delivered(k) ==
  /\ bridge[<<epoch, k>>] = "held" => entry[k] = "delivered"
  /\ bridge[<<epoch, k>>] = "released" => entry[k] \in {"delivered", "free"}
  /\ k \in query.frames => entry[k] = "delivered" /\ bridge[<<epoch, k>>] = "none"
  /\ OnWay(k) => /\ entry[k] \in {"delivered", "free"}
                 /\ bridge[<<epoch, k>>] # "held" /\ k \notin query.frames

Agreed == epoch # 0 => \A k \in Key : Delivered(k)

\* The references of a texture: what the receiver has counts as out, and the GPU
\* is waited for only when no reference is left.
Referenced ==
  /\ final \cap (mainRef \cup out) = {}
  /\ \A l \in Lease : hold[l].phase # "no" /\ hold[l].by \in alive \cap framed => l \in out
  /\ renderer <= renderers /\ \A l \in Lease : hold[l].by <= renderers
  /\ kept \subseteq Lease

IInv ==
  /\ TypeOK /\ Epochs /\ QueryCurrent /\ LeasesExist /\ Agreed /\ Referenced
  /\ TextureTracked /\ QuietQuery

\* The initial states satisfy the invariant.
LEMMA InitIInv == Init => IInv
<1> SUFFICES ASSUME Init PROVE IInv OBVIOUS
<1> USE ConstantsOK DEF Init, HostInit, Fresh, NoQuery, NotHeld
<1>1. TypeOK BY DEF TypeOK, Lease
<1>2. Epochs /\ QueryCurrent BY DEF Epochs, QueryCurrent
<1>3. LeasesExist /\ Agreed BY DEF LeasesExist, Agreed
<1>4. Referenced /\ TextureTracked /\ QuietQuery BY DEF Referenced, TextureTracked, QuietQuery
<1> QED BY <1>1, <1>2, <1>3, <1>4 DEF IInv

\* Exporting a frame.
LEMMA ExportIInv == ASSUME IInv, NEW k \in Key, NEW r \in Renderer, Export(k, r) PROVE IInv'
<1> USE DEF Export, IInv, hostVars, mainVars, rendererVars, electronVars
<1>1. TypeOK' BY DEF TypeOK, Renderer
<1>2. Epochs' /\ QueryCurrent' BY DEF Epochs, QueryCurrent
<1>3. LeasesExist' BY DEF LeasesExist
<1>4. Agreed' BY DEF Agreed, Delivered, OnWay, TypeOK
<1>5. Referenced' /\ TextureTracked' /\ QuietQuery' BY DEF Referenced, TextureTracked, QuietQuery
<1> QED BY <1>1, <1>2, <1>3, <1>4, <1>5

\* A frame that is dropped before anybody fetched it.
LEMMA ExpireIInv == ASSUME IInv, NEW k \in Key, Expire(k) PROVE IInv'
<1> USE DEF Expire, IInv, hostVars, mainVars, rendererVars, electronVars
<1>1. TypeOK' BY DEF TypeOK
<1>2. Epochs' /\ QueryCurrent'
  BY DEF Epochs, QueryCurrent, TypeOK
<1>3. LeasesExist' BY DEF LeasesExist
<1>4. Agreed' BY DEF Agreed, Delivered, OnWay, TypeOK
<1>5. Referenced' /\ TextureTracked' /\ QuietQuery' BY DEF Referenced, TextureTracked, QuietQuery
<1> QED BY <1>1, <1>2, <1>3, <1>4, <1>5

\* The host handles a query: it frees only what is on its way back, and gives only
\* frames nobody has.
LEMMA ServesIInv == ASSUME IInv, HostServes PROVE IInv'
<1> DEFINE frames == {k \in Key : entry[k] = "cached" /\ k \notin Head(inbox)}
<1> USE DEF IInv
<1>1. /\ inbox # <<>> /\ epoch \in running /\ inbox' = Tail(inbox)
      /\ entry' = [k \in Key |->
           IF k \in frames THEN "delivered"
           ELSE IF k \in Head(inbox) /\ entry[k] \in {"cached", "delivered"} THEN "free"
           ELSE entry[k]]
      /\ query' = IF Len(inbox) = 1 /\ query.phase = "sent"
                  THEN [query EXCEPT !.phase = "answered", !.frames = frames] ELSE query
      /\ UNCHANGED <<epoch, running, serving, over, shownTo, mainEpoch, releases, bridge, active,
                     renderer, renderers, alive, framed, kept, mainRef, out, final, hold>>
  BY DEF HostServes, hostVars, rendererVars, electronVars
<1>2. inbox \in Seq(SUBSET Key) /\ Len(inbox) \in Nat \ {0} /\ Len(Tail(inbox)) = Len(inbox) - 1
      /\ Head(inbox) = inbox[1] /\ Tail(inbox) \in Seq(SUBSET Key)
      /\ \A i \in 1..Len(Tail(inbox)) : Tail(inbox)[i] = inbox[i + 1]
  BY <1>1, HeadTailProperties, EmptySeq DEF TypeOK
<1>3. TypeOK'
  <2>1. entry' \in [Key -> {"new", "cached", "delivered", "free"}] BY <1>1 DEF TypeOK
  <2>2. query' \in [phase : {"none", "sent", "answered"}, epoch : 0..MaxEpoch,
                    rel : SUBSET Key, frames : SUBSET Key]
    BY <1>1 DEF TypeOK
  <2>3. Len(inbox') <= MaxInbox BY <1>1, <1>2, ConstantsOK DEF TypeOK
  <2> QED BY <1>1, <1>2, <2>1, <2>2, <2>3 DEF TypeOK
<1>4. Epochs' BY <1>1 DEF Epochs
<1>5. QueryCurrent' BY <1>1 DEF QueryCurrent, TypeOK
<1>6. LeasesExist' BY <1>1 DEF LeasesExist
<1>7. Agreed'
  <2> SUFFICES ASSUME NEW k \in Key PROVE Delivered(k)'
    BY <1>1 DEF Agreed
  <2>1. Delivered(k) BY <1>1 DEF Agreed, TypeOK
  <2>2. OnWay(k)' => OnWay(k) BY <1>1, <1>2 DEF OnWay
  <2>3. k \in Head(inbox) => OnWay(k) BY <1>2 DEF OnWay
  <2>4. k \in query'.frames => k \in query.frames \/ k \in frames BY <1>1 DEF TypeOK
  <2>5. bridge' = bridge /\ epoch' = epoch BY <1>1
  <2>6. CASE k \in frames
    <3>1. entry'[k] = "delivered" /\ entry[k] = "cached" BY <1>1, <2>6
    <3>2. bridge[<<epoch, k>>] \notin {"held", "released"} /\ ~OnWay(k)
      BY <2>1, <3>1 DEF Delivered
    <3>3. <<epoch, k>> \in Lease BY <1>1 DEF TypeOK, Lease
    <3>4. bridge[<<epoch, k>>] = "none" BY <3>2, <3>3 DEF TypeOK
    <3> QED BY <2>2, <2>5, <3>1, <3>2, <3>4 DEF Delivered
  <2>7. CASE k \notin frames
    <3>1. entry'[k] = IF k \in Head(inbox) /\ entry[k] \in {"cached", "delivered"} THEN "free"
                      ELSE entry[k]
      BY <1>1, <2>7
    <3> QED BY <2>1, <2>2, <2>3, <2>4, <2>5, <2>7, <3>1 DEF Delivered
  <2> QED BY <2>6, <2>7
<1>8. Referenced' /\ TextureTracked' BY <1>1 DEF Referenced, TextureTracked
<1>9. QuietQuery' BY <1>1 DEF QuietQuery, TypeOK
<1> QED BY <1>3, <1>4, <1>5, <1>6, <1>7, <1>8, <1>9

\* Hosts start, shake hands, are given up and die.
LEMMA StartsIInv == ASSUME IInv, HostStarts PROVE IInv'
<1> USE DEF IInv
<1>1. /\ running = {} /\ over /\ epoch < MaxEpoch /\ epoch' = epoch + 1 /\ running' = {epoch + 1}
      /\ over' = FALSE /\ serving' = serving
      /\ entry' = Fresh /\ shownTo' = [k \in Key |-> 0] /\ inbox' = <<>>
      /\ UNCHANGED <<mainVars, rendererVars, electronVars>>
  BY DEF HostStarts, Launch
<1>2. serving = 0 /\ query.phase = "none" BY <1>1 DEF Epochs, QueryCurrent
<1> USE DEF Fresh, mainVars, rendererVars, electronVars
<1>3. TypeOK'
  <2>1. over' \in BOOLEAN BY <1>1
  <2>2. inbox' \in Seq(SUBSET Key) /\ Len(inbox') = 0 BY <1>1
  <2> QED BY <1>1, <2>1, <2>2, ConstantsOK DEF TypeOK
<1>4. Epochs' BY <1>1, <1>2 DEF Epochs, TypeOK
<1>5. QueryCurrent' BY <1>1, <1>2 DEF QueryCurrent
<1>6. LeasesExist' BY <1>1 DEF LeasesExist, Lease, TypeOK
<1>7. Agreed'
  <2> SUFFICES ASSUME NEW k \in Key PROVE Delivered(k)'
    BY DEF Agreed
  <2>1. <<epoch + 1, k>> \in Lease BY <1>1, ConstantsOK DEF TypeOK, Lease
  <2>2. bridge[<<epoch + 1, k>>] = "none" BY <2>1 DEF LeasesExist, TypeOK
  <2>3. query.frames = {} BY <1>2 DEF QuietQuery
  <2>4. ~OnWay(k)' BY <1>1, <1>2 DEF OnWay, Epochs, TypeOK
  <2> QED BY <1>1, <2>2, <2>3, <2>4 DEF Delivered
<1>8. Referenced' /\ TextureTracked' /\ QuietQuery'
  BY <1>1 DEF Referenced, TextureTracked, QuietQuery
<1> QED BY <1>3, <1>4, <1>5, <1>6, <1>7, <1>8

\* The handshake.
LEMMA ReadyIInv == ASSUME IInv, HostReady PROVE IInv'
<1> USE DEF IInv, HostReady, Serve, nativeVars, mainVars, rendererVars, electronVars
<1>1. TypeOK' BY DEF TypeOK
<1>2. Epochs' /\ QueryCurrent' BY DEF Epochs, QueryCurrent
<1>3. LeasesExist' BY DEF LeasesExist
<1>4. Agreed' BY DEF Agreed, Delivered, OnWay
<1>5. Referenced' /\ TextureTracked' /\ QuietQuery' BY DEF Referenced, TextureTracked, QuietQuery
<1> QED BY <1>1, <1>2, <1>3, <1>4, <1>5

\* A host is given up: its query ends.
LEMMA AbandonedIInv == ASSUME IInv, HostAbandoned PROVE IInv'
<1> USE DEF IInv, HostAbandoned, Abandon, NoQuery, nativeVars, rendererVars, electronVars
<1>1. TypeOK'
  <2>1. over' \in BOOLEAN OBVIOUS
  <2> QED BY <2>1, ConstantsOK DEF TypeOK
<1>2. Epochs' /\ QueryCurrent' BY DEF Epochs, QueryCurrent
<1>3. LeasesExist' BY DEF LeasesExist
<1>4. Agreed' BY DEF Agreed, Delivered, OnWay
<1>5. Referenced' /\ TextureTracked' /\ QuietQuery' BY DEF Referenced, TextureTracked, QuietQuery
<1> QED BY <1>1, <1>2, <1>3, <1>4, <1>5

LEMMA DiesIInv == ASSUME IInv, HostDies PROVE IInv'
<1> USE DEF IInv
<1>1. running' = {} BY DEF HostDies, Die, Epochs
<1> USE DEF HostDies, Die, nativeVars, mainVars, rendererVars, electronVars
<1>2. TypeOK' BY <1>1 DEF TypeOK
<1>3. Epochs' /\ QueryCurrent' BY <1>1 DEF Epochs, QueryCurrent
<1>4. LeasesExist' BY DEF LeasesExist
<1>5. Agreed' BY DEF Agreed, Delivered, OnWay
<1>6. Referenced' /\ TextureTracked' /\ QuietQuery' BY DEF Referenced, TextureTracked, QuietQuery
<1> QED BY <1>2, <1>3, <1>4, <1>5, <1>6

\* The controller's poll: an epoch that is over is forgotten, and what is queued
\* goes on its way.
LEMMA PollIInv == ASSUME IInv, Poll PROVE IInv'
<1> DEFINE ended == mainEpoch # (IF serving = 0 THEN 0 ELSE epoch)
           queued == IF ended THEN {} ELSE releases
           send == CanQuery(queued)
<1> USE DEF IInv
<1>1. /\ mainEpoch' = IF serving = 0 THEN 0 ELSE epoch
      /\ releases' = queued
      /\ bridge' = IF ended THEN RetiredEpoch ELSE bridge
      /\ active' = IF ended THEN {} ELSE active
      /\ query' = IF send THEN [phase |-> "sent", epoch |-> epoch, rel |-> queued, frames |-> {}]
                  ELSE query
      /\ inbox' = IF send THEN Append(inbox, queued) ELSE inbox
      /\ UNCHANGED <<epoch, running, serving, over, entry, shownTo, renderer, renderers, alive, framed,
                     kept, mainRef, out, final, hold>>
  BY DEF Poll, hostVars, rendererVars, electronVars
<1>2. send => serving # 0 /\ query.phase = "none" /\ epoch \in running /\ Len(inbox) < MaxInbox
  BY DEF CanQuery
<1>3. /\ bridge' \in [Lease -> {"none", "held", "released"}]
      /\ \A l \in Lease : bridge'[l] = bridge[l] \/ (bridge[l] = "released" /\ bridge'[l] = "none")
  BY <1>1 DEF RetiredEpoch, Acknowledge, TypeOK
<1>4. inbox' \in Seq(SUBSET Key) /\ Len(inbox') <= MaxInbox
  <2>1. queued \in SUBSET Key BY DEF TypeOK
  <2> HIDE DEF queued, send
  <2> QED BY <1>1, <1>2, <2>1, ConstantsOK DEF TypeOK
<1>5. TypeOK'
  <2>1. query' \in [phase : {"none", "sent", "answered"}, epoch : 0..MaxEpoch,
                    rel : SUBSET Key, frames : SUBSET Key]
    BY <1>1 DEF TypeOK
  <2>2. mainEpoch' \in 0..MaxEpoch /\ releases' \subseteq Key /\ active' \subseteq Lease
    BY <1>1, ConstantsOK DEF TypeOK
  <2> QED BY <1>1, <1>3, <1>4, <2>1, <2>2 DEF TypeOK
<1>6. Epochs' BY <1>1 DEF Epochs, TypeOK
<1>7. QueryCurrent' BY <1>1, <1>2 DEF QueryCurrent, Epochs
<1>8. LeasesExist' BY <1>1, <1>3 DEF LeasesExist
<1>9. Agreed'
  <2> SUFFICES ASSUME epoch # 0, NEW k \in Key PROVE Delivered(k)'
    BY <1>1 DEF Agreed
  <2>1. Delivered(k) BY DEF Agreed
  <2>2. <<epoch, k>> \in Lease BY DEF TypeOK, Lease
  <2>3. queued # {} => mainEpoch = epoch \/ mainEpoch = 0 BY DEF Epochs
  <2>4. k \in queued /\ mainEpoch = epoch => OnWay(k) BY DEF OnWay
  <2>5. \A i \in 1..Len(inbox') : (i \in 1..Len(inbox) /\ inbox'[i] = inbox[i])
                                   \/ (send /\ inbox'[i] = queued)
    <3>1. queued \in SUBSET Key BY DEF TypeOK
    <3> HIDE DEF queued, send
    <3> QED BY <1>1, <3>1 DEF TypeOK
  <2>6. send /\ k \in queued => mainEpoch = epoch BY <1>2
  <2>7. OnWay(k)' => OnWay(k)
    <3>1. ASSUME NEW i \in 1..Len(inbox'), k \in inbox'[i] PROVE OnWay(k)
      BY <2>4, <2>5, <2>6, <3>1 DEF OnWay
    <3>2. ASSUME mainEpoch' = epoch', k \in releases' PROVE OnWay(k)
      BY <1>1, <2>4, <3>2
    <3> QED BY <3>1, <3>2 DEF OnWay
  <2>8. query'.frames \subseteq query.frames BY <1>1
  <2> QED BY <1>1, <1>3, <2>1, <2>2, <2>7, <2>8 DEF Delivered
<1>10. Referenced' BY <1>1 DEF Referenced
<1>11. TextureTracked' BY <1>1, <1>3 DEF TextureTracked, Referenced
<1>12. QuietQuery' BY <1>1 DEF QuietQuery
<1> QED BY <1>5, <1>6, <1>7, <1>8, <1>9, <1>10, <1>11, <1>12

\* NoQuery is well formed.
LEMMA NoQueryOK ==
  NoQuery \in [phase : {"none", "sent", "answered"}, epoch : 0..MaxEpoch,
              rel : SUBSET Key, frames : SUBSET Key]
  BY ConstantsOK DEF NoQuery

\* A query is given up.
LEMMA QueryEndsIInv == ASSUME IInv, QueryTimeout PROVE IInv'
<1> USE DEF IInv
<1>1. /\ query' = NoQuery
      /\ UNCHANGED <<hostVars, nativeVars, mainEpoch, releases, bridge, active, rendererVars,
                     electronVars>>
  BY DEF QueryTimeout
<1> USE DEF hostVars, nativeVars, rendererVars, electronVars
<1>2. TypeOK' BY <1>1, NoQueryOK DEF TypeOK
<1> USE DEF NoQuery
<1>3. Epochs' /\ QueryCurrent' BY <1>1 DEF Epochs, QueryCurrent
<1>4. LeasesExist' BY <1>1 DEF LeasesExist
<1>5. Agreed' BY <1>1 DEF Agreed, Delivered, OnWay
<1>6. Referenced' /\ TextureTracked' /\ QuietQuery'
  BY <1>1 DEF Referenced, TextureTracked, QuietQuery
<1> QED BY <1>2, <1>3, <1>4, <1>5, <1>6

\* Settling releases only ends waits.
LEMMA AckedOnlyEnds ==
  ASSUME TypeOK
  PROVE  /\ Acked \in [Lease -> {"none", "held", "released"}]
         /\ \A l \in Lease : Acked[l] = bridge[l] \/ (bridge[l] = "released" /\ Acked[l] = "none")
         /\ ActiveAfter \subseteq Lease
  BY DEF TypeOK, Acked, Acknowledge, ActiveAfter

\* The answer is taken, and no frame of it.
LEMMA QueryRefusedIInv == ASSUME IInv, QueryRefused PROVE IInv'
<1> USE DEF IInv
<1>1. /\ query.phase = "answered" /\ query.epoch = mainEpoch /\ query.epoch = epoch
      /\ query' = NoQuery /\ bridge' = Acked /\ active' = ActiveAfter
      /\ releases' = (releases \ query.rel) \cup query.frames
      /\ UNCHANGED <<epoch, running, serving, over, entry, shownTo, inbox, mainEpoch,
                     renderer, renderers, alive, framed, kept, mainRef, out, final, hold>>
  BY DEF QueryRefused, Answered, Refused, hostVars, nativeVars, rendererVars, electronVars
<1>2. TypeOK' BY <1>1, AckedOnlyEnds, NoQueryOK DEF TypeOK
<1> USE DEF NoQuery
<1>3. Epochs' /\ QueryCurrent' BY <1>1 DEF Epochs, QueryCurrent
<1>4. LeasesExist' BY <1>1, AckedOnlyEnds DEF LeasesExist
<1>5. Agreed'
  <2> SUFFICES ASSUME epoch # 0, NEW k \in Key PROVE Delivered(k)'
    BY <1>1 DEF Agreed
  <2>1. Delivered(k) /\ <<epoch, k>> \in Lease BY DEF Agreed, TypeOK, Lease
  <2>2. Acked[<<epoch, k>>] = bridge[<<epoch, k>>]
        \/ (bridge[<<epoch, k>>] = "released" /\ Acked[<<epoch, k>>] = "none")
    BY <2>1, AckedOnlyEnds
  <2>3. OnWay(k)' => OnWay(k) \/ k \in query.frames BY <1>1 DEF OnWay
  <2> QED BY <1>1, <2>1, <2>2, <2>3 DEF Delivered
<1>6. Referenced' /\ QuietQuery' BY <1>1 DEF Referenced, QuietQuery
<1>7. TextureTracked' BY <1>1, AckedOnlyEnds DEF TextureTracked, Referenced
<1> QED BY <1>2, <1>3, <1>4, <1>5, <1>6, <1>7

\* A frame is taken: it was nobody's, and nothing on its way back is it.
LEMMA QueryAcceptedIInv == ASSUME IInv, NEW k \in Key, QueryAccepted(k) PROVE IInv'
<1> DEFINE l == <<mainEpoch, k>>
           full == Acked[l] # "none" \/ Cardinality(ActiveAfter) >= Cap
<1> USE DEF IInv
<1>1. /\ query.phase = "answered" /\ query.epoch = mainEpoch /\ query.epoch = epoch
      /\ query' = NoQuery /\ k \in query.frames /\ renderer # 0
      /\ releases' = (releases \ query.rel) \cup (query.frames \ {k})
      /\ UNCHANGED <<epoch, running, serving, over, entry, shownTo, inbox, mainEpoch,
                     renderer, renderers, alive, framed>>
  BY DEF QueryAccepted, Answered, Refused, hostVars, nativeVars, rendererVars
<1>2. CASE full
  <2>1. bridge' = Acked /\ active' = ActiveAfter /\ UNCHANGED <<kept, mainRef, out, final, hold>>
    BY <1>2 DEF QueryAccepted, electronVars
  <2>2. TypeOK' BY <1>1, <2>1, AckedOnlyEnds, NoQueryOK DEF TypeOK
  <2> USE DEF NoQuery
  <2>3. Epochs' /\ QueryCurrent' BY <1>1 DEF Epochs, QueryCurrent
  <2>4. LeasesExist' BY <1>1, <2>1, AckedOnlyEnds DEF LeasesExist
  <2>5. Agreed'
    <3> SUFFICES ASSUME epoch # 0, NEW j \in Key PROVE Delivered(j)'
      BY <1>1 DEF Agreed
    <3>1. Delivered(j) /\ <<epoch, j>> \in Lease BY DEF Agreed, TypeOK, Lease
    <3>2. Acked[<<epoch, j>>] = bridge[<<epoch, j>>]
          \/ (bridge[<<epoch, j>>] = "released" /\ Acked[<<epoch, j>>] = "none")
      BY <3>1, AckedOnlyEnds
    <3>3. OnWay(j)' => OnWay(j) \/ j \in query.frames BY <1>1 DEF OnWay
    <3> QED BY <1>1, <2>1, <3>1, <3>2, <3>3 DEF Delivered
  <2>6. Referenced' /\ QuietQuery' BY <1>1, <2>1 DEF Referenced, QuietQuery
  <2>7. TextureTracked' BY <1>1, <2>1, AckedOnlyEnds DEF TextureTracked, Referenced
  <2> QED BY <2>2, <2>3, <2>4, <2>5, <2>6, <2>7
<1>3. CASE ~full
  <2>1. bridge' = [Acked EXCEPT ![l] = "held"] /\ active' = ActiveAfter \cup {l}
    BY <1>3 DEF QueryAccepted
  <2>2. \/ /\ kept' = kept \cup {l} /\ mainRef' = mainRef \cup {l} /\ out' = out \cup {l}
           /\ hold' = [hold EXCEPT ![l] = [by |-> renderer, phase |-> "read"]]
           /\ final' = final
        \/ /\ kept' = kept \cup {l} /\ final' = final \cup {l}
           /\ mainRef' = mainRef /\ out' = out /\ hold' = hold
        \/ UNCHANGED <<kept, mainRef, out, final, hold>>
    BY <1>3 DEF QueryAccepted, electronVars
  <2>3. l \in Lease
    <3>1. mainEpoch # 0 BY <1>1 DEF QueryCurrent
    <3>2. mainEpoch \in 1..MaxEpoch /\ k \in Key BY <3>1, ConstantsOK DEF TypeOK
    <3> QED BY <3>2 DEF Lease
  <2>4. Acked[l] = "none" BY <1>3
  <2>5. bridge[l] # "held" BY <2>3, <2>4, AckedOnlyEnds
  <2>6. l \notin kept BY <2>5 DEF TextureTracked
  <2> HIDE DEF l
  <2>7. bridge' \in [Lease -> {"none", "held", "released"}]
    BY <2>1, AckedOnlyEnds
  <2>8. bridge'[l] = "held" /\ \A a \in Lease : a # l => bridge'[a] = Acked[a]
    BY <2>1, <2>3, AckedOnlyEnds
  <2>9. hold' \in [Lease -> [by : 0..MaxRenderer, phase : {"no", "read", "released"}]]
    BY <1>1, <2>2, <2>3 DEF TypeOK
  <2>10. TypeOK'
    <3>1. mainRef' \cup out' \cup final' \subseteq kept' BY <2>2 DEF TypeOK
    <3>2. active' \subseteq Lease /\ kept' \subseteq Lease
      BY <2>1, <2>2, <2>3, AckedOnlyEnds DEF TypeOK
    <3>3. releases' \subseteq Key BY <1>1 DEF TypeOK
    <3> QED BY <1>1, <2>7, <2>9, <3>1, <3>2, <3>3, NoQueryOK DEF TypeOK
  <2> USE DEF NoQuery
  <2>11. Epochs' /\ QueryCurrent' BY <1>1 DEF Epochs, QueryCurrent
  <2>12. LeasesExist'
    <3>1. l[1] <= epoch BY <1>1 DEF Epochs, l
    <3> QED BY <1>1, <2>8, <3>1, AckedOnlyEnds DEF LeasesExist
  <2>13. Agreed'
    <3> SUFFICES ASSUME epoch # 0, NEW j \in Key PROVE Delivered(j)'
      BY <1>1 DEF Agreed
    <3>1. Delivered(j) /\ <<epoch, j>> \in Lease BY DEF Agreed, TypeOK, Lease
    <3>2. Acked[<<epoch, j>>] = bridge[<<epoch, j>>]
          \/ (bridge[<<epoch, j>>] = "released" /\ Acked[<<epoch, j>>] = "none")
      BY <3>1, AckedOnlyEnds
    <3>3. OnWay(j)' => OnWay(j) \/ (j \in query.frames /\ j # k) BY <1>1 DEF OnWay
    <3>4. CASE j = k
      <4>1. bridge'[<<epoch, k>>] = "held" BY <1>1, <2>8 DEF l
      <4>2. ~OnWay(k)' BY <1>1, <3>1, <3>3, <3>4 DEF Delivered
      <4> QED BY <1>1, <3>1, <3>4, <4>1, <4>2 DEF Delivered
    <3>5. CASE j # k
      <4>1. <<epoch, j>> # l BY <1>1, <3>5 DEF l
      <4>2. bridge'[<<epoch, j>>] = Acked[<<epoch, j>>] BY <2>8, <3>1, <4>1
      <4> QED BY <1>1, <3>1, <3>2, <3>3, <4>2 DEF Delivered
    <3> QED BY <3>4, <3>5
  <2>14. Referenced'
    <3>1. final' \cap (mainRef' \cup out') = {} BY <2>2, <2>6 DEF Referenced, TypeOK
    <3>2. \A a \in Lease :
            hold'[a].phase # "no" /\ hold'[a].by \in alive' \cap framed' => a \in out'
      BY <1>1, <2>2, <2>3 DEF Referenced, TypeOK
    <3>3. kept' \subseteq Lease BY <2>2, <2>3 DEF Referenced
    <3>4. renderer' <= renderers' /\ \A a \in Lease : hold'[a].by <= renderers'
      BY <1>1, <2>2, <2>3 DEF Referenced, TypeOK
    <3> QED BY <3>1, <3>2, <3>3, <3>4 DEF Referenced
  <2>15. TextureTracked' BY <2>2, <2>8, AckedOnlyEnds DEF TextureTracked, Referenced
  <2>16. QuietQuery' BY <1>1 DEF QuietQuery
  <2> QED BY <2>10, <2>11, <2>12, <2>13, <2>14, <2>15, <2>16
<1> QED BY <1>2, <1>3

\* Renderers come and die.
LEMMA RendererIInv ==
  ASSUME IInv, RendererReady \/ RendererDies \/ FrameDestroyed PROVE IInv'
<1> USE DEF IInv
<1>1. /\ renderer' \in 0..MaxRenderer /\ renderers' \in 0..MaxRenderer
      /\ alive' \cup framed' \subseteq Renderer
      /\ renderer' <= renderers' /\ renderers <= renderers'
      /\ \A r \in 0..renderers : r \in alive' \cap framed' => r \in alive \cap framed
      /\ UNCHANGED <<hostVars, nativeVars, mainVars, kept, mainRef, out, final>>
  <2>1. CASE RendererReady
    BY <2>1, ConstantsOK DEF RendererReady, TypeOK, Renderer, electronVars
  <2>2. CASE RendererDies
    <3>1. alive' \subseteq alive /\ UNCHANGED <<renderer, renderers, framed>>
      BY <2>2 DEF RendererDies
    <3>2. UNCHANGED <<hostVars, nativeVars, mainVars, kept, mainRef, out, final>>
      BY <2>2 DEF RendererDies
    <3> QED BY <3>1, <3>2, ConstantsOK DEF TypeOK, Referenced
  <2>3. CASE FrameDestroyed
    <3>1. framed' \subseteq framed /\ UNCHANGED <<renderer, renderers, alive>>
      BY <2>3 DEF FrameDestroyed
    <3>2. UNCHANGED <<hostVars, nativeVars, mainVars, kept, mainRef, out, final>>
      BY <2>3 DEF FrameDestroyed, electronVars
    <3> QED BY <3>1, <3>2, ConstantsOK DEF TypeOK, Referenced
  <2> QED BY <2>1, <2>2, <2>3
<1>a. /\ hold' \in [Lease -> [by : 0..MaxRenderer, phase : {"no", "read", "released"}]]
      /\ \A l \in Lease : hold'[l] \in {hold[l], NotHeld}
  <2>1. NotHeld \in [by : 0..MaxRenderer, phase : {"no", "read", "released"}]
    BY ConstantsOK DEF NotHeld
  <2>2. CASE RendererReady \/ FrameDestroyed
    BY <2>2 DEF RendererReady, FrameDestroyed, electronVars, TypeOK
  <2>3. CASE RendererDies
    <3>1. PICK r : hold' = [l \in Lease |->
                     IF hold[l].by = r /\ l \notin out THEN NotHeld ELSE hold[l]]
      BY <2>3 DEF RendererDies
    <3> QED BY <2>1, <3>1 DEF TypeOK
  <2> QED BY <2>2, <2>3
<1> USE DEF hostVars, nativeVars, mainVars
<1>2. TypeOK' BY <1>1, <1>a DEF TypeOK
<1>3. Epochs' /\ QueryCurrent' BY <1>1 DEF Epochs, QueryCurrent
<1>4. LeasesExist' BY <1>1 DEF LeasesExist
<1>5. Agreed' BY <1>1 DEF Agreed, Delivered, OnWay
<1>6. Referenced'
  <2>1. NotHeld.phase = "no" /\ NotHeld.by = 0 /\ 0 <= renderers /\ renderers <= renderers'
    BY <1>1, ConstantsOK DEF NotHeld, TypeOK
  <2>2. \A l \in Lease : hold[l].by \in 0..renderers
    BY ConstantsOK DEF TypeOK, Referenced
  <2>3. \A l \in Lease : hold'[l].by <= renderers'
    <3>1. renderers \in Nat /\ renderers' \in Nat BY <1>1, ConstantsOK DEF TypeOK
    <3>2. \A l \in Lease : hold'[l].by \in 0..renderers BY <1>a, <2>1, <2>2, <3>1
    <3> QED BY <2>1, <3>1, <3>2
  <2>4. \A l \in Lease : hold'[l].phase # "no" /\ hold'[l].by \in alive' \cap framed' => l \in out
    BY <1>1, <1>a, <2>1, <2>2 DEF Referenced
  <2> QED BY <1>1, <2>3, <2>4 DEF Referenced
<1>7. TextureTracked' /\ QuietQuery'
  BY <1>1 DEF TextureTracked, QuietQuery
<1> QED BY <1>2, <1>3, <1>4, <1>5, <1>6, <1>7

\* The controller retires the bridges of a renderer that is gone: it repeats only
\* the releases they wait for.
LEMMA RendererGoneIInv == ASSUME IInv, RendererGone PROVE IInv'
<1> DEFINE waiting == {l \in active : bridge[l] = "released"}
           again == {l[2] : l \in {w \in waiting : w[1] = mainEpoch}}
<1> USE DEF IInv
<1>1. /\ renderer' = 0 /\ active' = {} /\ releases' = releases \cup again
      /\ bridge' = Acknowledge(bridge, {w \in waiting : w[1] # mainEpoch})
      /\ UNCHANGED <<epoch, running, serving, over, entry, shownTo, inbox, query, mainEpoch,
                     renderers, alive, framed, kept, mainRef, out, final, hold>>
  BY DEF RendererGone, hostVars, nativeVars, electronVars
<1>2. /\ bridge' \in [Lease -> {"none", "held", "released"}]
      /\ \A l \in Lease : bridge'[l] = bridge[l] \/ (bridge[l] = "released" /\ bridge'[l] = "none")
  BY <1>1 DEF Acknowledge, TypeOK
<1>3. \A k \in again :
        k \in Key /\ <<mainEpoch, k>> \in Lease /\ bridge[<<mainEpoch, k>>] = "released"
  <2> SUFFICES ASSUME NEW l \in waiting, l[1] = mainEpoch
               PROVE  l[2] \in Key /\ <<mainEpoch, l[2]>> = l /\ l \in Lease
    OBVIOUS
  <2> QED BY DEF TypeOK, Lease
<1> HIDE DEF again
<1>4. TypeOK'
  <2>1. releases' \subseteq Key BY <1>1, <1>3 DEF TypeOK
  <2>2. renderer' \in 0..MaxRenderer /\ active' \subseteq Lease BY <1>1, ConstantsOK
  <2> QED BY <1>1, <1>2, <2>1, <2>2 DEF TypeOK
<1>5. Epochs' /\ QueryCurrent' BY <1>1 DEF Epochs, QueryCurrent
<1>6. LeasesExist' BY <1>1, <1>2 DEF LeasesExist
<1>7. Agreed'
  <2> SUFFICES ASSUME epoch # 0, NEW k \in Key PROVE Delivered(k)'
    BY <1>1 DEF Agreed
  <2>1. Delivered(k) /\ <<epoch, k>> \in Lease BY DEF Agreed, TypeOK, Lease
  <2>2. OnWay(k)' => OnWay(k) \/ (mainEpoch = epoch /\ k \in again) BY <1>1 DEF OnWay
  <2>3. mainEpoch = epoch /\ k \in again => bridge[<<epoch, k>>] = "released" BY <1>3
  <2> QED BY <1>1, <1>2, <2>1, <2>2, <2>3 DEF Delivered
<1>8. Referenced' /\ QuietQuery'
  <2>1. renderer' <= renderers' BY <1>1, ConstantsOK DEF TypeOK
  <2> QED BY <1>1, <2>1 DEF Referenced, QuietQuery
<1>9. TextureTracked' BY <1>1, <1>2 DEF TextureTracked, Referenced
<1> QED BY <1>4, <1>5, <1>6, <1>7, <1>8, <1>9

\* References to a texture are dropped, by the receiver, the main process or the
\* sweep; the last one starts the wait for the GPU.
LEMMA DropIInv ==
  ASSUME IInv, NEW l \in Lease,
         Releases(l) \/ MainReleases(l) \/ ReceiverReleased(l) \/ Sweep(l)
  PROVE  IInv'
<1> USE DEF IInv
<1>1. UNCHANGED <<hostVars, nativeVars, mainVars, rendererVars, kept>>
  BY DEF Releases, MainReleases, ReceiverReleased, Sweep
<1>2. hold' \in [Lease -> [by : 0..MaxRenderer, phase : {"no", "read", "released"}]]
  <2>1. NotHeld \in [by : 0..MaxRenderer, phase : {"no", "read", "released"}]
    BY ConstantsOK DEF NotHeld
  <2>2. CASE Releases(l) BY <2>2 DEF Releases, TypeOK
  <2>3. CASE MainReleases(l) BY <2>3 DEF MainReleases, TypeOK
  <2>4. CASE ReceiverReleased(l) \/ Sweep(l)
    <3>1. hold' = hold \/ hold' = [hold EXCEPT ![l] = NotHeld]
      BY <2>4 DEF ReceiverReleased, Sweep
    <3> QED BY <2>1, <3>1 DEF TypeOK
  <2> QED BY <2>2, <2>3, <2>4
<1>3. /\ mainRef' \cup out' \cup final' \subseteq kept
      /\ final' \cap (mainRef' \cup out') = {}
  BY DEF Releases, MainReleases, ReceiverReleased, Sweep, Finalize, TypeOK, Referenced
<1>4. /\ \A a \in Lease : hold'[a].phase # "no" /\ hold'[a].by \in alive \cap framed => a \in out'
      /\ \A a \in Lease : hold'[a].by <= renderers
  <2>1. CASE Releases(l) BY <2>1 DEF Releases, Holds, TypeOK, Referenced
  <2>2. CASE MainReleases(l) BY <2>2 DEF MainReleases, Referenced
  <2>3. CASE ReceiverReleased(l) \/ Sweep(l)
    <3>1. /\ out' = out \ {l}
          /\ \/ hold' = [hold EXCEPT ![l] = NotHeld]
             \/ hold' = hold /\ hold[l].by \notin alive \cap framed
      BY <2>3 DEF ReceiverReleased, Sweep
    <3>2. hold'[l] = NotHeld \/ (hold' = hold /\ hold[l].by \notin alive \cap framed)
      BY <3>1 DEF TypeOK
    <3>3. NotHeld.phase = "no" /\ NotHeld.by = 0 /\ 0 <= renderers
      BY ConstantsOK DEF TypeOK, NotHeld
    <3>4. \A a \in Lease : a # l => hold'[a] = hold[a] BY <3>1 DEF TypeOK
    <3> QED BY <3>1, <3>2, <3>3, <3>4 DEF Referenced
  <2> QED BY <2>1, <2>2, <2>3
<1> USE DEF hostVars, nativeVars, mainVars, rendererVars
<1>5. TypeOK' BY <1>1, <1>2, <1>3 DEF TypeOK
<1>6. Epochs' /\ QueryCurrent' BY <1>1 DEF Epochs, QueryCurrent
<1>7. LeasesExist' BY <1>1 DEF LeasesExist
<1>8. Agreed' BY <1>1 DEF Agreed, Delivered, OnWay
<1>9. Referenced' BY <1>1, <1>3, <1>4 DEF Referenced
<1>10. TextureTracked' /\ QuietQuery' BY <1>1 DEF TextureTracked, QuietQuery
<1> QED BY <1>5, <1>6, <1>7, <1>8, <1>9, <1>10

\* The last reference is gone: only then is the lease released.
LEMMA GpuReleasedIInv == ASSUME IInv, NEW l \in Lease, GpuReleased(l) PROVE IInv'
<1> USE DEF IInv
<1>1. l \in final /\ l \in kept /\ bridge[l] = "held" BY DEF GpuReleased, TypeOK, TextureTracked
<1>2. /\ final' = final \ {l} /\ kept' = kept \ {l} /\ active' \subseteq active
      /\ UNCHANGED <<epoch, running, serving, over, entry, shownTo, inbox, query, mainEpoch,
                     renderer, renderers, alive, framed, mainRef, out, hold>>
  BY DEF GpuReleased, hostVars, nativeVars, rendererVars
<1>3. \/ /\ l[1] = mainEpoch /\ bridge' = [bridge EXCEPT ![l] = "released"]
         /\ releases' = releases \cup {l[2]}
      \/ l[1] # mainEpoch /\ bridge' = [bridge EXCEPT ![l] = "none"] /\ releases' = releases
  BY <1>1 DEF GpuReleased
<1>4. l[1] \in 1..MaxEpoch /\ l[2] \in Key /\ l = <<l[1], l[2]>> BY DEF Lease
<1>5. /\ bridge' \in [Lease -> {"none", "held", "released"}]
      /\ \A a \in Lease : a # l => bridge'[a] = bridge[a]
      /\ bridge'[l] = IF l[1] = mainEpoch THEN "released" ELSE "none"
  BY <1>3 DEF TypeOK
<1>6. l \notin mainRef \cup out BY <1>1 DEF Referenced
<1>7. TypeOK'
  <2>1. mainRef' \cup out' \cup final' \subseteq kept' BY <1>2, <1>6 DEF TypeOK
  <2>2. releases' \subseteq Key BY <1>3, <1>4 DEF TypeOK
  <2> QED BY <1>2, <1>5, <2>1, <2>2 DEF TypeOK
<1>8. Epochs' /\ QueryCurrent' BY <1>2 DEF Epochs, QueryCurrent
<1>9. LeasesExist' BY <1>1, <1>2, <1>5 DEF LeasesExist
<1>10. Agreed'
  <2> SUFFICES ASSUME epoch # 0, NEW k \in Key PROVE Delivered(k)'
    BY <1>2 DEF Agreed
  <2>1. Delivered(k) /\ <<epoch, k>> \in Lease BY DEF Agreed, TypeOK, Lease
  <2>2. OnWay(k)' => OnWay(k) \/ <<epoch, k>> = l BY <1>2, <1>3, <1>4 DEF OnWay
  <2>3. CASE <<epoch, k>> = l
    <3>1. entry[k] = "delivered" /\ k \notin query.frames BY <1>1, <2>1, <2>3 DEF Delivered
    <3>2. bridge'[<<epoch, k>>] # "held" BY <1>5, <2>3
    <3> QED BY <1>2, <3>1, <3>2 DEF Delivered
  <2>4. CASE <<epoch, k>> # l
    <3>1. bridge'[<<epoch, k>>] = bridge[<<epoch, k>>] BY <1>5, <2>1, <2>4
    <3> QED BY <1>2, <2>1, <2>2, <2>4, <3>1 DEF Delivered
  <2> QED BY <2>3, <2>4
<1>11. Referenced' BY <1>2 DEF Referenced
<1>12. TextureTracked' BY <1>2, <1>5 DEF TextureTracked, Referenced
<1>13. QuietQuery' BY <1>2 DEF QuietQuery
<1> QED BY <1>7, <1>8, <1>9, <1>10, <1>11, <1>12, <1>13

\* Every step keeps the invariant.
LEMMA StepIInv == ASSUME IInv, [Next]_vars PROVE IInv'
<1>1. CASE HostStarts BY <1>1, StartsIInv
<1>2. CASE HostReady BY <1>2, ReadyIInv
<1>3. CASE HostAbandoned BY <1>3, AbandonedIInv
<1>4. CASE HostDies BY <1>4, DiesIInv
<1>5. CASE Native BY <1>5, ServesIInv, ExpireIInv, ExportIInv DEF Native
<1>6. CASE Controller
  BY <1>6, PollIInv, QueryEndsIInv, QueryRefusedIInv, QueryAcceptedIInv DEF Controller
<1>7. CASE Textures BY <1>7, DropIInv, GpuReleasedIInv DEF Textures
<1>8. CASE RendererReady \/ RendererDies \/ FrameDestroyed BY <1>8, RendererIInv
<1>9. CASE RendererGone BY <1>9, RendererGoneIInv
<1>10. CASE UNCHANGED vars
  <2> USE <1>10 DEF vars, IInv, hostVars, nativeVars, mainVars, rendererVars, electronVars
  <2>1. TypeOK' BY DEF TypeOK
  <2>2. Epochs' /\ QueryCurrent' BY DEF Epochs, QueryCurrent
  <2>3. LeasesExist' BY DEF LeasesExist
  <2>4. Agreed' BY DEF Agreed, Delivered, OnWay
  <2>5. Referenced' /\ TextureTracked' /\ QuietQuery'
    BY DEF Referenced, TextureTracked, QuietQuery
  <2> QED BY <2>1, <2>2, <2>3, <2>4, <2>5
<1> QED BY <1>1, <1>2, <1>3, <1>4, <1>5, <1>6, <1>7, <1>8, <1>9, <1>10 DEF Next

\* The invariant holds in every state that can be reached.
THEOREM TexturesIInv == Spec => []IInv
<1>1. Init => IInv BY InitIInv
<1>2. IInv /\ [Next]_vars => IInv' BY StepIInv
<1> QED BY <1>1, <1>2, PTL DEF Spec

\* Entries, queries and textures stay well formed.
THEOREM TexturesTypeOK == Spec => []TypeOK
<1>1. IInv => TypeOK BY DEF IInv
<1> QED BY <1>1, TexturesIInv, PTL

\* A texture is never forgotten by the bridge that has to give its slot back.
THEOREM TexturesTracked == Spec => []TextureTracked
<1>1. IInv => TextureTracked BY DEF IInv
<1> QED BY <1>1, TexturesIInv, PTL

\* The host does not write a slot that a renderer, the main process or the GPU
\* reads: a texture that is read is held by its bridge, a held key is not on its
\* way back to the host, and the host frees only what is.
THEOREM TexturesNoReuseWhileRead == Spec => []NoReuseWhileRead
<1>1. ASSUME IInv PROVE NoReuseWhileRead
  <2> SUFFICES ASSUME NEW l \in Lease, Read(l), l[1] \in running
               PROVE  entry[l[2]] = "delivered"
    BY DEF NoReuseWhileRead
  <2>1. l[1] = epoch /\ l[2] \in Key /\ l = <<epoch, l[2]>> BY <1>1 DEF IInv, Epochs, Lease
  <2>2. l \in kept BY <1>1 DEF Read, Holds, IInv, Referenced, TypeOK
  <2>3. bridge[<<epoch, l[2]>>] = "held" BY <1>1, <2>1, <2>2 DEF IInv, TextureTracked
  <2>4. Delivered(l[2]) BY <1>1, <2>1 DEF IInv, Agreed, TypeOK
  <2> QED BY <2>3, <2>4 DEF Delivered
<1> QED BY <1>1, TexturesIInv, PTL

\* Hosts come and go here only as HostLifecycle allows.
THEOREM TexturesHosts == Spec => HostSpec
<1>1. Init => HostInit BY DEF Init
<1>2. [Next]_vars => [HostNext]_hostVars
  BY DEF Next, HostStarts, HostReady, HostAbandoned, HostDies, HostNext, Native, HostServes,
         Expire, Export, Controller, Poll, QueryTimeout, QueryRefused, QueryAccepted,
         Textures, Releases, MainReleases, ReceiverReleased, Sweep, GpuReleased, RendererReady,
         RendererDies, FrameDestroyed, RendererGone, vars
<1> QED BY <1>1, <1>2, PTL DEF Spec, HostSpec

------------------------------------------------------------------------------
(* Releases are not forgotten, and the bridge has room. *)

\* The controller follows a host that is not given up: when it has met it, it
\* serves; until then the bridges know nothing of it.
Follows ==
  /\ ~over => epoch # 0 /\ (mainEpoch = epoch => serving = epoch)
  /\ ~over /\ mainEpoch # epoch => \A l \in Lease : bridge[l] # "none" => l[1] # epoch
  /\ query.phase # "none" => mainEpoch = epoch

\* What a query does not carry, and the bridge waits for, the host has not been
\* told to free.
Told(k) == entry[k] = "free" \/ \E i \in 1..Len(inbox) : k \in inbox[i]
Settling ==
  query.phase # "none" =>
    \A k \in Key \ query.rel : bridge[<<epoch, k>>] = "released" => ~Told(k)

\* A bridge in use is one of the controller's epoch and renderer.
ActiveIsCurrent ==
  /\ renderer = 0 => active = {}
  /\ \A l \in active :
       /\ l[1] = mainEpoch /\ bridge[l] # "none"
       /\ mainEpoch = epoch => shownTo[l[2]] = renderer

\* The host leases no more frames to a renderer than the bridge takes.
Stream(r) == {j \in Key : Leased(j) /\ shownTo[j] = r}
StreamsFit == \A r \in Renderer : Cardinality(Stream(r)) <= Cap

RoomInv == ReleaseKept /\ Follows /\ Settling /\ ActiveIsCurrent /\ StreamsFit

\* Fewer leases still fit.
LEMMA FewerFit ==
  ASSUME StreamsFit, \A r \in Renderer : Stream(r)' \subseteq Stream(r) PROVE StreamsFit'
<1> SUFFICES ASSUME NEW r \in Renderer PROVE Cardinality(Stream(r)') <= Cap
  BY DEF StreamsFit
<1>1. IsFiniteSet(Stream(r)) BY ConstantsOK, FS_Subset DEF Stream
<1>2. IsFiniteSet(Stream(r)') /\ Cardinality(Stream(r)') <= Cardinality(Stream(r))
  BY <1>1, FS_Subset
<1>3. Cardinality(Stream(r)) \in Nat /\ Cardinality(Stream(r)') \in Nat
  BY <1>1, <1>2, FS_CardinalityType
<1> QED BY <1>2, <1>3, ConstantsOK DEF StreamsFit

\* Exporting a frame: it is a new one, and its stream had room.
LEMMA ExportRoom ==
  ASSUME IInv, RoomInv, NEW k \in Key, NEW r \in Renderer, Export(k, r) PROVE RoomInv'
<1> USE DEF IInv, RoomInv
<1>1. /\ epoch \in running /\ entry[k] = "new" /\ Cardinality(Stream(r)) < Cap
      /\ entry' = [entry EXCEPT ![k] = "cached"] /\ shownTo' = [shownTo EXCEPT ![k] = r]
      /\ UNCHANGED <<epoch, serving, over, inbox, query, mainEpoch, releases, bridge, active,
                     renderer>>
  BY DEF Export, Stream, hostVars, mainVars, rendererVars, electronVars
<1>2. ReleaseKept' /\ Follows' BY <1>1 DEF ReleaseKept, Follows
<1>3. Settling' BY <1>1 DEF Settling, Told, TypeOK
<1>4. ActiveIsCurrent'
  <2> SUFFICES ASSUME NEW l \in active, mainEpoch = epoch PROVE shownTo'[l[2]] = renderer
    BY <1>1 DEF ActiveIsCurrent
  <2>1. l \in Lease /\ l = <<epoch, l[2]>> /\ l[2] \in Key /\ epoch # 0
    BY DEF TypeOK, Lease, ActiveIsCurrent
  <2>2. bridge[<<epoch, l[2]>>] \in {"held", "released"} BY <2>1 DEF ActiveIsCurrent, TypeOK
  <2>3. Delivered(l[2]) BY <2>1 DEF Agreed
  <2>4. l[2] # k BY <1>1, <2>2, <2>3 DEF Delivered
  <2> QED BY <1>1, <2>1, <2>4 DEF ActiveIsCurrent, TypeOK
<1>5. StreamsFit'
  <2> SUFFICES ASSUME NEW p \in Renderer PROVE Cardinality(Stream(p)') <= Cap
    BY DEF StreamsFit
  <2>1. IsFiniteSet(Stream(p)) BY ConstantsOK, FS_Subset DEF Stream
  <2>2. CASE p # r
    <3>1. Stream(p)' = Stream(p) BY <1>1, <2>2 DEF Stream, Leased, TypeOK
    <3> QED BY <3>1 DEF StreamsFit
  <2>3. CASE p = r
    <3>1. Stream(p)' = Stream(p) \cup {k} BY <1>1, <2>3 DEF Stream, Leased, TypeOK
    <3>2. Cardinality(Stream(p)') <= Cardinality(Stream(p)) + 1
      BY <2>1, <3>1, FS_AddElement, FS_CardinalityType
    <3>3. Cardinality(Stream(p)) \in Nat /\ Cardinality(Stream(p)') \in Nat
      BY <2>1, <3>1, FS_AddElement, FS_CardinalityType
    <3> QED BY <1>1, <2>3, <3>2, <3>3, ConstantsOK
  <2> QED BY <2>2, <2>3
<1> QED BY <1>2, <1>3, <1>4, <1>5

\* A frame that is dropped before anybody fetched it is not waited for.
LEMMA ExpireRoom == ASSUME IInv, RoomInv, NEW k \in Key, Expire(k) PROVE RoomInv'
<1> USE DEF IInv, RoomInv
<1>1. /\ epoch \in running /\ entry[k] = "cached" /\ entry' = [entry EXCEPT ![k] = "free"]
      /\ UNCHANGED <<epoch, serving, over, shownTo, inbox, query, mainEpoch, releases, bridge,
                     active, renderer>>
  BY DEF Expire, hostVars, mainVars, rendererVars, electronVars
<1>2. ReleaseKept' /\ Follows' BY <1>1 DEF ReleaseKept, Follows
<1>3. bridge[<<epoch, k>>] # "released" BY <1>1 DEF Agreed, Delivered, TypeOK
<1>4. Settling' BY <1>1, <1>3 DEF Settling, Told, TypeOK
<1>5. ActiveIsCurrent' BY <1>1 DEF ActiveIsCurrent
<1>6. StreamsFit' BY <1>1, FewerFit DEF Stream, Leased, TypeOK
<1> QED BY <1>2, <1>4, <1>5, <1>6

\* The host frees what it has been told to.
LEMMA ServesRoom == ASSUME IInv, RoomInv, HostServes PROVE RoomInv'
<1> USE DEF IInv, RoomInv
<1>1. /\ inbox # <<>> /\ inbox' = Tail(inbox)
      /\ entry' = [k \in Key |->
           IF k \in {j \in Key : entry[j] = "cached" /\ j \notin Head(inbox)} THEN "delivered"
           ELSE IF k \in Head(inbox) /\ entry[k] \in {"cached", "delivered"} THEN "free"
           ELSE entry[k]]
      /\ UNCHANGED <<epoch, serving, over, shownTo, mainEpoch, releases, bridge, active, renderer>>
  BY DEF HostServes, hostVars, rendererVars
<1>2. query'.rel = query.rel /\ (query'.phase # "none" => query.phase # "none")
  BY DEF HostServes, TypeOK
<1>3. /\ Len(inbox) \in Nat \ {0} /\ Len(Tail(inbox)) = Len(inbox) - 1 /\ Head(inbox) = inbox[1]
      /\ \A i \in 1..Len(Tail(inbox)) : Tail(inbox)[i] = inbox[i + 1]
  BY <1>1, HeadTailProperties, EmptySeq DEF TypeOK
<1>4. \A k \in Key : Told(k)' => Told(k) BY <1>1, <1>3 DEF Told
<1>5. ReleaseKept' /\ Follows' BY <1>1, <1>2 DEF ReleaseKept, Follows
<1>6. Settling' BY <1>1, <1>2, <1>4 DEF Settling
<1>7. ActiveIsCurrent' BY <1>1 DEF ActiveIsCurrent
<1>8. StreamsFit' BY <1>1, FewerFit DEF Stream, Leased
<1> QED BY <1>5, <1>6, <1>7, <1>8

\* Nothing is known of a host that starts.
LEMMA StartsRoom == ASSUME IInv, RoomInv, HostStarts PROVE RoomInv'
<1> USE DEF IInv, RoomInv
<1>1. /\ over /\ epoch' = epoch + 1 /\ entry' = Fresh /\ shownTo' = [k \in Key |-> 0]
      /\ UNCHANGED <<query, mainEpoch, releases, bridge, active, renderer>>
  BY DEF HostStarts, Launch, mainVars, rendererVars
<1>2. query.phase = "none" BY <1>1 DEF QueryCurrent
<1>3. mainEpoch < epoch' BY <1>1 DEF Epochs, TypeOK
<1>4. ReleaseKept' BY <1>1 DEF ReleaseKept
<1>5. Follows'
  <2>1. \A l \in Lease : bridge[l] # "none" => l[1] # epoch'
    BY <1>1 DEF LeasesExist, Lease, TypeOK
  <2> QED BY <1>1, <1>2, <1>3, <2>1 DEF Follows, TypeOK
<1>6. Settling' BY <1>1, <1>2 DEF Settling
<1>7. ActiveIsCurrent' BY <1>1, <1>3 DEF ActiveIsCurrent, TypeOK
<1>8. StreamsFit' BY <1>1, FewerFit DEF Stream, Leased, Fresh
<1> QED BY <1>4, <1>5, <1>6, <1>7, <1>8

\* Hosts shake hands, are given up and die; queries end; renderers come and die;
\* references are dropped.
LEMMA OtherRoom ==
  ASSUME IInv, RoomInv,
         UNCHANGED <<epoch, entry, shownTo, inbox, mainEpoch, releases, bridge, active>>,
         query' \in {query, NoQuery}, active = {} \/ renderer' = renderer,
         over' \/ (over' = over /\ serving' \in {epoch, serving}),
         over' => query'.phase = "none" \/ over
  PROVE  RoomInv'
<1> USE DEF IInv, RoomInv
<1>1. ReleaseKept' BY DEF ReleaseKept
<1>2. Follows' BY DEF Follows, NoQuery
<1>3. Settling' BY DEF Settling, Told, NoQuery
<1>4. ActiveIsCurrent' BY DEF ActiveIsCurrent
<1>5. StreamsFit' BY FewerFit DEF Stream, Leased
<1> QED BY <1>1, <1>2, <1>3, <1>4, <1>5

\* The controller's poll: a query carries every release that is waited for.
LEMMA PollRoom == ASSUME IInv, RoomInv, Poll PROVE RoomInv'
<1> DEFINE ended == mainEpoch # (IF serving = 0 THEN 0 ELSE epoch)
           queued == IF ended THEN {} ELSE releases
           send == CanQuery(queued)
<1> USE DEF IInv, RoomInv
<1>1. /\ mainEpoch' = IF serving = 0 THEN 0 ELSE epoch
      /\ releases' = queued
      /\ bridge' = IF ended THEN RetiredEpoch ELSE bridge
      /\ active' = IF ended THEN {} ELSE active
      /\ query' = IF send THEN [phase |-> "sent", epoch |-> epoch, rel |-> queued, frames |-> {}]
                  ELSE query
      /\ inbox' = IF send THEN Append(inbox, queued) ELSE inbox
      /\ ended \/ send
      /\ UNCHANGED <<epoch, serving, over, entry, shownTo, renderer>>
  BY DEF Poll, hostVars, rendererVars, electronVars
<1>2. send => serving # 0 /\ query.phase = "none" BY DEF CanQuery
<1>3. \A l \in Lease : bridge'[l] = bridge[l] \/ bridge'[l] = "none"
  BY <1>1 DEF RetiredEpoch, Acknowledge, TypeOK
<1>4. serving # 0 => ~over /\ serving = epoch BY DEF Epochs
<1>5. serving # 0 /\ ended => \A l \in Lease : bridge'[l] # "none" => l[1] # epoch
  BY <1>3, <1>4 DEF Follows
<1>6. query.phase # "none" => ~ended
  BY DEF QueryCurrent, Follows
<1> HIDE DEF queued, send, ended
<1>7. ReleaseKept'
  <2>1. CASE ended
    <3>1. \A l \in Lease : l[1] # 0 BY DEF Lease
    <3>2. serving = 0 => mainEpoch' = 0 BY <1>1
    <3>3. serving # 0 => mainEpoch' = epoch BY <1>1
    <3> QED BY <1>5, <2>1, <3>1, <3>2, <3>3 DEF ReleaseKept
  <2>2. CASE ~ended BY <1>1, <2>2 DEF ReleaseKept, queued, ended
  <2> QED BY <2>1, <2>2
<1>8. Follows'
  <2>1. CASE ended
    <3>1. query'.phase # "none" => mainEpoch' = epoch' BY <1>1, <1>2, <1>6, <2>1
    <3>2. ~over => epoch # 0 /\ (mainEpoch' = epoch => serving = epoch)
      BY <1>1, <1>4 DEF Follows
    <3>3. ~over /\ mainEpoch' # epoch => mainEpoch # epoch
      BY <1>1, <2>1 DEF Follows, ended
    <3> QED BY <1>1, <1>3, <3>1, <3>2, <3>3 DEF Follows
  <2>2. CASE ~ended BY <1>1, <1>2, <1>4, <2>2 DEF Follows, ended, queued
  <2> QED BY <2>1, <2>2
<1>9. Settling'
  <2>1. CASE send
    <3> SUFFICES ASSUME NEW k \in Key, k \notin queued PROVE bridge'[<<epoch, k>>] # "released"
      BY <1>1, <2>1 DEF Settling
    <3>1. <<epoch, k>> \in Lease BY <1>2, <1>4, <2>1, ConstantsOK DEF TypeOK, Lease, Follows
    <3>2. CASE ended BY <1>2, <1>5, <2>1, <3>1, <3>2
    <3>3. CASE ~ended
      <4>1. mainEpoch = epoch /\ queued = releases /\ bridge' = bridge
        BY <1>1, <1>2, <2>1, <3>3 DEF ended, queued
      <4> QED BY <3>1, <4>1 DEF ReleaseKept
    <3> QED BY <3>2, <3>3
  <2>2. CASE ~send
    <3>1. query' = query /\ inbox' = inbox /\ ended BY <1>1, <2>2
    <3> QED BY <1>1, <1>6, <3>1 DEF Settling
  <2> QED BY <2>1, <2>2
<1>10. ActiveIsCurrent'
  <2>1. CASE ended BY <1>1, <2>1 DEF ActiveIsCurrent
  <2>2. CASE ~ended BY <1>1, <2>2 DEF ActiveIsCurrent, ended
  <2> QED BY <2>1, <2>2
<1>11. StreamsFit' BY <1>1, FewerFit DEF Stream, Leased
<1> QED BY <1>7, <1>8, <1>9, <1>10, <1>11

\* An answer settles what its query carried, and nothing else.
LEMMA AckedSettles ==
  ASSUME TypeOK
  PROVE  \A l \in Lease : Acked[l] = "released" => bridge[l] = "released" /\ l[2] \notin query.rel
  BY DEF TypeOK, Acked, Acknowledge, OfKeys

\* The answer is taken.
LEMMA AnswerRoom ==
  ASSUME IInv, RoomInv, QueryRefused \/ \E k \in Key : QueryAccepted(k) PROVE RoomInv'
<1> USE DEF IInv, RoomInv
<1>1. /\ query.phase = "answered" /\ query' = NoQuery /\ mainEpoch = epoch
      /\ releases \ query.rel \subseteq releases'
      /\ UNCHANGED <<epoch, serving, over, entry, shownTo, inbox, mainEpoch, renderer>>
  BY DEF QueryRefused, QueryAccepted, Answered, Refused, hostVars, nativeVars, rendererVars
<1>2. \/ bridge' = Acked /\ active' = ActiveAfter
      \/ \E k \in Key :
           /\ bridge' = [Acked EXCEPT ![<<epoch, k>>] = "held"]
           /\ active' = ActiveAfter \cup {<<epoch, k>>}
           /\ renderer # 0 /\ shownTo[k] = renderer
  BY <1>1 DEF QueryRefused, QueryAccepted
<1>3. epoch # 0 /\ ~over BY <1>1 DEF QueryCurrent
<1>4. \A k \in Key : <<epoch, k>> \in Lease BY <1>3, ConstantsOK DEF TypeOK, Lease
<1>5. \A l \in Lease : bridge'[l] = "released" => bridge[l] = "released" /\ l[2] \notin query.rel
  BY <1>2, <1>4, AckedSettles, AckedOnlyEnds
<1>6. ReleaseKept' BY <1>1, <1>5 DEF ReleaseKept
<1>7. Follows' /\ Settling' BY <1>1 DEF Follows, Settling, NoQuery
<1>8. ActiveIsCurrent'
  <2>1. \A l \in ActiveAfter : l \in active /\ l \in Lease /\ Acked[l] # "none"
    BY DEF ActiveAfter, TypeOK
  <2>2. \A l \in ActiveAfter : bridge'[l] # "none"
    BY <1>2, <1>4, <2>1, AckedOnlyEnds
  <2>3. CASE bridge' = Acked /\ active' = ActiveAfter
    BY <1>1, <2>1, <2>2, <2>3 DEF ActiveIsCurrent
  <2>4. ASSUME NEW k \in Key, bridge' = [Acked EXCEPT ![<<epoch, k>>] = "held"],
               active' = ActiveAfter \cup {<<epoch, k>>}, renderer # 0, shownTo[k] = renderer
        PROVE  ActiveIsCurrent'
    <3>1. bridge'[<<epoch, k>>] = "held" BY <1>4, <2>4, AckedOnlyEnds
    <3> QED BY <1>1, <2>1, <2>2, <2>4, <3>1 DEF ActiveIsCurrent
  <2> QED BY <1>2, <2>3, <2>4
<1>9. StreamsFit' BY <1>1, FewerFit DEF Stream, Leased
<1> QED BY <1>6, <1>7, <1>8, <1>9

\* The bridges of a renderer that is gone: what they wait for is queued again.
LEMMA GoneRoom == ASSUME IInv, RoomInv, RendererGone PROVE RoomInv'
<1> USE DEF IInv, RoomInv
<1>1. /\ renderer' = 0 /\ active' = {} /\ releases \subseteq releases'
      /\ UNCHANGED <<epoch, serving, over, entry, shownTo, inbox, query, mainEpoch>>
  BY DEF RendererGone, hostVars, nativeVars
<1>2. \A l \in Lease : bridge'[l] \in {bridge[l], "none"}
  BY DEF RendererGone, Acknowledge
<1>3. ReleaseKept' BY <1>1, <1>2 DEF ReleaseKept
<1>4. Follows' BY <1>1, <1>2 DEF Follows
<1>5. Settling'
  <2> SUFFICES ASSUME query.phase # "none", NEW k \in Key PROVE <<epoch, k>> \in Lease
    BY <1>1, <1>2 DEF Settling, Told
  <2> QED BY ConstantsOK DEF QueryCurrent, TypeOK, Lease
<1>6. ActiveIsCurrent' BY <1>1 DEF ActiveIsCurrent
<1>7. StreamsFit' BY <1>1, FewerFit DEF Stream, Leased
<1> QED BY <1>3, <1>4, <1>5, <1>6, <1>7

\* The last reference is gone: the host has not been told of it.
LEMMA GpuRoom == ASSUME IInv, RoomInv, NEW l \in Lease, GpuReleased(l) PROVE RoomInv'
<1> USE DEF IInv, RoomInv
<1>1. bridge[l] = "held" BY DEF GpuReleased, TypeOK, TextureTracked
<1>2. /\ active' = {a \in active : bridge'[a] # "none"}
      /\ UNCHANGED <<epoch, serving, over, entry, shownTo, inbox, query, mainEpoch, renderer>>
  BY DEF GpuReleased, hostVars, nativeVars, rendererVars
<1>3. \/ /\ l[1] = mainEpoch /\ bridge' = [bridge EXCEPT ![l] = "released"]
         /\ releases' = releases \cup {l[2]}
      \/ l[1] # mainEpoch /\ bridge' = [bridge EXCEPT ![l] = "none"] /\ releases' = releases
  BY <1>1 DEF GpuReleased
<1>4. /\ \A a \in Lease : a # l => bridge'[a] = bridge[a]
      /\ bridge'[l] = IF l[1] = mainEpoch THEN "released" ELSE "none"
  BY <1>3 DEF TypeOK
<1>5. ReleaseKept' BY <1>2, <1>3, <1>4 DEF ReleaseKept
<1>6. Follows' BY <1>1, <1>2, <1>4 DEF Follows
<1>7. Settling'
  <2> SUFFICES ASSUME query.phase # "none", NEW k \in Key \ query.rel,
                      bridge'[<<epoch, k>>] = "released"
               PROVE  ~Told(k)
    BY <1>2 DEF Settling, Told
  <2>1. <<epoch, k>> \in Lease /\ epoch # 0 BY ConstantsOK DEF QueryCurrent, TypeOK, Lease
  <2>2. CASE <<epoch, k>> = l
    <3>1. Delivered(k) BY <2>1 DEF Agreed
    <3> QED BY <1>1, <2>2, <3>1 DEF Delivered, OnWay, Told
  <2>3. CASE <<epoch, k>> # l BY <1>4, <2>1, <2>3 DEF Settling
  <2> QED BY <2>2, <2>3
<1>8. ActiveIsCurrent' BY <1>2 DEF ActiveIsCurrent
<1>9. StreamsFit' BY <1>2, FewerFit DEF Stream, Leased
<1> QED BY <1>5, <1>6, <1>7, <1>8, <1>9

\* Every step keeps the bridge in order.
LEMMA StepRoom == ASSUME IInv, RoomInv, [Next]_vars PROVE RoomInv'
<1>1. CASE HostStarts BY <1>1, StartsRoom
<1>2. CASE HostReady
  BY <1>2, OtherRoom DEF HostReady, Serve, nativeVars, mainVars, rendererVars, electronVars
<1>3. CASE HostAbandoned
  BY <1>3, OtherRoom DEF HostAbandoned, Abandon, NoQuery, nativeVars, rendererVars, electronVars
<1>4. CASE HostDies
  BY <1>4, OtherRoom DEF HostDies, Die, nativeVars, mainVars, rendererVars, electronVars
<1>5. CASE Native BY <1>5, ServesRoom, ExpireRoom, ExportRoom DEF Native
<1>6. CASE QueryTimeout
  BY <1>6, OtherRoom DEF QueryTimeout, NoQuery, hostVars, nativeVars, rendererVars, electronVars
<1>7. CASE Controller BY <1>6, <1>7, PollRoom, AnswerRoom DEF Controller
<1>8. ASSUME NEW l \in Lease, Releases(l) \/ MainReleases(l) \/ ReceiverReleased(l) \/ Sweep(l)
      PROVE  RoomInv'
  <2>1. UNCHANGED <<hostVars, nativeVars, mainVars, rendererVars>>
    BY <1>8 DEF Releases, MainReleases, ReceiverReleased, Sweep
  <2> QED BY <2>1, OtherRoom DEF hostVars, nativeVars, mainVars, rendererVars
<1>9. CASE Textures BY <1>8, <1>9, GpuRoom DEF Textures
<1>10. CASE RendererReady \/ RendererDies \/ FrameDestroyed
  <2>1. active = {} \/ renderer' = renderer
    BY <1>10 DEF RendererReady, RendererDies, FrameDestroyed, RoomInv, ActiveIsCurrent
  <2>2. UNCHANGED <<hostVars, nativeVars, mainVars>> BY <1>10 DEF RendererReady, RendererDies, FrameDestroyed
  <2> QED BY <2>1, <2>2, OtherRoom DEF hostVars, nativeVars, mainVars
<1>11. CASE RendererGone BY <1>11, GoneRoom
<1>12. CASE UNCHANGED vars
  BY <1>12, OtherRoom DEF vars, hostVars, nativeVars, mainVars, rendererVars
<1> QED BY <1>1, <1>2, <1>3, <1>4, <1>5, <1>7, <1>9, <1>10, <1>11, <1>12 DEF Next

\* The bridge is in order in every state that can be reached.
THEOREM TexturesRoomInv == Spec => []RoomInv
<1>1. Init => RoomInv
  <2> SUFFICES ASSUME Init PROVE RoomInv OBVIOUS
  <2> USE ConstantsOK DEF Init, HostInit, NoQuery, Fresh
  <2>1. ReleaseKept /\ Follows /\ Settling /\ ActiveIsCurrent
    BY DEF ReleaseKept, Follows, Settling, ActiveIsCurrent
  <2>2. \A r \in Renderer : Stream(r) = {} BY DEF Stream, Leased
  <2>3. Cardinality({}) <= Cap BY FS_EmptySet
  <2>4. StreamsFit BY <2>2, <2>3 DEF StreamsFit
  <2> QED BY <2>1, <2>4 DEF RoomInv
<1>2. IInv /\ RoomInv /\ [Next]_vars => RoomInv' BY StepRoom
<1> QED BY <1>1, <1>2, TexturesIInv, PTL DEF Spec

\* A release the bridge still waits for is still queued, however many answers are
\* lost and whatever renderers and hosts come and go.
THEOREM TexturesReleaseKept == Spec => []ReleaseKept
<1>1. RoomInv => ReleaseKept BY DEF RoomInv
<1> QED BY <1>1, TexturesRoomInv, PTL

\* A frame that could be shown always finds room in its bridge: every lease that an
\* answer leaves in the bridge is one the host still counts in the frame's stream,
\* and the frame itself is another.
THEOREM TexturesBridgeHasRoom == Spec => []BridgeHasRoom
<1>1. ASSUME IInv, RoomInv PROVE BridgeHasRoom
  <2> SUFFICES ASSUME query.phase = "answered", query.epoch = mainEpoch, query.epoch = epoch,
                      NEW k \in query.frames, renderer # 0, shownTo[k] = renderer
               PROVE  Cardinality(ActiveAfter) < Cap
    BY DEF BridgeHasRoom
  <2> USE <1>1 DEF IInv, RoomInv
  <2> DEFINE S == Stream(renderer)
             f == [a \in ActiveAfter |-> a[2]]
  <2>1. k \in Key /\ epoch # 0 /\ renderer \in Renderer
    BY ConstantsOK DEF TypeOK, QueryCurrent, Renderer
  <2>2. Delivered(k) BY <2>1 DEF Agreed
  <2>3. IsFiniteSet(S) /\ k \in S
    BY <2>1, <2>2, ConstantsOK, FS_Subset DEF Stream, Leased, Delivered
  <2>4. ASSUME NEW a \in ActiveAfter PROVE a = <<epoch, a[2]>> /\ a[2] \in S \ {k}
    <3>1. a \in active /\ a \in Lease /\ Acked[a] # "none" BY DEF ActiveAfter, TypeOK
    <3>2. a = <<epoch, a[2]>> /\ a[2] \in Key /\ shownTo[a[2]] = renderer /\ bridge[a] # "none"
      BY <3>1 DEF ActiveIsCurrent, Lease
    <3>3. Delivered(a[2]) BY <2>1, <3>2 DEF Agreed
    <3>4. a[2] # k BY <2>2, <3>2 DEF Delivered
    <3>5. entry[a[2]] = "delivered"
      <4>1. CASE bridge[a] = "held" BY <3>2, <3>3, <4>1 DEF Delivered
      <4>2. CASE bridge[a] = "released"
        <5>1. a[2] \notin query.rel
          BY <3>1, <3>2, <4>2, AckedSettles, AckedOnlyEnds
        <5>2. ~Told(a[2]) BY <3>2, <4>2, <5>1 DEF Settling
        <5> QED BY <3>2, <3>3, <4>2, <5>2 DEF Delivered, Told
      <4> QED BY <3>1, <3>2, <4>1, <4>2 DEF TypeOK
    <3> QED BY <3>2, <3>4, <3>5 DEF Stream, Leased
  <2>5. f \in Injection(ActiveAfter, S \ {k}) BY <2>4 DEF Injection, IsInjective
  <2>6. IsFiniteSet(S \ {k}) /\ Cardinality(S \ {k}) = Cardinality(S) - 1
    BY <2>3, FS_RemoveElement
  <2>7. IsFiniteSet(ActiveAfter) /\ Cardinality(ActiveAfter) <= Cardinality(S \ {k})
    BY <2>5, <2>6, FS_Injection
  <2>8. Cardinality(S) <= Cap BY <2>1 DEF StreamsFit
  <2>9. Cardinality(S) \in Nat /\ Cardinality(ActiveAfter) \in Nat
    BY <2>3, <2>7, FS_CardinalityType
  <2> QED BY <2>6, <2>7, <2>8, <2>9, ConstantsOK
<1> QED BY <1>1, TexturesIInv, TexturesRoomInv, PTL
=============================================================================
