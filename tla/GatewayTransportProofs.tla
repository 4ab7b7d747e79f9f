------------------------ MODULE GatewayTransportProofs ------------------------
(***************************************************************************)
(* The queue of commands loses nothing and strands nothing, for any number *)
(* of operations, commands and sockets.                                    *)
(***************************************************************************)
EXTENDS GatewayTransport, FiniteSetTheorems, FunctionTheorems, SequenceTheorems, TLAPS

Event == {"ready", "nonce", "operation"} \X (Command \cup {None})
Mode == {"join", "disconnect", "update_flags", "request_snapshot"}

\* The commands asked for so far: those of a key are numbered.
Given == {m \in Command : last[m[1]] # None /\ m[3] <= last[m[1]][3]}

\* Every acknowledgement under way is of a command the server has handled.
Told == {m \in Given : m = last[m[1]] => m[1] \in done}
AcksAreTrue ==
  /\ events \in Seq(Event)
  /\ \A i \in 1..Len(events) : events[i][1] = "nonce" => events[i][2] \in Told

\* The wire carries what was asked for, under its own key; what is kept is the latest.
Numbered ==
  /\ \A k \in Key : last[k] = None \/ last[k][1] = k
  /\ \A k \in Key : reliable[k] \in {None, last[k]}
  /\ wire \in [1..MaxSocket -> Seq(Given)]

\* The latest command of a key is kept, or is done with.
Remembered ==
  life # "disposed" => \A k \in Key : reliable[k] # last[k] => reliable[k] = None /\ k \in done

IInv == TypeOK /\ AcksAreTrue /\ Numbered /\ Remembered

\* A command is not None, and has a key.
LEMMA Commands ==
  /\ \A m \in Command : m # None /\ m[1] \in Key /\ m[2] \in Mode /\ m[3] \in Nat
                        /\ m = <<m[1], m[2], m[3]>>
  /\ \A k \in Key, mode \in Mode, n \in Nat : <<k, mode, n>> \in Command
  BY DEF Command, None, Mode

\* What the map holds can be put in an order.
LEMMA KeysFinite == IsFiniteSet(Key)
<1>1. IsFiniteSet({"voice-operation", "voice-flags"})
  <2>1. IsFiniteSet({}) BY FS_EmptySet
  <2>2. IsFiniteSet({} \cup {"voice-operation"}) BY <2>1, FS_AddElement
  <2>3. IsFiniteSet({"voice-operation"} \cup {"voice-flags"}) BY <2>2, FS_AddElement
  <2>4. {"voice-operation"} \cup {"voice-flags"} = {"voice-operation", "voice-flags"} OBVIOUS
  <2> QED BY <2>3, <2>4
<1>2. IsFiniteSet(Op \X {"voice-operation", "voice-flags"}) BY <1>1, ConstantsOK, FS_Product
<1> QED BY <1>2, FS_AddElement DEF Key

\* The values of a map over the keys can be counted.
LEMMA ValuesFinite ==
  ASSUME NEW f PROVE Cardinality({f[k] : k \in Key} \ {None}) \in Nat
<1> DEFINE V == {f[k] : k \in Key} \ {None}
           K == {k \in Key : f[k] # None}
           g == [k \in K |-> f[k]]
<1>1. IsFiniteSet(K) BY KeysFinite, FS_Subset
<1>2. g \in Surjection(K, V)
  <2>1. g \in [K -> V] OBVIOUS
  <2>2. \A v \in V : \E k \in K : g[k] = v OBVIOUS
  <2> QED BY <2>1, <2>2, Fun_IsSurj
<1>3. IsFiniteSet(V) BY <1>1, <1>2, FS_Surjection
<1> QED BY <1>3, FS_CardinalityType

\* What a sequence holds after one of its operations.
LEMMA RangeAppend ==
  ASSUME NEW S, NEW q \in Seq(S), NEW e PROVE Range(Append(q, e)) = Range(q) \cup {e}
<1>1. /\ DOMAIN Append(q, e) = 1..Len(q) + 1 /\ DOMAIN q = 1..Len(q) /\ Len(q) \in Nat
      /\ \A i \in 1..Len(q) : Append(q, e)[i] = q[i]
      /\ Append(q, e)[Len(q) + 1] = e
  OBVIOUS
<1> QED BY <1>1 DEF Range

LEMMA RangeConcat ==
  ASSUME NEW S, NEW q \in Seq(S), NEW r \in Seq(S) PROVE Range(q \o r) = Range(q) \cup Range(r)
<1>1. /\ Len(q) \in Nat /\ Len(r) \in Nat /\ DOMAIN q = 1..Len(q) /\ DOMAIN r = 1..Len(r)
      /\ q \o r \in Seq(S) /\ Len(q \o r) = Len(q) + Len(r)
      /\ DOMAIN (q \o r) = 1..Len(q) + Len(r)
      /\ \A i \in 1..Len(q) + Len(r) : (q \o r)[i] = IF i <= Len(q) THEN q[i] ELSE r[i - Len(q)]
  BY ConcatProperties
<1>2. \A i \in 1..Len(q) : i \in 1..Len(q) + Len(r) /\ (q \o r)[i] = q[i] BY <1>1
<1>3. \A i \in 1..Len(r) : i + Len(q) \in 1..Len(q) + Len(r) /\ (q \o r)[i + Len(q)] = r[i]
  BY <1>1
<1>4. \A i \in 1..Len(q) + Len(r) : i \notin 1..Len(q) =>
        i - Len(q) \in 1..Len(r) /\ (q \o r)[i] = r[i - Len(q)]
  BY <1>1
<1>5. Range(q \o r) \subseteq Range(q) \cup Range(r) BY <1>1, <1>2, <1>4 DEF Range
<1>6. Range(q) \subseteq Range(q \o r) BY <1>1, <1>2 DEF Range
<1>7. Range(r) \subseteq Range(q \o r) BY <1>1, <1>3 DEF Range
<1> QED BY <1>5, <1>6, <1>7

LEMMA RangeTail ==
  ASSUME NEW S, NEW q \in Seq(S), q # <<>> PROVE Range(q) = {Head(q)} \cup Range(Tail(q))
<1>1. /\ Len(q) \in Nat \ {0} /\ DOMAIN q = 1..Len(q) /\ Head(q) = q[1]
      /\ Tail(q) \in Seq(S) /\ Len(Tail(q)) = Len(q) - 1
      /\ DOMAIN Tail(q) = 1..Len(q) - 1
      /\ \A i \in 1..Len(q) - 1 : Tail(q)[i] = q[i + 1]
  BY HeadTailProperties, EmptySeq
<1>2. \A i \in 1..Len(q) - 1 : i + 1 \in 1..Len(q) BY <1>1
<1>3. \A i \in 1..Len(q) : i # 1 => i - 1 \in 1..Len(q) - 1 /\ Tail(q)[i - 1] = q[i] BY <1>1
<1>4. Range(Tail(q)) \subseteq Range(q)
  <2> SUFFICES ASSUME NEW i \in 1..Len(q) - 1 PROVE Tail(q)[i] \in Range(q) BY <1>1 DEF Range
  <2>1. i + 1 \in DOMAIN q /\ Tail(q)[i] = q[i + 1] BY <1>1, <1>2
  <2> QED BY <2>1 DEF Range
<1>5. Range(q) \subseteq {Head(q)} \cup Range(Tail(q))
  <2> SUFFICES ASSUME NEW i \in 1..Len(q), i # 1 PROVE q[i] \in Range(Tail(q))
    BY <1>1 DEF Range
  <2>1. i - 1 \in DOMAIN Tail(q) /\ Tail(q)[i - 1] = q[i] BY <1>1, <1>3
  <2> QED BY <2>1 DEF Range
<1>6. Head(q) \in Range(q) BY <1>1 DEF Range
<1> QED BY <1>4, <1>5, <1>6

\* Initially nothing has been asked for.
LEMMA InitIInv == Init => IInv
<1> SUFFICES ASSUME Init PROVE IInv OBVIOUS
<1> USE DEF Init
<1>1. TypeOK
  <2>1. wire \in [1..MaxSocket -> Seq(Command)]
    <3>1. <<>> \in Seq(Command) OBVIOUS
    <3> QED BY <3>1
  <2>2. sockets \in 0..MaxSocket BY ConstantsOK
  <2>3. \A k \in Key : reliable[k] = None /\ last[k] = None OBVIOUS
  <2>4. timer = FALSE OBVIOUS
  <2> QED BY <2>1, <2>2, <2>3, <2>4 DEF TypeOK
<1>2. AcksAreTrue BY DEF AcksAreTrue
<1>3. Numbered
  <2>1. <<>> \in Seq(Given) OBVIOUS
  <2> QED BY <2>1 DEF Numbered
<1> QED BY <1>1, <1>2, <1>3 DEF IInv, Remembered

\* A new socket is the latest one, and calls a reconnect off.
LEMMA OpenTyped ==
  ASSUME TypeOK, OpenSocket
  PROVE  /\ socket' \in {0, sockets'} /\ sockets' \in 0..MaxSocket
         /\ open' = FALSE /\ timer' = FALSE /\ welcomed' = FALSE
  BY ConstantsOK DEF TypeOK, OpenSocket

\* Steps of the socket drop what was on its way, and nothing that is kept.
LEMMA SocketIInv ==
  ASSUME IInv, Configure \/ SocketOpens \/ SocketLost \/ Reconnect
  PROVE  IInv'
<1> DEFINE Calm == /\ UNCHANGED <<reliable, last, wire, done>>
                   /\ events' \in {events, <<>>}
                   /\ life' = "disposed" <=> life = "disposed"
           Typed == /\ socket' \in {0, sockets'} /\ sockets' \in 0..MaxSocket
                    /\ open' \in BOOLEAN /\ connected' \in BOOLEAN /\ timer' \in BOOLEAN
                    /\ welcomed' \in BOOLEAN /\ (timer' => socket' = 0)
                    /\ life' \in {"new", "on", "disposed"}
<1>1. Calm /\ Typed
  <2> USE ConstantsOK DEF IInv, TypeOK
  <2>1. CASE Configure
    <3>1. Calm BY <2>1 DEF Configure, OpenSocket
    <3>2. Typed BY <2>1, OpenTyped DEF Configure
    <3> QED BY <3>1, <3>2
  <2>2. CASE SocketOpens BY <2>2 DEF SocketOpens, serverVars
  <2>3. CASE SocketLost BY <2>3 DEF SocketLost
  <2>4. CASE Reconnect
    <3>1. Calm BY <2>4 DEF Reconnect, OpenSocket
    <3>2. Typed BY <2>4, OpenTyped DEF Reconnect
    <3> QED BY <3>1, <3>2
  <2> QED BY <2>1, <2>2, <2>3, <2>4
<1>4. TypeOK' BY <1>1 DEF IInv, TypeOK
<1>5. AcksAreTrue'
  <2>1. CASE events' = events BY <1>1, <2>1 DEF IInv, AcksAreTrue, Told, Given
  <2>2. CASE events' = <<>> BY <1>1, <2>2 DEF AcksAreTrue
  <2> QED BY <1>1, <2>1, <2>2
<1>6. Numbered' BY <1>1 DEF IInv, Numbered, Given
<1>7. Remembered' BY <1>1 DEF IInv, Remembered
<1> QED BY <1>4, <1>5, <1>6, <1>7 DEF IInv

\* Disposing of the transport forgets everything.
LEMMA StopIInv == ASSUME IInv, Stop PROVE IInv'
<1> USE DEF IInv, Stop
<1>1. TypeOK' BY ConstantsOK DEF TypeOK
<1>2. AcksAreTrue' BY DEF AcksAreTrue
<1>3. Numbered' BY DEF Numbered, Given
<1> QED BY <1>1, <1>2, <1>3 DEF Remembered

\* Sequences over a set are sequences over a larger one.
LEMMA SeqGrows ==
  ASSUME NEW S, NEW T, S \subseteq T, NEW I, NEW f \in [I -> Seq(S)] PROVE f \in [I -> Seq(T)]
<1>1. ASSUME NEW i \in I PROVE f[i] \in Seq(T) BY <1>1
<1> QED BY <1>1

\* Sending adds commands to the wire.
LEMMA SendTyped ==
  ASSUME TypeOK, NEW S, wire \in [1..MaxSocket -> Seq(S)],
         NEW ready \in BOOLEAN, NEW q \in Seq(S), SendWhenReady(ready, q)
  PROVE  wire' \in [1..MaxSocket -> Seq(S)]
<1>1. CASE wire' = wire BY <1>1
<1>2. CASE socket # 0 /\ wire' = [wire EXCEPT ![socket] = wire[socket] \o q]
  <2>1. socket \in 1..MaxSocket BY <1>2, ConstantsOK DEF TypeOK
  <2>2. wire[socket] \o q \in Seq(S) BY <2>1, ConcatProperties
  <2> QED BY <1>2, <2>1, <2>2
<1> QED BY <1>1, <1>2 DEF SendWhenReady

\* sendReliable(), apart from the wire.
Asks(k, m) ==
  /\ last' = [last EXCEPT ![k] = m]
  /\ reliable' = [reliable EXCEPT ![k] = m]
  /\ done' = done \ {k}

\* A new command takes the place of its key's earlier one, which it is not: an
\* acknowledgement under way stays true.
LEMMA AskKeeps ==
  ASSUME TypeOK, Numbered, Remembered, life' = life, NEW k \in Key, NEW mode \in Mode,
         NEW m, m = <<k, mode, Nonce(k)>>, Asks(k, m)
  PROVE  /\ last' \in [Key -> Command \cup {None}] /\ reliable' \in [Key -> Command \cup {None}]
         /\ \A j \in Key : reliable'[j] = None \/ reliable'[j][1] = j
         /\ done' \subseteq Key
         /\ m \in Given' /\ Given \subseteq Given'
         /\ Told \subseteq Told'
         /\ \A j \in Key : last'[j] = None \/ last'[j][1] = j
         /\ \A j \in Key : reliable'[j] \in {None, last'[j]}
         /\ Remembered'
         /\ m \in Command /\ Kept' \subseteq Kept \cup {m}
<1>1. m \in Command /\ Nonce(k) \in Nat /\ (last[k] # None => Nonce(k) = last[k][3] + 1)
  <2>1. last[k] = None \/ last[k][3] \in Nat BY Commands DEF TypeOK
  <2>2. Nonce(k) \in Nat /\ (last[k] # None => Nonce(k) = last[k][3] + 1) BY <2>1 DEF Nonce
  <2> QED BY <2>2, Commands
<1>2. /\ last' \in [Key -> Command \cup {None}] /\ reliable' \in [Key -> Command \cup {None}]
      /\ last'[k] = m /\ reliable'[k] = m
      /\ \A j \in Key : j # k => last'[j] = last[j] /\ reliable'[j] = reliable[j]
  BY <1>1 DEF TypeOK, Asks
<1>3. m[1] = k /\ m[3] = Nonce(k) /\ m # None BY <1>1, Commands
<1>4. m \in Given'
  <2>1. m[3] <= last'[m[1]][3] /\ last'[m[1]] # None BY <1>1, <1>2, <1>3
  <2> QED BY <1>1, <2>1 DEF Given
<1>5. ASSUME NEW n \in Given PROVE n \in Given' /\ n # m
  <2>1. n \in Command /\ n[1] \in Key /\ n[3] \in Nat /\ last[n[1]] # None /\ n[3] <= last[n[1]][3]
    BY Commands DEF Given
  <2>2. CASE n[1] = k
    <3>1. last[k] \in Command BY <2>1, <2>2 DEF TypeOK
    <3>2. last[k][3] \in Nat BY <3>1, Commands
    <3>3. n[3] < m[3] /\ n[3] <= last'[n[1]][3] BY <1>1, <1>2, <1>3, <2>1, <2>2, <3>2
    <3>4. last'[n[1]] # None BY <1>2, <1>3, <2>2
    <3>5. n # m BY <1>1, <1>3, <2>1, <3>3
    <3> QED BY <2>1, <3>3, <3>4, <3>5 DEF Given
  <2>3. CASE n[1] # k BY <1>2, <1>3, <2>1, <2>3 DEF Given
  <2> QED BY <2>2, <2>3
<1>6. Told \subseteq Told'
  <2> SUFFICES ASSUME NEW n \in Told PROVE n \in Told' OBVIOUS
  <2>1. n \in Given /\ n \in Given' /\ n # m /\ n[1] \in Key BY <1>5, Commands DEF Told, Given
  <2>2. n = last'[n[1]] => n[1] # k /\ last'[n[1]] = last[n[1]] BY <1>2, <2>1
  <2> QED BY <2>1, <2>2 DEF Told, Asks
<1>7. Remembered' BY <1>2 DEF Remembered, Asks
<1>8. Kept' \subseteq Kept \cup {m} BY <1>2 DEF Kept
<1>9. done' \subseteq Key BY DEF Asks, TypeOK
<1>10. /\ \A j \in Key : reliable'[j] = None \/ reliable'[j][1] = j
       /\ \A j \in Key : last'[j] = None \/ last'[j][1] = j
       /\ \A j \in Key : reliable'[j] \in {None, last'[j]}
  <2> SUFFICES ASSUME NEW j \in Key
               PROVE  /\ reliable'[j] = None \/ reliable'[j][1] = j
                      /\ last'[j] = None \/ last'[j][1] = j
                      /\ reliable'[j] \in {None, last'[j]}
    OBVIOUS
  <2>1. CASE j = k BY <1>2, <1>3, <2>1
  <2>2. CASE j # k BY <1>2, <2>2 DEF Numbered, TypeOK
  <2> QED BY <2>1, <2>2
<1> QED BY <1>1, <1>2, <1>4, <1>5, <1>6, <1>7, <1>8, <1>9, <1>10

\* A command that is asked for is the latest of its key, and kept.
LEMMA SendIInv ==
  ASSUME IInv, NEW k \in Key, NEW mode \in Mode, SendReliable(k, mode) PROVE IInv'
<1> DEFINE m == <<k, mode, Nonce(k)>>
<1>1. /\ Asks(k, m) /\ SendWhenReady(connected, <<m>>)
      /\ UNCHANGED <<life, socket, sockets, open, connected, timer, events, welcomed>>
  BY DEF SendReliable, Asks
<1>2. life' = life /\ TypeOK /\ Numbered /\ Remembered BY <1>1 DEF IInv
<1> HIDE DEF m
<1>3. /\ last' \in [Key -> Command \cup {None}] /\ reliable' \in [Key -> Command \cup {None}]
      /\ \A j \in Key : reliable'[j] = None \/ reliable'[j][1] = j
      /\ done' \subseteq Key
      /\ m \in Given' /\ Given \subseteq Given'
      /\ Told \subseteq Told'
      /\ \A j \in Key : last'[j] = None \/ last'[j][1] = j
      /\ \A j \in Key : reliable'[j] \in {None, last'[j]}
      /\ Remembered'
  BY <1>1, <1>2, AskKeeps DEF m
<1>4. wire' \in [1..MaxSocket -> Seq(Given')]
  <2>1. <<m>> \in Seq(Given') BY <1>3
  <2>2. connected \in BOOLEAN BY <1>2 DEF TypeOK
  <2>3. wire \in [1..MaxSocket -> Seq(Given')] BY <1>2, <1>3, SeqGrows DEF Numbered
  <2> QED BY <1>1, <1>2, <2>1, <2>2, <2>3, SendTyped
<1>5. TypeOK'
  <2>1. Given' \subseteq Command BY DEF Given
  <2>2. wire' \in [1..MaxSocket -> Seq(Command)] BY <1>4, <2>1, SeqGrows
  <2> QED BY <1>1, <1>2, <1>3, <2>2 DEF TypeOK
<1>6. AcksAreTrue' BY <1>1, <1>3 DEF IInv, AcksAreTrue
<1>7. Numbered' BY <1>3, <1>4 DEF Numbered
<1> QED BY <1>3, <1>5, <1>6, <1>7 DEF IInv

\* An event that is read leaves the rest.
LEMMA TailTrue ==
  ASSUME AcksAreTrue, events # <<>>, events' = Tail(events), Told \subseteq Told'
  PROVE  AcksAreTrue'
<1>1. /\ Len(events) \in Nat \ {0} /\ Len(Tail(events)) = Len(events) - 1
      /\ Tail(events) \in Seq(Event)
      /\ \A i \in 1..Len(Tail(events)) : Tail(events)[i] = events[i + 1]
  BY HeadTailProperties, EmptySeq DEF AcksAreTrue
<1> QED BY <1>1 DEF AcksAreTrue

\* What Ready does to the map, and what it sends.
LEMMA ReadyAsks ==
  ASSUME IInv, HandleReady
  PROVE  /\ last' \in [Key -> Command \cup {None}] /\ reliable' \in [Key -> Command \cup {None}]
         /\ \A j \in Key : reliable'[j] = None \/ reliable'[j][1] = j
         /\ done' \subseteq Key
         /\ Given \subseteq Given'
         /\ Told \subseteq Told'
         /\ \A j \in Key : last'[j] = None \/ last'[j][1] = j
         /\ \A j \in Key : reliable'[j] \in {None, last'[j]}
         /\ Remembered'
         /\ \E q : q \in Seq(Given') /\ Kept' \subseteq Range(q) /\ SendWhenReady(TRUE, q)
<1> DEFINE m == <<SnapshotKey, "request_snapshot", Nonce(SnapshotKey)>>
           first == IF connected THEN <<>> ELSE <<last'[SnapshotKey]>>
<1>1. SnapshotKey \in Key /\ "request_snapshot" \in Mode BY DEF Key, Mode
<1>2. life' = life BY DEF HandleReady
<1>3. /\ last' \in [Key -> Command \cup {None}] /\ reliable' \in [Key -> Command \cup {None}]
      /\ \A j \in Key : reliable'[j] = None \/ reliable'[j][1] = j
      /\ done' \subseteq Key
      /\ Given \subseteq Given'
      /\ Told \subseteq Told'
      /\ \A j \in Key : last'[j] = None \/ last'[j][1] = j
      /\ \A j \in Key : reliable'[j] \in {None, last'[j]}
      /\ Remembered'
      /\ ~connected => last'[SnapshotKey] \in Given'
  <2>1. CASE connected
    <3>1. UNCHANGED <<last, reliable, done>> BY <2>1 DEF HandleReady, RequestSnapshot
    <3> QED BY <1>2, <2>1, <3>1 DEF IInv, TypeOK, Numbered, Remembered, Given, Told
  <2>2. CASE ~connected
    <3>1. Asks(SnapshotKey, m) BY <2>2 DEF HandleReady, RequestSnapshot, Asks
    <3>2. last'[SnapshotKey] = m BY <1>1, <3>1 DEF Asks, IInv, TypeOK
    <3> QED BY <1>1, <1>2, <3>1, <3>2, AskKeeps DEF IInv
  <2> QED BY <2>1, <2>2 DEF IInv, TypeOK
<1>4. PICK order \in [1..Cardinality(Kept') -> Kept'] :
        Range(order) = Kept' /\ SendWhenReady(TRUE, first \o order)
  BY DEF HandleReady
<1>5. Kept' \subseteq Given'
  <2> SUFFICES ASSUME NEW j \in Key, reliable'[j] # None PROVE reliable'[j] \in Given'
    BY DEF Kept
  <2>1. reliable'[j] = last'[j] /\ last'[j] \in Command /\ last'[j][1] = j BY <1>3
  <2>2. last'[j][3] \in Nat BY <2>1, Commands
  <2>3. last'[j][3] <= last'[j][3] /\ last'[j] # None BY <2>1, <2>2
  <2> QED BY <2>1, <2>3 DEF Given
<1>6. order \in Seq(Given')
  <2>1. Cardinality(Kept') \in Nat
    <3>1. Kept' = {reliable'[k] : k \in Key} \ {None} BY DEF Kept
    <3> QED BY <3>1, ValuesFinite
  <2>2. order \in [1..Cardinality(Kept') -> Given'] BY <1>5
  <2> QED BY <2>1, <2>2
<1>7. first \in Seq(Given') BY <1>3
<1> HIDE DEF first
<1>8. first \o order \in Seq(Given') BY <1>6, <1>7, ConcatProperties
<1>9. Range(order) \subseteq Range(first \o order) BY <1>6, <1>7, RangeConcat
<1> QED BY <1>3, <1>4, <1>8, <1>9

\* Ready sends everything that is kept, and forgets nothing.
LEMMA ReadyIInv == ASSUME IInv, HandleReady PROVE IInv'
<1>1. /\ events # <<>> /\ events' = Tail(events) /\ connected' = TRUE
      /\ UNCHANGED <<life, socket, sockets, open, timer, welcomed>>
  BY DEF HandleReady, Received
<1>2. wire' \in [1..MaxSocket -> Seq(Given')]
  <2>1. PICK q : q \in Seq(Given') /\ SendWhenReady(TRUE, q) BY ReadyAsks
  <2>2. wire \in [1..MaxSocket -> Seq(Given')] BY ReadyAsks, SeqGrows DEF IInv, Numbered
  <2> QED BY <2>1, <2>2, SendTyped DEF IInv
<1>3. TypeOK'
  <2>1. Given' \subseteq Command BY DEF Given
  <2>2. wire' \in [1..MaxSocket -> Seq(Command)] BY <1>2, <2>1, SeqGrows
  <2> QED BY <1>1, <2>2, ReadyAsks DEF IInv, TypeOK
<1>4. AcksAreTrue' BY <1>1, TailTrue, ReadyAsks DEF IInv
<1>5. Numbered' BY <1>2, ReadyAsks DEF Numbered
<1> QED BY <1>3, <1>4, <1>5, ReadyAsks DEF IInv

\* An acknowledgement forgets a command the server has handled; an event that names
\* an operation settles what it forgets.
LEMMA AcknowledgeIInv ==
  ASSUME IInv, NEW answered, Acknowledge(answered), events # <<>>, events' = Tail(events),
         done \subseteq done', done' \subseteq Key,
         \A k \in Key : reliable[k] # None /\ reliable[k] \in answered => k \in done'
  PROVE  IInv'
<1> USE DEF IInv
<1>1. /\ reliable' = [k \in Key |-> IF reliable[k] \in answered THEN None ELSE reliable[k]]
      /\ UNCHANGED <<life, socket, sockets, open, connected, timer, last, wire, welcomed>>
  BY DEF Acknowledge
<1>2. TypeOK' BY <1>1 DEF TypeOK
<1>3. Told \subseteq Told' BY <1>1 DEF Told, Given
<1>4. AcksAreTrue' BY <1>3, TailTrue
<1>5. Numbered' BY <1>1 DEF Numbered, Given
<1>6. Remembered' BY <1>1 DEF Remembered, Numbered
<1> QED BY <1>2, <1>4, <1>5, <1>6

\* The answers of the server.
LEMMA AnswersIInv == ASSUME IInv, HandleVoiceStateAck \/ HandleOperationEvent PROVE IInv'
<1>1. CASE HandleVoiceStateAck
  <2> DEFINE m == Head(events)[2]
  <2>1. /\ Head(events)[1] = "nonce" /\ events # <<>> /\ events' = Tail(events)
        /\ done' = done /\ Acknowledge({m})
    BY <1>1 DEF HandleVoiceStateAck, Received
  <2>2. m \in Told
    BY <2>1, HeadTailProperties, EmptySeq DEF IInv, AcksAreTrue
  <2> HIDE DEF m
  <2>3. ASSUME NEW k \in Key, reliable[k] # None, reliable[k] \in {m} PROVE k \in done'
    BY <2>1, <2>2, <2>3 DEF Told, IInv, Numbered, TypeOK
  <2>4. done \subseteq done' /\ done' \subseteq Key BY <2>1 DEF IInv, TypeOK
  <2> QED BY <2>1, <2>3, <2>4, AcknowledgeIInv
<1>2. CASE HandleOperationEvent
  <2> DEFINE commands == {m \in Kept : m[1][1] = Head(events)[2][1][1]}
  <2>1. /\ Acknowledge(commands) /\ done' = done \cup {m[1] : m \in commands}
        /\ events # <<>> /\ events' = Tail(events) /\ commands \subseteq Kept
    BY <1>2 DEF HandleOperationEvent, Received
  <2> HIDE DEF commands
  <2>2. \A k \in Key : reliable[k] # None => reliable[k][1] = k BY DEF IInv, TypeOK
  <2>3. done' \subseteq Key BY <2>1, <2>2 DEF Kept, IInv, TypeOK
  <2>4. \A k \in Key : reliable[k] # None /\ reliable[k] \in commands => k \in done'
    BY <2>1, <2>2
  <2> QED BY <2>1, <2>3, <2>4, AcknowledgeIInv
<1> QED BY <1>1, <1>2

\* What the server sends and reads.
LEMMA ServerIInv ==
  ASSUME IInv, ServerWelcomes \/ \E s \in 1..MaxSocket : ServerHandles(s) \/ WireLost(s)
  PROVE  IInv'
<1> USE DEF IInv
<1> DEFINE Goal == /\ welcomed' \in BOOLEAN /\ wire' \in [1..MaxSocket -> Seq(Given)]
                   /\ done \subseteq done' /\ done' \subseteq Key /\ AcksAreTrue'
<1>1. UNCHANGED <<life, socket, sockets, open, connected, timer, reliable, last>>
  BY DEF ServerWelcomes, ServerHandles, WireLost
<1>2. Given' = Given BY <1>1 DEF Given
<1>3. Goal
  <2>1. CASE ServerWelcomes
    <3>1. <<"ready", None>> \in Event BY DEF Event
    <3>2. wire' = wire /\ done' = done /\ events' = Append(events, <<"ready", None>>)
          /\ welcomed' = TRUE
      BY <2>1 DEF ServerWelcomes
    <3>3. Told' = Told BY <1>1, <1>2, <3>2 DEF Told
    <3> QED BY <3>1, <3>2, <3>3 DEF AcksAreTrue, TypeOK, Numbered
  <2>2. ASSUME NEW s \in 1..MaxSocket, WireLost(s) PROVE Goal
    <3>1. Told' = Told BY <1>1, <1>2, <2>2 DEF Told, WireLost
    <3>2. wire' = [wire EXCEPT ![s] = <<>>] /\ UNCHANGED <<events, welcomed, done>>
      BY <2>2 DEF WireLost
    <3>3. <<>> \in Seq(Given) OBVIOUS
    <3> QED BY <3>1, <3>2, <3>3 DEF AcksAreTrue, TypeOK, Numbered
  <2>3. ASSUME NEW s \in 1..MaxSocket, ServerHandles(s) PROVE Goal
    <3> DEFINE m == Head(wire[s])
    <3>1. wire[s] # <<>> /\ wire[s] \in Seq(Given) BY <2>3 DEF ServerHandles, Numbered
    <3>2. m \in Given /\ m \in Command /\ m[1] \in Key /\ Tail(wire[s]) \in Seq(Given)
      BY <3>1, HeadTailProperties, Commands DEF Given
    <3>3. done' = (IF m = last[m[1]] THEN done \cup {m[1]} ELSE done) /\ welcomed' = welcomed
          /\ wire' = [wire EXCEPT ![s] = Tail(wire[s])]
      BY <2>3 DEF ServerHandles
    <3>4. \/ events' = events
          \/ events' = events \o <<<<"operation", m>>, <<"nonce", m>>>>
          \/ events' = Append(events, <<"nonce", m>>)
      BY <2>3 DEF ServerHandles
    <3> HIDE DEF m
    <3>5. <<"operation", m>> \in Event /\ <<"nonce", m>> \in Event BY <3>2 DEF Event
    <3>6. m \in Told' /\ Told \subseteq Told' BY <1>1, <1>2, <3>2, <3>3 DEF Told
    <3>7. AcksAreTrue'
      <4>1. CASE events' = events BY <3>6, <4>1 DEF AcksAreTrue
      <4>2. CASE events' = Append(events, <<"nonce", m>>)
        BY <3>5, <3>6, <4>2 DEF AcksAreTrue
      <4>3. CASE events' = events \o <<<<"operation", m>>, <<"nonce", m>>>>
        <5> DEFINE q == <<<<"operation", m>>, <<"nonce", m>>>>
        <5>1. q \in Seq(Event) /\ Len(q) = 2 /\ q[1][1] = "operation" /\ q[2] = <<"nonce", m>>
          BY <3>5
        <5> HIDE DEF q
        <5>2. /\ events \o q \in Seq(Event) /\ Len(events \o q) = Len(events) + 2
              /\ \A i \in 1..Len(events) + 2 :
                   (events \o q)[i] = IF i <= Len(events) THEN events[i] ELSE q[i - Len(events)]
          <6>1. events \in Seq(Event) BY DEF AcksAreTrue
          <6>2. Len(events \o q) = Len(events) + Len(q) /\ Len(events) + Len(q) = Len(events) + 2
            BY <5>1, <6>1, ConcatProperties
          <6>3. \A i \in 1..Len(events) + Len(q) :
                  (events \o q)[i] = IF i <= Len(events) THEN events[i] ELSE q[i - Len(events)]
            BY <5>1, <6>1, ConcatProperties
          <6> QED BY <5>1, <6>1, <6>2, <6>3, ConcatProperties
        <5>3. events' = events \o q BY <4>3 DEF q
        <5>4. ASSUME NEW i \in 1..Len(events'), events'[i][1] = "nonce"
              PROVE  events'[i][2] \in Told'
          <6>1. CASE i <= Len(events)
            <7>1. events'[i] = events[i] /\ i \in 1..Len(events) BY <5>2, <5>3, <6>1
            <7>2. events[i][2] \in Told BY <5>4, <7>1 DEF AcksAreTrue
            <7> QED BY <3>6, <7>1, <7>2
          <6>2. CASE i = Len(events) + 2
            <7>1. events'[i] = q[2] BY <5>2, <5>3, <6>2 DEF AcksAreTrue
            <7>2. events'[i][2] = m BY <5>1, <7>1
            <7> QED BY <3>6, <7>2
          <6>3. CASE i = Len(events) + 1
            BY <5>1, <5>2, <5>3, <5>4, <6>3 DEF AcksAreTrue
          <6> QED BY <5>2, <5>3, <6>1, <6>2, <6>3 DEF AcksAreTrue
        <5> QED BY <5>2, <5>3, <5>4 DEF AcksAreTrue
      <4> QED BY <3>4, <4>1, <4>2, <4>3
    <3> QED BY <3>2, <3>3, <3>7 DEF TypeOK, Numbered
  <2> QED BY <2>1, <2>2, <2>3
<1>4. TypeOK'
  <2>1. Given \subseteq Command BY DEF Given
  <2>2. wire' \in [1..MaxSocket -> Seq(Command)] BY <1>3, <2>1, SeqGrows
  <2> QED BY <1>1, <1>3, <2>2 DEF TypeOK
<1>5. Numbered' BY <1>1, <1>2, <1>3 DEF Numbered
<1>6. Remembered' BY <1>1, <1>3 DEF Remembered
<1> QED BY <1>3, <1>4, <1>5, <1>6

\* What the Director asks for.
LEMMA OperationKeys ==
  ASSUME NEW o \in Op
  PROVE  /\ <<o, "voice-operation">> \in Key /\ <<o, "voice-flags">> \in Key
         /\ {"join", "disconnect", "update_flags"} \subseteq Mode
  BY DEF Key, Mode

\* Every step keeps the invariant.
LEMMA StepIInv == ASSUME IInv, [Next]_vars PROVE IInv'
<1>1. CASE Configure \/ SocketOpens \/ SocketLost \/ Reconnect BY <1>1, SocketIInv
<1>2. CASE Stop BY <1>2, StopIInv
<1>3. ASSUME NEW o \in Op, Reserve(o) \/ Cancel(o) \/ UpdateSelfState(o) PROVE IInv'
  BY <1>3, OperationKeys, SendIInv DEF Reserve, Cancel, UpdateSelfState
<1>4. CASE Deliver BY <1>4, ReadyIInv, AnswersIInv DEF Deliver
<1>5. CASE ServerWelcomes \/ \E s \in 1..MaxSocket : ServerHandles(s) \/ WireLost(s)
  BY <1>5, ServerIInv
<1>6. CASE UNCHANGED vars
  BY <1>6 DEF vars, IInv, TypeOK, AcksAreTrue, Told, Given, Numbered, Remembered
<1> QED BY <1>1, <1>2, <1>3, <1>4, <1>5, <1>6 DEF Next

\* The invariant holds in every state that can be reached.
THEOREM TransportIInv == Spec => []IInv
<1>1. Init => IInv BY InitIInv
<1>2. IInv /\ [Next]_vars => IInv' BY StepIInv
<1> QED BY <1>1, <1>2, PTL DEF Spec

\* A command is kept under its own key, and a reconnect is due only while there is
\* no socket.
THEOREM TransportTypeOK == Spec => []TypeOK
<1>1. IInv => TypeOK BY DEF IInv
<1> QED BY <1>1, TransportIInv, PTL

-------------------------------------------------------------------------------
(* What is kept is under way. *)

\* A configured transport has a socket or a reconnect that is due.  A socket the server
\* has welcomed is open, and the transport knows it once it has read Ready; only a
\* welcomed socket brings events.
Awake == life = "on" => timer \/ socket # 0
Greeted ==
  /\ welcomed => socket # 0 /\ open
  /\ ~welcomed => events = <<>>
  /\ welcomed /\ <<"ready", None>> \notin Range(events) => connected

Sure == life = "on" => \A m \in Kept : UnderWay(m)

Flow == Awake /\ Greeted /\ Sure

\* Sending leaves on the wire what is there; on a live socket it adds the commands.
LEMMA SendAdds ==
  ASSUME TypeOK, NEW ready \in BOOLEAN, NEW q \in Seq(Command), SendWhenReady(ready, q),
         socket # 0
  PROVE  /\ Range(wire[socket]) \subseteq Range(wire'[socket])
         /\ ready /\ open => Range(q) \subseteq Range(wire'[socket])
<1>1. socket \in 1..MaxSocket /\ wire[socket] \in Seq(Command) BY ConstantsOK DEF TypeOK
<1>2. Range(wire[socket] \o q) = Range(wire[socket]) \cup Range(q) BY <1>1, RangeConcat
<1>3. wire' = wire \/ wire' = [wire EXCEPT ![socket] = wire[socket] \o q] BY DEF SendWhenReady
<1>4. wire'[socket] = IF ready /\ open THEN wire[socket] \o q ELSE wire[socket]
  BY <1>1 DEF SendWhenReady, TypeOK
<1> QED BY <1>2, <1>4

\* A new command goes out at once, or waits for the welcome or the reconnect.
LEMMA SendFlow ==
  ASSUME IInv, Flow, NEW k \in Key, NEW mode \in Mode, SendReliable(k, mode) PROVE Flow'
<1> DEFINE m == <<k, mode, Nonce(k)>>
<1>1. /\ Asks(k, m) /\ SendWhenReady(connected, <<m>>)
      /\ UNCHANGED <<life, socket, sockets, open, connected, timer, events, welcomed>>
  BY DEF SendReliable, Asks
<1>2. m \in Command /\ Kept' \subseteq Kept \cup {m} BY <1>1, AskKeeps DEF IInv
<1> HIDE DEF m
<1>3. Awake' /\ Greeted' BY <1>1 DEF Flow, Awake, Greeted
<1>4. Sure'
  <2> SUFFICES ASSUME life = "on", NEW n \in Kept' PROVE UnderWay(n)' BY <1>1 DEF Sure
  <2>1. n = m \/ n \in Kept BY <1>2
  <2>2. <<m>> \in Seq(Command) /\ m \in Range(<<m>>) BY <1>2 DEF Range
  <2>3. socket # 0 => /\ Range(wire[socket]) \subseteq Range(wire'[socket])
                      /\ connected /\ open => m \in Range(wire'[socket])
    BY <1>1, <2>2, SendAdds DEF IInv, TypeOK
  <2>4. CASE n \in Kept BY <1>1, <2>3, <2>4 DEF Flow, Sure, UnderWay
  <2>5. CASE n = m BY <1>1, <2>3, <2>5 DEF Flow, Awake, Greeted, UnderWay
  <2> QED BY <2>1, <2>4, <2>5
<1> QED BY <1>3, <1>4 DEF Flow

\* Ready sends all that is kept.
LEMMA ReadyFlow == ASSUME IInv, Flow, HandleReady PROVE Flow'
<1>1. /\ events # <<>> /\ connected' = TRUE
      /\ UNCHANGED <<life, socket, sockets, open, timer, welcomed>>
  BY DEF HandleReady, Received
<1>2. welcomed /\ socket # 0 /\ open BY <1>1 DEF Flow, Greeted
<1>3. PICK q : q \in Seq(Given') /\ Kept' \subseteq Range(q) /\ SendWhenReady(TRUE, q)
  BY ReadyAsks
<1>4. q \in Seq(Command) BY <1>3 DEF Given
<1>5. Kept' \subseteq Range(wire'[socket]) BY <1>2, <1>3, <1>4, SendAdds DEF IInv
<1> QED BY <1>1, <1>2, <1>5 DEF Flow, Awake, Greeted, Sure, UnderWay

\* An answer that is read settles its command.
LEMMA AcknowledgeFlow ==
  ASSUME IInv, Flow, NEW answered, Acknowledge(answered), events # <<>>, events' = Tail(events),
         Head(events)[1] # "ready", Head(events)[1] = "nonce" => Head(events)[2] \in answered
  PROVE  Flow'
<1>1. /\ reliable' = [k \in Key |-> IF reliable[k] \in answered THEN None ELSE reliable[k]]
      /\ UNCHANGED <<life, socket, sockets, open, connected, timer, wire, welcomed>>
  BY DEF Acknowledge
<1>2. Range(events) = {Head(events)} \cup Range(events')
  BY RangeTail DEF IInv, AcksAreTrue
<1>3. Head(events) # <<"ready", None>> OBVIOUS
<1>4. welcomed BY DEF Flow, Greeted
<1>5. Awake' /\ Greeted' BY <1>1, <1>2, <1>3, <1>4 DEF Flow, Awake, Greeted
<1>6. Sure'
  <2> SUFFICES ASSUME life = "on", NEW m \in Kept' PROVE UnderWay(m)' BY <1>1 DEF Sure
  <2>1. m \in Kept /\ m \notin answered BY <1>1 DEF Kept
  <2>2. Head(events) # <<"nonce", m>> BY <2>1
  <2>3. UnderWay(m) BY <2>1 DEF Flow, Sure
  <2> QED BY <1>1, <1>2, <1>3, <2>2, <2>3 DEF UnderWay
<1> QED BY <1>5, <1>6 DEF Flow

\* The server answers what it takes off the wire.
LEMMA HandlesFlow == ASSUME IInv, Flow, NEW s \in 1..MaxSocket, ServerHandles(s) PROVE Flow'
<1> DEFINE m == Head(wire[s])
<1>1. /\ wire[s] # <<>> /\ (s = socket => welcomed) /\ wire' = [wire EXCEPT ![s] = Tail(wire[s])]
      /\ UNCHANGED <<life, socket, sockets, open, connected, timer, reliable, welcomed>>
  BY DEF ServerHandles
<1>2. events \in Seq(Event) /\ wire \in [1..MaxSocket -> Seq(Command)]
  BY DEF IInv, AcksAreTrue, TypeOK
<1>3. CASE s # socket
  <2>1. events' = events BY <1>3 DEF ServerHandles
  <2>2. socket # 0 => wire'[socket] = wire[socket] BY <1>1, <1>2, <1>3
  <2> QED BY <1>1, <2>1, <2>2 DEF Flow, Awake, Greeted, Sure, UnderWay, Kept
<1>4. CASE s = socket
  <2>1. m \in Command /\ Range(wire[s]) = {m} \cup Range(Tail(wire[s])) /\ wire'[s] = Tail(wire[s])
    BY <1>1, <1>2, RangeTail, HeadTailProperties
  <2>2. \/ events' = events \o <<<<"operation", m>>, <<"nonce", m>>>>
        \/ events' = Append(events, <<"nonce", m>>)
    BY <1>4 DEF ServerHandles
  <2> HIDE DEF m
  <2>3. Range(events) \subseteq Range(events') /\ <<"nonce", m>> \in Range(events')
    <3>1. CASE events' = Append(events, <<"nonce", m>>) BY <1>2, <3>1, RangeAppend
    <3>2. CASE events' = events \o <<<<"operation", m>>, <<"nonce", m>>>>
      <4> DEFINE q == <<<<"operation", m>>, <<"nonce", m>>>>
      <4>1. q \in Seq(Event) /\ q[2] = <<"nonce", m>> /\ 2 \in DOMAIN q BY <2>1 DEF Event
      <4>2. <<"nonce", m>> \in Range(q) BY <4>1 DEF Range
      <4>3. events' = events \o q BY <3>2
      <4> HIDE DEF q
      <4> QED BY <1>2, <4>1, <4>2, <4>3, RangeConcat
    <3> QED BY <2>2, <3>1, <3>2
  <2>4. Awake' /\ Greeted' BY <1>1, <1>4, <2>3 DEF Flow, Awake, Greeted
  <2>5. Sure'
    <3> SUFFICES ASSUME life = "on", NEW n \in Kept' PROVE UnderWay(n)' BY <1>1 DEF Sure
    <3>1. UnderWay(n) BY <1>1 DEF Flow, Sure, Kept
    <3>2. n \in Range(wire[socket]) => n \in Range(wire'[socket]) \/ <<"nonce", n>> \in Range(events')
      BY <1>4, <2>1, <2>3
    <3> QED BY <1>1, <2>3, <3>1, <3>2 DEF UnderWay
  <2> QED BY <2>4, <2>5 DEF Flow
<1> QED BY <1>3, <1>4

\* Every step leaves what is kept under way.
LEMMA StepFlow == ASSUME IInv, Flow, [Next]_vars PROVE Flow'
<1>1. CASE Configure \/ Reconnect
  <2>1. socket' = sockets + 1 /\ welcomed' = FALSE /\ events' = <<>>
    BY <1>1 DEF Configure, Reconnect, OpenSocket
  <2>2. socket' # 0 BY <2>1, ConstantsOK DEF IInv, TypeOK
  <2> QED BY <2>1, <2>2 DEF Flow, Awake, Greeted, Sure, UnderWay
<1>2. CASE SocketLost BY <1>2 DEF SocketLost, Flow, Awake, Greeted, Sure, UnderWay
<1>3. CASE SocketOpens
  BY <1>3 DEF SocketOpens, serverVars, Flow, Awake, Greeted, Sure, UnderWay, Kept
<1>4. CASE Stop BY <1>4 DEF Stop, Flow, Awake, Greeted, Sure
<1>5. ASSUME NEW o \in Op, Reserve(o) \/ Cancel(o) \/ UpdateSelfState(o) PROVE Flow'
  BY <1>5, OperationKeys, SendFlow DEF Reserve, Cancel, UpdateSelfState
<1>6. CASE HandleReady BY <1>6, ReadyFlow
<1>7. CASE HandleVoiceStateAck BY <1>7, AcknowledgeFlow DEF HandleVoiceStateAck, Received
<1>8. CASE HandleOperationEvent
  <2> DEFINE commands == {m \in Kept : m[1][1] = Head(events)[2][1][1]}
  <2>1. /\ Acknowledge(commands) /\ events # <<>> /\ events' = Tail(events)
        /\ Head(events)[1] = "operation"
    BY <1>8 DEF HandleOperationEvent, Received
  <2> HIDE DEF commands
  <2> QED BY <2>1, AcknowledgeFlow
<1>9. CASE ServerWelcomes
  <2>1. Range(events') = Range(events) \cup {<<"ready", None>>}
    BY <1>9, RangeAppend DEF ServerWelcomes, IInv, AcksAreTrue
  <2> QED BY <1>9, <2>1 DEF ServerWelcomes, Flow, Awake, Greeted, Sure, UnderWay, Kept
<1>10. ASSUME NEW s \in 1..MaxSocket, ServerHandles(s) PROVE Flow' BY <1>10, HandlesFlow
<1>11. ASSUME NEW s \in 1..MaxSocket, WireLost(s) PROVE Flow'
  <2>1. wire'[socket] = wire[socket] BY <1>11 DEF WireLost, IInv, TypeOK
  <2> QED BY <1>11, <2>1 DEF WireLost, Flow, Awake, Greeted, Sure, UnderWay, Kept
<1>12. CASE UNCHANGED vars
  BY <1>12 DEF vars, Flow, Awake, Greeted, Sure, UnderWay, Kept
<1> QED
  BY <1>1, <1>2, <1>3, <1>4, <1>5, <1>6, <1>7, <1>8, <1>9, <1>10, <1>11, <1>12 DEF Next, Deliver

\* The latest command asked for under a key is kept until the server has handled it or
\* an event has settled it, and what a configured transport keeps is under way, over any
\* number of sockets and commands.
THEOREM TransportNothingLost == Spec => []NothingLost
<1>1. Init => Flow BY DEF Init, Flow, Awake, Greeted, Sure
<1>2. IInv /\ Flow /\ [Next]_vars => Flow' BY StepFlow
<1>3. IInv /\ Flow => NothingLost BY DEF IInv, Remembered, Flow, Sure, NothingLost
<1> QED BY <1>1, <1>2, <1>3, TransportIInv, PTL DEF Spec
=============================================================================
