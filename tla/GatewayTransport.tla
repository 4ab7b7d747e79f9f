-------------------------- MODULE GatewayTransport --------------------------
(***************************************************************************)
(* The desktop's control socket (DesktopVoiceGatewayTransport): commands   *)
(* of the voice authority adapter are kept until the server answers them   *)
(* and sent again on every new socket.                                     *)
(*                                                                         *)
(* A socket's commands reach the server in order, but the server may still *)
(* read those of a socket the client has left, before or after those of    *)
(* the next one, and then nobody hears the answer.  It handles a command   *)
(* by GatewayVoice, of which only the answers are seen here.               *)
(***************************************************************************)
EXTENDS Naturals, Sequences, FiniteSets, FiniteSetsExt, Functions

CONSTANTS
  Op,        \* voice operations
  MaxSocket, \* bound: sockets; the last one is neither lost nor replaced
  MaxAsked   \* bound: commands the Director asks for

ASSUME ConstantsOK == IsFiniteSet(Op) /\ MaxSocket \in Nat \ {0} /\ MaxAsked \in Nat

VARIABLES
  life,      \* "new", "on" (configured) or "disposed"
  socket,    \* number of the current socket, 0 for none
  sockets,   \* sockets created so far
  open,      \* readyState is 1
  connected, \* state
  timer,     \* reconnectTimer
  reliable,  \* [Key -> the command kept under it, or None]
  last,      \* history: [Key -> the latest command given to sendReliable under it]
  wire,      \* [socket -> commands sent on it and not read by the server]
  events,    \* what the server has sent on the current socket
  welcomed,  \* the server has sent Ready on it
  done       \* history: keys whose latest command the server has handled, or an event
             \* that names its operation has settled

vars == <<life, socket, sockets, open, connected, timer, reliable, last, wire, events,
          welcomed, done>>
serverVars == <<wire, events, welcomed>>

\* Joins and disconnects share a key; so do the updates of an operation's flags.
SnapshotKey == <<"voice-authority-snapshot">>
Key == (Op \X {"voice-operation", "voice-flags"}) \cup {SnapshotKey}

\* <<key, mode, nonce>>: every call makes a nonce, here its number under the key.
Command == Key \X {"join", "disconnect", "update_flags", "request_snapshot"} \X Nat
None == <<>>
Kept == {reliable[k] : k \in Key} \ {None}
Nonce(k) == IF last[k] = None THEN 1 ELSE last[k][3] + 1
Asked == MapThenSumSet(LAMBDA k : Nonce(k) - 1, Key \ {SnapshotKey})

Init ==
  /\ life = "new" /\ socket = 0 /\ sockets = 0 /\ open = FALSE /\ connected = FALSE
  /\ timer = FALSE /\ reliable = [k \in Key |-> None] /\ last = [k \in Key |-> None]
  /\ wire = [s \in 1..MaxSocket |-> <<>>] /\ events = <<>> /\ welcomed = FALSE
  /\ done = {}

------------------------------------------------------------------------------
(* Sockets. *)

OpenSocketKeeping ==  \* mutant: a reconnect that is due is not called off
  /\ sockets < MaxSocket
  /\ sockets' = sockets + 1 /\ socket' = sockets + 1
  /\ open' = FALSE /\ events' = <<>> /\ welcomed' = FALSE
  /\ UNCHANGED timer

\* openSocket(): calls a reconnect off that is due.
OpenSocket ==
  /\ sockets < MaxSocket
  /\ sockets' = sockets + 1 /\ socket' = sockets + 1
  /\ open' = FALSE /\ events' = <<>> /\ welcomed' = FALSE
  /\ timer' = FALSE

\* configure() with new credentials, or without a socket.  The socket it closes
\* is not a loss: state stays what it was.
Configure ==
  /\ life # "disposed"
  /\ life' = "on"
  /\ OpenSocket
  /\ UNCHANGED <<connected, reliable, last, wire, done>>

\* stop(), when the runtime is disposed of.
Stop ==
  /\ life = "on"
  /\ life' = "disposed"
  /\ socket' = 0 /\ open' = FALSE /\ connected' = FALSE /\ timer' = FALSE
  /\ reliable' = [k \in Key |-> None]
  /\ events' = <<>> /\ welcomed' = FALSE
  /\ UNCHANGED <<sockets, last, wire, done>>

SocketOpens ==
  /\ socket # 0 /\ ~open
  /\ open' = TRUE
  /\ UNCHANGED <<life, socket, sockets, connected, timer, reliable, last, serverVars,
                 done>>

\* handleSocketLoss(): an error, a close, or a heartbeat nobody answers.
SocketLost ==
  /\ socket # 0 /\ sockets < MaxSocket
  /\ socket' = 0 /\ open' = FALSE /\ connected' = FALSE /\ timer' = TRUE
  /\ events' = <<>> /\ welcomed' = FALSE
  /\ UNCHANGED <<life, sockets, reliable, last, wire, done>>

Reconnect ==
  /\ timer /\ OpenSocket
  /\ UNCHANGED <<life, connected, reliable, last, wire, done>>

------------------------------------------------------------------------------
(* Commands. *)

\* sendWhenReady() of these, one after another.
SendWhenReady(ready, messages) ==
  wire' = IF ready /\ socket # 0 /\ open
          THEN [wire EXCEPT ![socket] = @ \o messages] ELSE wire

SendReliableOnce(k, mode) ==  \* mutant: what can be sent at once is not kept
  /\ life # "disposed"
  /\ LET m == <<k, mode, Nonce(k)>> IN
     /\ last' = [last EXCEPT ![k] = m]
     /\ reliable' = IF connected THEN reliable ELSE [reliable EXCEPT ![k] = m]
     /\ SendWhenReady(connected, <<m>>)
  /\ done' = done \ {k}
  /\ UNCHANGED <<life, socket, sockets, open, connected, timer, events, welcomed>>

\* sendReliable(): takes the place of the key's earlier command, handled or not.
SendReliable(k, mode) ==
  /\ life # "disposed"
  /\ LET m == <<k, mode, Nonce(k)>> IN
     /\ last' = [last EXCEPT ![k] = m]
     /\ reliable' = [reliable EXCEPT ![k] = m]
     /\ SendWhenReady(connected, <<m>>)
  /\ done' = done \ {k}
  /\ UNCHANGED <<life, socket, sockets, open, connected, timer, events, welcomed>>

\* The Director makes an operation for each reservation.
Reserve(o) ==
  /\ last[<<o, "voice-operation">>] = None /\ last[<<o, "voice-flags">>] = None
  /\ SendReliable(<<o, "voice-operation">>, "join")

\* cancel(), or releasePendingClaim() of a reservation that failed.  The lease of a
\* forced move is of an operation the server made: nothing was asked for it before.
Cancel(o) ==
  /\ SendReliable(<<o, "voice-operation">>, "disconnect")

\* Of a session whose reservation was granted, or that a forced move made.
UpdateSelfState(o) ==
  /\ LET m == last[<<o, "voice-operation">>] IN
       m # None => m[2] = "join" /\ m[1] \in done /\ m \notin Kept
  /\ SendReliable(<<o, "voice-flags">>, "update_flags")

------------------------------------------------------------------------------
(* Events: "ready", "nonce" (VoiceStateAck), "operation" (VoiceServerUpdate *)
(* or Error, which name an operation).                                      *)

Received(kind) == events # <<>> /\ Head(events)[1] = kind /\ events' = Tail(events)

\* When the state becomes connected, the adapter asks for a snapshot at once.
RequestSnapshot ==
  LET m == <<SnapshotKey, "request_snapshot", Nonce(SnapshotKey)>> IN
  /\ last' = IF connected THEN last ELSE [last EXCEPT ![SnapshotKey] = m]
  /\ done' = IF connected THEN done ELSE done \ {SnapshotKey}
  /\ reliable' = IF connected THEN reliable ELSE [reliable EXCEPT ![SnapshotKey] = m]

HandleReadyForgetful ==  \* mutant: only what is asked from now on is sent
  /\ Received("ready")
  /\ connected' = TRUE /\ RequestSnapshot
  /\ SendWhenReady(TRUE, IF connected THEN <<>> ELSE <<last'[SnapshotKey]>>)
  /\ UNCHANGED <<life, socket, sockets, open, timer, welcomed>>

\* Ready: every command that is kept is sent, in the order of the map, the request for
\* a snapshot once more.
HandleReady ==
  /\ Received("ready")
  /\ connected' = TRUE /\ RequestSnapshot
  /\ \E order \in {q \in [1..Cardinality(Kept') -> Kept'] : Range(q) = Kept'} :
       SendWhenReady(TRUE, (IF connected THEN <<>> ELSE <<last'[SnapshotKey]>>) \o order)
  /\ UNCHANGED <<life, socket, sockets, open, timer, welcomed>>

\* acknowledgeReliable()
Acknowledge(answered) ==
  /\ reliable' = [k \in Key |-> IF reliable[k] \in answered THEN None ELSE reliable[k]]
  /\ UNCHANGED <<life, socket, sockets, open, connected, timer, last, wire, welcomed>>

HandleVoiceStateAck ==
  /\ Received("nonce")
  /\ Acknowledge({Head(events)[2]})
  /\ UNCHANGED done

\* Whatever it answers, it settles every command of its operation.
HandleOperationEvent ==
  /\ Received("operation")
  /\ LET commands == {m \in Kept : m[1][1] = Head(events)[2][1][1]} IN
     /\ Acknowledge(commands)
     /\ done' = done \cup {m[1] : m \in commands}

------------------------------------------------------------------------------
(* The server. *)

ServerWelcomes ==
  /\ socket # 0 /\ open /\ ~welcomed
  /\ welcomed' = TRUE /\ events' = Append(events, <<"ready", None>>)
  /\ UNCHANGED <<life, socket, sockets, open, connected, timer, reliable, last, wire, done>>

\* It handles the next command of a socket.  Before the acknowledgement it sends
\* the credentials of a join, or an error, which names an operation if the command does.
ServerHandles(s) ==
  /\ wire[s] # <<>> /\ (s = socket => welcomed)
  /\ LET m == Head(wire[s]) IN
     /\ done' = IF m = last[m[1]] THEN done \cup {m[1]} ELSE done
     /\ \E failed \in BOOLEAN :
          events' =
            IF s # socket THEN events
            ELSE IF m[1] # SnapshotKey /\ (failed \/ m[2] = "join")
            THEN events \o <<<<"operation", m>>, <<"nonce", m>>>>
            ELSE Append(events, <<"nonce", m>>)
  /\ wire' = [wire EXCEPT ![s] = Tail(@)]
  /\ UNCHANGED <<life, socket, sockets, open, connected, timer, reliable, last, welcomed>>

\* What was on a socket the client has left is lost.
WireLost(s) ==
  /\ s # socket /\ wire[s] # <<>>
  /\ wire' = [wire EXCEPT ![s] = <<>>]
  /\ UNCHANGED <<life, socket, sockets, open, connected, timer, reliable, last, events,
                 welcomed, done>>

------------------------------------------------------------------------------

Deliver == HandleReady \/ HandleVoiceStateAck \/ HandleOperationEvent

Next ==
  \/ Configure \/ Stop \/ SocketOpens \/ SocketLost \/ Reconnect
  \/ Asked < MaxAsked /\ \E o \in Op : Reserve(o) \/ Cancel(o) \/ UpdateSelfState(o)
  \/ Deliver \/ ServerWelcomes
  \/ \E s \in 1..MaxSocket : ServerHandles(s) \/ WireLost(s)

Spec == Init /\ [][Next]_vars

\* Sockets open, timers fire, and the server answers on a socket that lives.
FairSpec ==
  /\ Spec
  /\ WF_vars(SocketOpens) /\ WF_vars(Reconnect) /\ WF_vars(Deliver) /\ WF_vars(ServerWelcomes)
  /\ \A s \in 1..MaxSocket : WF_vars(s = socket /\ ServerHandles(s))

------------------------------------------------------------------------------

\* Every field is in one of its states, a command is kept under its own key, and
\* a reconnect is due only while there is no socket.
TypeOK ==
  /\ life \in {"new", "on", "disposed"}
  /\ socket \in {0, sockets} /\ sockets \in 0..MaxSocket
  /\ open \in BOOLEAN /\ connected \in BOOLEAN /\ timer \in BOOLEAN /\ welcomed \in BOOLEAN
  /\ reliable \in [Key -> Command \cup {None}] /\ last \in [Key -> Command \cup {None}]
  /\ \A k \in Key : reliable[k] = None \/ reliable[k][1] = k
  /\ done \subseteq Key
  /\ wire \in [1..MaxSocket -> Seq(Command)]
  /\ timer => socket = 0

\* What is still to happen to a command that is kept: a reconnect, the welcome of
\* the socket, which sends it, or the server's answer to it on this socket.
UnderWay(m) ==
  \/ timer
  \/ socket # 0 /\ (~welcomed \/ <<"ready", None>> \in Range(events) \/ m \in Range(wire[socket]))
  \/ <<"nonce", m>> \in Range(events)

\* The latest command asked for under a key is kept until the server has handled it,
\* across any number of sockets, and no earlier one takes its place again.  A command
\* is given up unhandled only for a later one of its key (the disconnect of a join, the
\* flags set last), or when the answer to another command names their operation.  And
\* while a configured transport keeps a command, it is under way.
NothingLost ==
  /\ life # "disposed" =>
       \A k \in Key :
         reliable[k] # last[k] => reliable[k] = None /\ k \in done
  /\ life = "on" => \A m \in Kept : UnderWay(m)

\* While the transport is configured, the queue empties once nothing more is asked for:
\* no sequence of losses, reconnects and new credentials strands a command.
Answered == life = "on" ~> life # "on" \/ Kept = {}
=============================================================================
