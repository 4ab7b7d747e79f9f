---------------------------- MODULE VoiceDirector ----------------------------
(***************************************************************************)
(* The Voice Director of one client: it turns the user's intent into one   *)
(* membership and one RTC room, leaves the old room before it joins the    *)
(* new one, and recovers a room that was lost.  It is one fiber, never     *)
(* interrupted between two suspensions, and handlers of commands and       *)
(* events that run in between and start the fiber when it rests.  So an    *)
(* action takes the Director from one suspension to the next, and the      *)
(* operators below map a state of the Director to a state.                 *)
(*                                                                         *)
(* Around it: the gateway adapter, the engine with its one room, and the   *)
(* backend in atomic steps (VoiceAuthority is about what they are made     *)
(* of).  An operation stands for its identifiers, its channel and who made *)
(* it; the authority version of a lease is kept beside it.                 *)
(***************************************************************************)
EXTENDS Naturals, FiniteSets

CONSTANTS
  Channel,
  MaxAttempts,  \* length of recoveryDelaysMs
  MaxEvents,    \* bound: commands, moderator's acts, losses and deadlines
  None          \* no operation, no channel, no answer

ASSUME BoundAssumption == MaxAttempts \in Nat \ {0} /\ MaxEvents \in Nat

Op == [n : Nat \ {0}, channel : Channel, moved : BOOLEAN]

ASSUME NoneAssumption == None \notin Op \cup Channel \cup Nat

Media == {"camera", "screen"}

VARIABLES
  director,   \* the Director's fields and where its fiber is suspended
  room,       \* the operation whose room is open
  stuck,      \* the room that was still open when its disconnect gave up
  alarm,      \* the operation whose room's loss is about to be reported
  engine,     \* the engine's availability: "ready", "recovering" or "failed"
  pending,    \* backend: the reservation
  member,     \* backend: the membership
  version,    \* backend: the number of snapshots published
  published,  \* snapshots on their way to the client
  requests,   \* join and disconnect requests on their way to the backend
  answer,     \* the answer to the join the adapter waits for: the version of
              \* the lease, or 0 for an error
  moves,      \* forced moves on their way to the client
  ejected,    \* forced disconnects on their way to the client
  minted,     \* operations made so far
  events      \* what MaxEvents bounds

rtc == <<room, stuck, alarm, engine>>
authority == <<pending, member, version, published>>
inbox == <<moves, ejected>>
vars == <<director, rtc, authority, requests, answer, inbox, minted, events>>

Event == events < MaxEvents /\ events' = events + 1

Fresh(c, moved) == [n |-> minted + 1, channel |-> c, moved |-> moved]

-----------------------------------------------------------------------------
(* The fiber, from suspension to suspension.  The field stale says that the  *)
(* revision of the intent is not the one the fiber works for; the Director   *)
(* then also wants to be reconciled again.                                   *)

Rest(d) == [d EXCEPT !.pc = "idle", !.index = 1, !.then = "none"]

DisconnectKeeping(d, next) ==  \* mutant: the old room counts as connected
  [d EXCEPT !.pc = "disconnect", !.held = d.lease, !.lease = None, !.then = next]
DisconnectAhead(d, next) ==    \* mutant: the next step does not wait for the room
  [d EXCEPT !.pc = IF d.lease = None THEN "disconnect" ELSE "cancel",
            !.held = d.lease, !.lease = None, !.committed = FALSE, !.then = next]

Disconnect(d, next) ==
  [d EXCEPT !.pc = "disconnect", !.held = d.lease, !.lease = None, !.committed = FALSE,
            !.then = next]

\* connectTarget up to its first suspension: a forced move brings its lease,
\* without one a new operation has to be reserved.
Connect(d) ==
  LET e == [d EXCEPT !.connection = IF d.recovery THEN "recovering" ELSE "connecting",
                     !.committed = FALSE]
  IN IF d.forced # None /\ d.forced.channel = d.intent
     THEN [e EXCEPT !.pc = "connect", !.lease = d.forced, !.forced = None]
     ELSE [e EXCEPT !.pc = "reserve", !.op = Fresh(d.intent, FALSE)]

\* One round of the loop over the delays; without recovery there is one, of 0.
Attempt(d) ==
  IF d.recovery
  THEN [d EXCEPT !.connection = "recovering", !.pc = IF engine = "ready" THEN "delay" ELSE "wait"]
  ELSE Connect(d)

CauseAlwaysMove(d) == "move"   \* mutant: a recovery is torn down like a move
Cause(d) == IF d.lease.channel = d.intent THEN "recovery" ELSE "move"

\* reconcileOnce.
Reconcile(d) ==
  LET e == [d EXCEPT !.stale = FALSE, !.index = 1] IN
  IF d.intent = None
  THEN IF d.lease = None THEN Rest([e EXCEPT !.share = {}, !.connection = "disconnected"])
       ELSE Disconnect([e EXCEPT !.share = {}], "left")
  ELSE IF d.lease = None THEN Attempt(e)
  ELSE IF d.lease.channel = d.intent /\ d.committed /\ d.connection = "connected" THEN Rest(e)
  ELSE Disconnect([e EXCEPT !.share = IF Cause(d) = "move" THEN {} ELSE @], "attempt")

\* The loop around it, and its start by a handler when the fiber rests.
ReturnForgetting(d) == Rest(d)  \* mutant: what was wanted meanwhile is forgotten
Return(d) == IF d.stale THEN Reconcile(d) ELSE Rest(d)
Wake(d) == IF d.pc = "idle" THEN Reconcile(d) ELSE d

\* The room has been left and its lease cancelled: what the caller of the
\* disconnect does next, unless its revision is stale.
Proceed(d) ==
  IF d.then = "failed" THEN Return([d EXCEPT !.connection = "failed"])
  ELSE IF d.stale \/ d.then = "superseded" THEN Return(d)
  ELSE CASE d.then = "left" -> Rest([d EXCEPT !.connection = "disconnected"])
         [] d.then = "terminal" -> Rest([d EXCEPT !.connection = "failed"])
         [] d.then = "attempt" -> Attempt(d)
         [] d.then = "retry" -> Attempt([d EXCEPT !.index = IF engine = "ready" THEN @ + 1 ELSE @])

\* connectTarget threw: superseded by a newer revision; tried again only if
\* the failure allows it, while recovering.
Fail(d, retryable) ==
  Disconnect([d EXCEPT !.op = None],
    IF d.stale THEN "superseded"
    ELSE IF retryable /\ d.recovery /\ d.index < MaxAttempts THEN "retry" ELSE "failed")

Committed(d) ==
  Rest([d EXCEPT !.committed = TRUE, !.connection = "connected", !.recovery = FALSE,
                 !.joined = d.lease])

\* The Director is in state d and its adapter sends the requests more; a
\* reservation or a cancellation that begins sends its own.
Become(d, more) ==
  LET reserves == d.pc = "reserve" /\ director.pc # "reserve"
      cancels == d.pc = "cancel" /\ director.pc # "cancel"
  IN /\ director' = d
     /\ requests' = requests \cup more
          \cup {[mode |-> "join", op |-> o] : o \in IF reserves THEN {d.op} ELSE {}}
          \cup {[mode |-> "disconnect", op |-> o] : o \in IF cancels THEN {d.held} ELSE {}}
     /\ minted' = IF reserves THEN minted + 1 ELSE minted
     /\ answer' = IF d.pc = "reserve" THEN answer ELSE None

-----------------------------------------------------------------------------
(* Commands of the user and of the system.                                   *)

\* bumpIntentRevision aborts what is running.
Bump(d) == [d EXCEPT !.stale = TRUE]

ResetShare(d, c) == IF d.intent \in {None, c} THEN d ELSE [d EXCEPT !.share = {}]

SetIntent(d, c) ==
  Bump([ResetShare(d, c) EXCEPT !.lost = None, !.joined = None, !.intent = c, !.recovery = FALSE])

Obey(d) == Event /\ Become(Wake(d), {}) /\ UNCHANGED <<rtc, authority, inbox>>

Join(c) ==
  /\ director.intent # c \/ director.connection = "failed"
  /\ Obey(SetIntent([director EXCEPT !.forced = None], c))

Leave == Obey(SetIntent([director EXCEPT !.forced = None], None))

RetryVoice ==
  /\ director.intent # None /\ director.connection = "failed"
  /\ Obey(Bump([director EXCEPT !.recovery = FALSE, !.forced = None]))

\* Sleep, logout or exit: leaves lost and forced alone.
Shutdown == Obey(Bump([ResetShare(director, None) EXCEPT !.intent = None, !.recovery = FALSE]))

\* Camera and screen.  The model remembers the intent each was switched on under.
Of(media) == {s \in director.share : s.media = media}

SetShare(media) ==
  /\ Event
  /\ director' = [director EXCEPT !.share =
       IF Of(media) = {} THEN @ \cup {[media |-> media, channel |-> director.intent]}
       ELSE @ \ Of(media)]
  /\ UNCHANGED <<rtc, authority, requests, answer, inbox, minted>>

-----------------------------------------------------------------------------
(* The fiber's suspensions end.                                              *)

Outside == UNCHANGED <<rtc, authority, inbox>>

WaitEnds ==
  /\ director.pc = "wait"
  /\ \/ director.stale /\ Become(Fail(director, TRUE), {})
     \/ ~director.stale /\ engine = "ready" /\ Become([director EXCEPT !.pc = "delay"], {})
     \/ ~director.stale /\ engine = "failed" /\ Become(Fail(director, FALSE), {})
  /\ Outside /\ UNCHANGED events

DelayEnds ==
  /\ director.pc = "delay"
  /\ Become(IF director.stale THEN Fail(director, TRUE) ELSE Connect(director), {})
  /\ Outside /\ UNCHANGED events

\* The adapter takes back a claim that it got no lease for.
ReleaseNothing(op) == {}   \* mutant
Release(op) == {[mode |-> "disconnect", op |-> op]}

ReserveUnchecked ==        \* mutant: the lease is used whatever the user wants by now
  /\ director.pc = "reserve" /\ answer \in Nat \ {0}
  /\ Become([director EXCEPT !.pc = "connect", !.lease = director.op, !.op = None,
                             !.since = answer], {})
  /\ Outside /\ UNCHANGED events

\* The reservation is answered with a lease or an error, or not in time.
ReserveEnds ==
  /\ director.pc = "reserve"
  /\ \/ /\ ~director.stale /\ answer \in Nat \ {0}
        /\ Become([director EXCEPT !.pc = "connect", !.lease = director.op, !.op = None,
                                   !.since = answer], {})
        /\ UNCHANGED events
     \/ /\ IF director.stale \/ answer = 0 THEN UNCHANGED events ELSE Event
        /\ \E retryable \in BOOLEAN : Become(Fail(director, retryable), Release(director.op))
  /\ Outside

\* engine.connect ends well, is aborted, or fails.
ConnectEnds ==
  /\ director.pc = "connect"
  /\ \/ /\ ~director.stale /\ room = director.lease
        /\ Become(IF director.latest.op = director.lease THEN Committed(director)
                  ELSE [director EXCEPT !.pc = "commit"], {})
        /\ UNCHANGED events
     \/ /\ IF director.stale \/ engine # "ready" THEN UNCHANGED events ELSE Event
        /\ \E retryable \in BOOLEAN : Become(Fail(director, retryable), {})
  /\ Outside

\* waitForMembershipCommit without a commit: aborted, or no time is left.
CommitEnds ==
  /\ director.pc = "commit"
  /\ Become(Fail(director, TRUE), {})
  /\ Outside /\ UNCHANGED events

\* engine.disconnect: that it may miss its deadline is ignored.
DisconnectEnds ==
  /\ director.pc = "disconnect"
  /\ \/ room' = None /\ stuck' = None /\ UNCHANGED events
     \/ Event /\ room # None /\ stuck' = room /\ UNCHANGED room
  /\ Become(IF director.held = None THEN Proceed(director)
            ELSE [director EXCEPT !.pc = "cancel"], {})
  /\ UNCHANGED <<alarm, engine, authority, inbox>>

\* authority.cancel: acknowledged or rejected, or not in time.
CancelEnds ==
  /\ director.pc = "cancel"
  /\ IF Release(director.held) \subseteq requests THEN Event ELSE UNCHANGED events
  /\ Become(Proceed([director EXCEPT !.held = None]), {})
  /\ Outside

Fiber == \/ WaitEnds \/ DelayEnds \/ ReserveEnds \/ ConnectEnds \/ CommitEnds
         \/ DisconnectEnds \/ CancelEnds

-----------------------------------------------------------------------------
(* Events of the authority.                                                  *)

\* A snapshot that a newer one overtook is ignored.  The newest membership
\* resolves the wait for its commit, which goes on at once, and ends a session
\* it does not show.
SnapshotComes(s) ==
  /\ s \in published
  /\ published' = {t \in published : t.version > s.version}
  /\ LET d == [director EXCEPT !.latest = s]
         commits == d.pc = "commit" /\ ~d.stale /\ s.op = d.lease
         ends == /\ d.committed /\ d.connection = "connected"
                 /\ s.op # d.lease /\ s.version > d.since
     IN Become(IF commits THEN Committed(d) ELSE IF ends THEN Wake(SetIntent(d, None)) ELSE d, {})
  /\ UNCHANGED <<rtc, pending, member, version, inbox, events>>

\* A moderator's move of the membership the client has; any other lease is
\* cancelled.
ForcedMoveComes(m) ==
  /\ m \in moves
  /\ moves' = moves \ {m}
  /\ LET accepts == /\ director.committed /\ m.from = director.lease
                    /\ m.op.channel # director.lease.channel /\ m.version > director.since
     IN IF accepts
        THEN Become(Wake(SetIntent([director EXCEPT !.forced = m.op, !.since = m.version],
                                   m.op.channel)), {})
        ELSE Become(director, Release(m.op))
  /\ UNCHANGED <<rtc, authority, ejected, events>>

\* A moderator's disconnect ends the session, also one that is recovering.
OwnedByLease(op) == op = director.lease   \* mutant: a lost lease is forgotten
Owned(op) == op \in {director.lease, director.lost}

ForcedDisconnectComes(op) ==
  /\ op \in ejected
  /\ ejected' = ejected \ {op}
  /\ Become(IF Owned(op) /\ director.intent = op.channel
            THEN Wake(SetIntent([director EXCEPT !.forced = None], None)) ELSE director, {})
  /\ UNCHANGED <<rtc, authority, moves, events>>

-----------------------------------------------------------------------------
(* The engine.                                                               *)

RoomOpens ==
  /\ director.pc = "connect" /\ ~director.stale
  /\ room = None /\ engine = "ready" /\ alarm # director.lease
  /\ room' = director.lease
  /\ UNCHANGED <<director, stuck, alarm, engine, authority, requests, answer, inbox, minted, events>>

RoomCloses ==
  /\ stuck # None
  /\ room' = None /\ stuck' = None
  /\ UNCHANGED <<director, alarm, engine, authority, requests, answer, inbox, minted, events>>

\* The room is lost; who holds it is about to be told.
Loses ==
  /\ room # None
  /\ room' = None /\ stuck' = None
  /\ alarm' = IF room = director.lease THEN room ELSE alarm

RoomLost ==
  /\ Event /\ Loses
  /\ UNCHANGED <<director, engine, authority, requests, answer, inbox, minted>>

EngineDies ==
  /\ Event /\ engine = "ready"
  /\ engine' = "recovering" /\ room' = None /\ stuck' = None /\ alarm' = director.lease
  /\ UNCHANGED <<director, authority, requests, answer, inbox, minted>>

EngineRecovers ==
  /\ engine = "recovering"
  /\ engine' \in {"ready", "failed"}
  /\ UNCHANGED <<director, room, stuck, alarm, authority, requests, answer, inbox, minted, events>>

\* terminalFailure rejects a connect, starts the recovery of what is
\* committed, and is ignored otherwise.
FailureComes(retryable) ==
  /\ alarm # None
  /\ alarm' = None
  /\ LET d == [director EXCEPT !.lost = director.lease, !.recovery = retryable, !.stale = TRUE,
                               !.connection = IF retryable THEN "recovering" ELSE "failed"]
     IN CASE alarm = director.lease /\ director.committed ->
               Become(IF retryable THEN Wake(d)
                      ELSE Disconnect([d EXCEPT !.stale = FALSE], "terminal"), {})
          [] alarm = director.lease /\ director.pc = "connect" ->
               Become(Fail(director, retryable), {})
          [] OTHER -> UNCHANGED <<director, requests, answer, minted>>
  /\ UNCHANGED <<room, stuck, engine, authority, inbox, events>>

\* mediaState of a screen whose window was closed or replaced.
SourceEnds ==
  /\ director.lease # None /\ Of("screen") # {}
  /\ director' = [director EXCEPT !.share = @ \ Of("screen")]
  /\ UNCHANGED <<rtc, authority, requests, answer, inbox, minted, events>>

Reconnecting == director.committed /\ director.connection = "recovering"

ReconnectStarts ==
  /\ Event /\ director.committed /\ room = director.lease
  /\ director' = [director EXCEPT !.connection = "recovering"]
  /\ UNCHANGED <<rtc, authority, requests, answer, inbox, minted>>

ReconnectSucceeds ==
  /\ Reconnecting /\ room = director.lease
  /\ director' = [director EXCEPT !.connection = "connected"]
  /\ UNCHANGED <<rtc, authority, requests, answer, inbox, minted, events>>

-----------------------------------------------------------------------------
(* The backend.                                                              *)

Publish(op) ==
  /\ version' = version + 1
  /\ published' = published \cup {[version |-> version + 1, op |-> op]}

\* The requests of one operation keep their order: they have one key.
Served(mode, o) ==
  /\ [mode |-> mode, op |-> o] \in requests
  /\ mode = "disconnect" => [mode |-> "join", op |-> o] \notin requests
  /\ requests' = requests \ {[mode |-> mode, op |-> o]}
  /\ UNCHANGED <<director, rtc, inbox, minted, events>>

JoinServed(o) ==
  /\ Served("join", o)
  /\ \/ /\ pending' = o /\ Publish(member)
        /\ answer' = IF director.op = o THEN version + 1 ELSE answer
     \/ /\ answer' = IF director.op = o THEN 0 ELSE answer
        /\ UNCHANGED <<pending, version, published>>
  /\ UNCHANGED member

\* While there is a reservation, only it can be disconnected.
DisconnectServed(o) ==
  /\ Served("disconnect", o)
  /\ CASE pending = o -> pending' = None /\ Publish(member) /\ UNCHANGED member
       [] pending = None /\ member = o -> member' = None /\ Publish(None) /\ UNCHANGED pending
       [] OTHER -> UNCHANGED authority
  /\ UNCHANGED answer

Client == UNCHANGED <<director, requests, answer>>

\* participant_joined of the reservation.
MemberJoins ==
  /\ pending # None /\ room = pending
  /\ member' = pending /\ pending' = None /\ Publish(pending)
  /\ Client /\ UNCHANGED <<rtc, inbox, minted, events>>

\* participant_left, or a reconciliation without a participant; LiveKit may
\* give one up that is still reconnecting.
MemberLeavesEarly ==       \* mutant: a pending move loses the member it is to replace
  /\ member # None
  /\ room # member \/ Reconnecting
  /\ member' = None /\ Publish(None)
  /\ Client /\ UNCHANGED <<rtc, pending, inbox, minted, events>>
MemberLeaves ==
  /\ pending = None /\ member # None
  /\ room # member \/ Reconnecting
  /\ member' = None /\ Publish(None)
  /\ Client /\ UNCHANGED <<rtc, pending, inbox, minted, events>>

\* A reservation nobody works with expires.
Expire ==
  /\ pending # None /\ pending \notin {director.lease, director.op}
  /\ pending' = None
  /\ Client /\ UNCHANGED <<rtc, member, version, published, inbox, minted, events>>

\* The participant of no authority, or of a member who has to move, is removed.
Removed ==
  /\ room \notin {member, pending} \/ (room = member /\ pending # None /\ pending.moved)
  /\ Loses
  /\ Client /\ UNCHANGED <<engine, authority, inbox, minted, events>>

ModeratorMoves(c) ==
  /\ Event
  /\ member # None /\ c # member.channel
  /\ pending' = Fresh(c, TRUE) /\ minted' = minted + 1
  /\ moves' = moves \cup {[from |-> member, op |-> Fresh(c, TRUE), version |-> version]}
  /\ Client /\ UNCHANGED <<rtc, member, version, published, ejected>>

\* Only the membership is named to the client, not a reservation.
ModeratorDisconnects ==
  /\ Event
  /\ {pending, member} # {None}
  /\ ejected' = ejected \cup ({member} \ {None})
  /\ pending' = None /\ member' = None /\ Publish(None)
  /\ Client /\ UNCHANGED <<rtc, moves, minted>>

-----------------------------------------------------------------------------
Init ==
  /\ director = [pc |-> "idle", then |-> "none", intent |-> None, stale |-> FALSE,
                 recovery |-> FALSE, index |-> 1, op |-> None, lease |-> None, since |-> 0,
                 held |-> None, forced |-> None, lost |-> None, joined |-> None,
                 committed |-> FALSE, connection |-> "disconnected",
                 latest |-> [version |-> 0, op |-> None], share |-> {}]
  /\ room = None /\ stuck = None /\ alarm = None /\ engine = "ready"
  /\ pending = None /\ member = None /\ version = 0 /\ published = {}
  /\ requests = {} /\ answer = None /\ moves = {} /\ ejected = {}
  /\ minted = 0 /\ events = 0

User == (\E c \in Channel : Join(c)) \/ Leave \/ RetryVoice \/ Shutdown
        \/ \E media \in Media : SetShare(media)

Moderator == (\E c \in Channel : ModeratorMoves(c)) \/ ModeratorDisconnects

Snapshots == \E s \in published : SnapshotComes(s)
ForcedMoves == \E m \in moves : ForcedMoveComes(m)
ForcedDisconnects == \E op \in ejected : ForcedDisconnectComes(op)
Failures == \E retryable \in BOOLEAN : FailureComes(retryable)
Serves == \E r \in requests : JoinServed(r.op) \/ DisconnectServed(r.op)

Next == \/ User \/ Moderator \/ Fiber
        \/ Snapshots \/ ForcedMoves \/ ForcedDisconnects \/ Failures \/ Serves
        \/ RoomOpens \/ RoomCloses \/ RoomLost \/ EngineDies \/ EngineRecovers
        \/ SourceEnds \/ ReconnectStarts \/ ReconnectSucceeds
        \/ MemberJoins \/ MemberLeaves \/ Expire \/ Removed

Spec == Init /\ [][Next]_vars

\* The fiber goes on: every wait of it has a deadline, or is for the engine,
\* which comes back or fails for good.  Messages arrive, requests are served,
\* the cron daemon ends a membership without a participant, an unused
\* reservation expires.  Nothing is assumed of the user, the moderator, losses,
\* or of a webhook: no participant_joined need arrive, be it for a commit or
\* for a removal.
FairSpec ==
  /\ Spec
  /\ WF_vars(Fiber) /\ WF_vars(EngineRecovers) /\ WF_vars(ReconnectSucceeds)
  /\ WF_vars(Snapshots) /\ WF_vars(ForcedMoves) /\ WF_vars(ForcedDisconnects)
  /\ WF_vars(Failures) /\ WF_vars(Serves) /\ WF_vars(RoomOpens) /\ WF_vars(RoomCloses)
  /\ WF_vars(MemberLeaves) /\ WF_vars(Expire)

-----------------------------------------------------------------------------
(* Properties.                                                               *)

Optional(S) == S \cup {None}
Steps == {"idle", "wait", "delay", "reserve", "connect", "commit", "disconnect", "cancel"}
Snapshot == [version : Nat, op : Optional(Op)]
Director ==
  [pc : Steps, then : {"none", "left", "terminal", "attempt", "retry", "failed", "superseded"},
   intent : Optional(Channel), stale : BOOLEAN, recovery : BOOLEAN, index : 1..MaxAttempts,
   op : Optional(Op), lease : Optional(Op), since : Nat, held : Optional(Op),
   forced : Optional(Op), lost : Optional(Op), joined : Optional(Op), committed : BOOLEAN,
   connection : {"disconnected", "connecting", "connected", "recovering", "failed"},
   latest : Snapshot, share : SUBSET [media : Media, channel : Optional(Channel)]]

\* What the Director has committed it holds a lease of, for the channel the
\* user wants, and its fiber rests; it works with an operation only while it
\* is reserved, connected or cancelled.
TypeOK ==
  /\ director \in Director
  /\ room \in Optional(Op) /\ stuck \in Optional(Op) /\ alarm \in Optional(Op)
  /\ engine \in {"ready", "recovering", "failed"}
  /\ pending \in Optional(Op) /\ member \in Optional(Op)
  /\ version \in Nat /\ published \subseteq Snapshot
  /\ requests \subseteq [mode : {"join", "disconnect"}, op : Op] /\ answer \in Nat \cup {None}
  /\ moves \subseteq [from : Op, op : Op, version : Nat] /\ ejected \subseteq Op
  /\ minted \in Nat /\ events \in 0..MaxEvents
  /\ (director.pc = "reserve") = (director.op # None)
  /\ director.pc \in {"connect", "commit"} => director.lease # None
  /\ director.pc = "cancel" => director.held # None
  /\ director.committed => /\ director.pc = "idle" /\ director.lease # None
                           /\ director.lease.channel = director.intent

Connects == director'.pc = "connect" /\ director.pc # "connect"

\* The engine is asked for a room only when the room before it is closed, or
\* missed the deadline for closing: on a move, a recovery, a retry, or when
\* newer intents come while the Director is busy with older ones.
BreakBeforeMake == [][Connects => room' = stuck']_vars

\* The engine is asked for a room only in the channel the user wants at that
\* moment, however late the lease came, and no camera or screen that was
\* switched on in another channel is taken into it.
ConnectsToIntent ==
  [][Connects => /\ director'.lease.channel = director'.intent
                 /\ \A s \in director'.share : s.channel \in {None, director'.intent}]_vars

\* While the intent stays, only the user's switch ends a camera, and a screen ends with
\* its window besides: no failure, retry or recovery ends either.
ShareSurvives ==
  [][\A s \in director.share \ director'.share :
       director'.intent = director.intent /\ director.intent # None =>
         SetShare(s.media) \/ (s.media = "screen" /\ SourceEnds)]_vars

\* A moderator's disconnect of the last membership of a session ends the
\* session also when the loss of its room was noticed first.
ModeratorEnds ==
  [][\A op \in ejected \ ejected' : op = director.joined => director'.intent = None]_vars

\* When the Director rests and nothing is under way, no reservation of a
\* client's operation is left but the one of its lease.
NoStrayClaim ==
  director.pc = "idle" /\ requests = {} /\ pending # None =>
    pending.moved \/ pending = director.lease

\* What the Director takes for the backend is an account that VoiceAuthority
\* implements: its own requests and the moderator's acts ask for nothing else.
Account == INSTANCE VoiceAccount WITH
  Again <- FALSE,
  used <- {o \in [n : 1..minted, channel : Channel, moved : BOOLEAN] :
             [mode |-> "join", op |-> o] \notin requests}

BackendIsAccount == Account!AccountSpec

\* A room the Director shows as connected is open, or its loss is about to be
\* reported.
LossNoticed ==
  director.committed /\ director.connection = "connected" => director.lease \in {room, alarm}

\* The user's intent, the engine's room and the membership are one, or a failure is
\* shown, without any room and membership.
Agree ==
  CASE director.connection = "disconnected" -> director.intent = None /\ room = None /\ member = None
    [] director.connection = "failed" -> director.intent # None /\ room = None /\ member = None
    [] director.connection = "connected" -> director.committed /\ {room, member} = {director.lease}
    [] OTHER -> FALSE

\* The one case in which they stay apart: the snapshot that ended the membership
\* came while the Room was reconnecting, and the Director did not act on it.
Overlooked ==
  /\ director.committed /\ director.connection = "connected"
  /\ room = director.lease /\ member # room /\ director.latest.op # room

\* Intent, engine and membership agree in the end, or the user is told of the
\* failure, whatever overtook whatever on the way there.
IntentSettles == <>[](Agree \/ Overlooked)

\* Nothing that has to happen is left to happen: the fiber rests, no snapshot and no
\* loss is on its way, and the backend and the engine have nothing to follow.
Quiet ==
  /\ director.pc = "idle" /\ published = {} /\ alarm = None /\ stuck = None
  /\ pending # None => room # pending /\ pending \in {director.lease, director.op}
  /\ pending = None /\ member # None => room = member /\ ~Reconnecting
  /\ Reconnecting => room # director.lease

\* Intent, engine and membership agree whenever nothing is left to happen: no
\* wake-up but that one is missing, however commands, losses and the moderator's
\* acts met.
RestIsAgreed == Quiet => Agree \/ Overlooked
=============================================================================
