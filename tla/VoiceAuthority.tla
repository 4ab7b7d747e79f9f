--------------------------- MODULE VoiceAuthority ---------------------------
(***************************************************************************)
(* The voice control plane of the backend for one account: which voice     *)
(* operation the account may connect with (the reservation), which one it  *)
(* is a member with (the session), which retired operations still have to  *)
(* be chased out of LiveKit (the cleanups), and the handlers that change   *)
(* them.  All three live in Redis and change only inside Lua scripts that  *)
(* compare before they write, but every handler reads, decides and writes  *)
(* in separate round trips, and handlers of different processes (gateway,  *)
(* REST API, LiveKit webhook ingress, cron daemon) run concurrently.  Each *)
(* running handler is a job; one action of a job is one round trip.        *)
(*                                                                         *)
(* An operation stands for the whole claim a client mints with it (channel,*)
(* RTC engine, client instance, connection epoch): the code compares the   *)
(* claim wherever it compares the identifier, and an identifier is never   *)
(* minted for two claims.  LiveKit is external: the participants of its    *)
(* rooms, and the webhooks it sends, which arrive in any order, any number *)
(* of times.                                                               *)
(***************************************************************************)
EXTENDS Naturals, FiniteSets

CONSTANTS
  ClientOp,     \* operations minted by clients (joins, recoveries)
  ServerOp,     \* operations minted by the API for forced moves
  Channel,      \* voice channels, all of one server
  ChannelOf,    \* the channel each operation is for
  Job,          \* handlers that may run at the same time
  MaxConnects,  \* bound: RTC connections made with one operation's token
  LateRequests, \* may a join request be handled again after it was handled?
  Lapses,       \* records whose time to live may run out: "reservation", "session"
  Failures,     \* may a handler die, or give up on an error, between two steps?
  None          \* absent operation, record or channel

Op == ClientOp \cup ServerOp

ASSUME OpAssumption ==
  /\ ClientOp \cap ServerOp = {}
  /\ ChannelOf \in [Op -> Channel]
ASSUME BoundAssumption ==
  /\ MaxConnects \in Nat
  /\ LateRequests \in BOOLEAN /\ Failures \in BOOLEAN
  /\ Lapses \subseteq {"reservation", "session"}

VARIABLES
  reservation,  \* voice_reservation_current and the record it points to
  session,      \* voice_current and the record it points to
  cleanups,     \* voice_transport_cleanups: retired operations to chase
  told,         \* the membership the account was last told of
  job,          \* what each running handler has read and where it stands
  issued,       \* operations whose credentials were handed out
  conns,        \* LiveKit: every connection that was ever made
  room,         \* LiveKit: the connections that are participants now
  minted,       \* history: operations that ever held the reservation
  again,        \* history: operations that took the reservation again
  settled,      \* history: operations whose cleanup was completed
  lapsed        \* history: operations whose record's time to live ran out

redis == <<reservation, session, cleanups>>
livekit == <<conns, room>>
history == <<minted, again, settled, lapsed>>
vars == <<reservation, session, cleanups, told, job, issued, conns, room,
          minted, again, settled, lapsed>>

Reservation == [op : Op, after : Op \cup {None}]
Conn == [op : Op, n : 1..MaxConnects]

ASSUME NoneAssumption == None \notin Op \cup Channel \cup Reservation \cup Conn

-----------------------------------------------------------------------------
(* What the handlers read. *)

\* The finalized operation: what voice_current points to.
SessionOp == IF session = None THEN None ELSE session.op

\* The operation that controls the account: a pending join before a member.
Authority == IF reservation = None THEN SessionOp ELSE reservation.op

\* authoritative_voice_membership: what the published snapshot says, which is
\* the member and never a pending join.
MembershipOfPending == Authority  \* mutant: a pending join is announced
AuthoritativeMembership == SessionOp

\* The session the account has in channel c, if any.
InChannel(c) == session # None /\ ChannelOf[session.op] = c

Conns(o) == {c \in room : c.op = o}

-----------------------------------------------------------------------------
(* Jobs. *)

Idle == [pc |-> "idle", op |-> None, n |-> 0, seen |-> None, rec |-> None,
         ops |-> {}, chan |-> None, prepared |-> FALSE, next |-> "idle"]

At(j, pc) == job[j].pc = pc
Become(j, r) == job' = [job EXCEPT ![j] = r]
Goto(j, pc) == job' = [job EXCEPT ![j].pc = pc]
Finish(j) == Become(j, Idle)

\* Where a job goes when it has finished a shared piece of code.
Continue(j) == IF job[j].next = "idle" THEN Finish(j) ELSE Goto(j, job[j].next)

-----------------------------------------------------------------------------
(* The Lua scripts: each is one atomic step of Redis. *)

\* PREPARE_VOICE_RESERVATION.  A repeated request finds its own reservation;
\* a new one supersedes the reservation it expected to find and inherits the
\* finalized operation that one was fenced by.
Anchor == IF reservation = None THEN SessionOp ELSE reservation.after

CanPrepare(o, expected) ==
  /\ Anchor = SessionOp
  /\ \/ reservation # None /\ reservation.op = o
     \/ Authority = expected

PrepareReservation(o) ==
  /\ reservation' = [op |-> o, after |-> Anchor]
  /\ cleanups' = IF reservation = None \/ reservation.op = o THEN cleanups
                 ELSE cleanups \cup {reservation.op}
  /\ minted' = minted \cup {o}
  /\ again' = IF o \in minted /\ (reservation = None \/ reservation.op # o)
              THEN again \cup {o} ELSE again
  /\ UNCHANGED session

\* DELETE_VOICE_RESERVATION of the exact record that was read.
DropReservation(rec) ==  \* mutant: the cancelled operation is not chased
  reservation' = None /\ UNCHANGED <<cleanups, session>>

DeleteReservation(rec) ==
  /\ reservation' = None
  /\ cleanups' = cleanups \cup {rec.op}
  /\ UNCHANGED session

\* COMMIT_VOICE_RESERVATION_JOIN: fenced by the exact reservation and by the
\* finalized operation it expects to replace.
CanCommitRetired(rec) == SessionOp = rec.after  \* mutant: any reservation will do

CanCommit(rec) == reservation = rec /\ SessionOp = rec.after

CommitChasing(rec, n) ==  \* mutant: the new operation is chased, not the old
  /\ session' = [op |-> rec.op, n |-> n]
  /\ reservation' = None
  /\ cleanups' = cleanups \cup {rec.op}

CommitUnguarded(rec, n) ==  \* mutant: a first join chases the empty operation
  /\ session' = [op |-> rec.op, n |-> n]
  /\ reservation' = None
  /\ cleanups' = cleanups \cup ({rec.after} \ {rec.op})

CommitJoin(rec, n) ==
  /\ session' = [op |-> rec.op, n |-> n]
  /\ reservation' = None
  /\ cleanups' = cleanups \cup ({rec.after} \ {None, rec.op})

\* DELETE_CURRENT_VOICE_SESSION refuses while a reservation is fenced by it.
CanDeleteAnyTime(o) == SessionOp = o  \* mutant: the fence is not looked at
CanDeleteSession(o) == SessionOp = o /\ reservation = None

DeleteSession(o) ==
  /\ session' = None
  /\ cleanups' = cleanups \cup {o}
  /\ UNCHANGED reservation

-----------------------------------------------------------------------------
(* Joining: the gateway handles a client's request for operation o. *)

\* get_current_voice_authority, read before the channel, the permissions and
\* the capacity are looked up.  The desktop's transport sends a join again on
\* every new socket, so a request may be handled twice, or after another one.
BeginJoin(j, o) ==
  /\ job[j] = Idle
  /\ LateRequests \/ (o \notin minted /\ \A k \in Job : job[k].op # o)
  /\ Become(j, [Idle EXCEPT !.pc = "prepare", !.op = o, !.seen = Authority])
  /\ UNCHANGED <<redis, told, issued, livekit, history>>

\* create_voice_session_if_current: its snapshot and its script are retried
\* until they agree, so what counts is the state the script finds.
JoinPrepare(j) ==
  /\ At(j, "prepare")
  /\ \/ /\ CanPrepare(job[j].op, job[j].seen)
        /\ PrepareReservation(job[j].op)
        /\ Become(j, [job[j] EXCEPT !.pc = "list", !.seen = None, !.next = "credentials"])
     \/ /\ ~CanPrepare(job[j].op, job[j].seen)
        /\ Finish(j)
        /\ UNCHANGED <<redis, minted, again>>
  /\ UNCHANGED <<told, issued, livekit, settled, lapsed>>

\* list_voice_transport_cleanups, for a join and for the sweep of the cron.
ListCleanups(j) ==
  /\ At(j, "list")
  /\ Become(j, [job[j] EXCEPT !.pc = "retire", !.ops = cleanups])
  /\ UNCHANGED <<redis, told, issued, livekit, history>>

\* retire_voice_transport: remove the exact participant, then list the room
\* again to see that it is gone.
RetireTransport(j, o) ==
  /\ At(j, "retire") /\ o \in job[j].ops
  /\ room' = room \ Conns(o)
  /\ Become(j, [job[j] EXCEPT !.pc = "complete", !.seen = o])
  /\ UNCHANGED <<redis, told, issued, conns, history>>

\* The room cannot be listed or still shows the participant: a join gives up
\* (LiveKitUnavailable, the reservation stays), the sweep goes on.
RetireFails(j, o) ==
  /\ At(j, "retire") /\ o \in job[j].ops
  /\ IF job[j].next = "credentials" THEN Finish(j)
     ELSE Become(j, [job[j] EXCEPT !.ops = @ \ {o}])
  /\ UNCHANGED <<redis, told, issued, livekit, history>>

\* COMPLETE_VOICE_TRANSPORT_CLEANUP.
CompleteKeeping(j) ==  \* mutant: the record goes but the list entry stays
  /\ At(j, "complete")
  /\ settled' = settled \cup ({job[j].seen} \cap cleanups)
  /\ Become(j, [job[j] EXCEPT !.pc = "retire", !.ops = @ \ {job[j].seen}, !.seen = None])
  /\ UNCHANGED <<redis, told, issued, livekit, minted, again, lapsed>>

CompleteCleanup(j) ==
  /\ At(j, "complete")
  /\ cleanups' = cleanups \ {job[j].seen}
  /\ settled' = settled \cup ({job[j].seen} \cap cleanups)
  /\ Become(j, [job[j] EXCEPT !.pc = "retire", !.ops = @ \ {job[j].seen}, !.seen = None])
  /\ UNCHANGED <<reservation, session, told, issued, livekit, minted, again, lapsed>>

RetireDone(j) ==
  /\ At(j, "retire") /\ job[j].ops = {}
  /\ Continue(j)
  /\ UNCHANGED <<redis, told, issued, livekit, history>>

\* create_room and create_token_for_identity, then VoiceServerUpdate.  The
\* reservation is not looked at again.
IssueCredentials(j) ==
  /\ At(j, "credentials")
  /\ issued' = issued \cup {job[j].op}
  /\ Become(j, [Idle EXCEPT !.pc = "publish"])
  /\ UNCHANGED <<redis, told, livekit, history>>

\* publish_authoritative_voice_snapshot, in one step: module VoiceSnapshots
\* shows what its version counter makes of concurrent publishers.
Publish(j) ==
  /\ At(j, "publish") \/ At(j, "announce")
  /\ told' = AuthoritativeMembership
  /\ IF At(j, "announce") THEN Goto(j, "kick") ELSE Finish(j)
  /\ UNCHANGED <<redis, issued, livekit, history>>

\* remove_user by identity; the answer is not looked at.
Kick(j) ==
  /\ At(j, "kick")
  /\ room' \in {room, room \ Conns(job[j].op)}
  /\ Finish(j)
  /\ UNCHANGED <<redis, told, issued, conns, history>>

-----------------------------------------------------------------------------
(* Leaving: a client disconnects operation o, a moderator the member. *)

\* The snapshot of both records: with a reservation pending only that exact
\* reservation may be disconnected, otherwise only that exact session.
BeginDisconnect(j, o) ==
  /\ job[j] = Idle /\ Authority = o
  /\ Become(j, IF reservation # None
               THEN [Idle EXCEPT !.pc = "cancel_exact", !.op = o, !.rec = reservation]
               ELSE [Idle EXCEPT !.pc = "check", !.op = o, !.chan = ChannelOf[o],
                                 !.next = "publish"])
  /\ UNCHANGED <<redis, told, issued, livekit, history>>

CancelExact(j) ==
  /\ At(j, "cancel_exact")
  /\ \/ /\ reservation = job[j].rec
        /\ DeleteReservation(job[j].rec)
        /\ Become(j, [Idle EXCEPT !.pc = "publish"])
     \/ /\ reservation # job[j].rec
        /\ Finish(j)
        /\ UNCHANGED redis
  /\ UNCHANGED <<told, issued, livekit, history>>

\* is_in_voice_channel, before remove_user_from_voice_channel.
RemoveCheck(j) ==
  /\ At(j, "check")
  /\ IF InChannel(job[j].chan) THEN Goto(j, "cancel") ELSE Continue(j)
  /\ UNCHANGED <<redis, told, issued, livekit, history>>

\* cancel_current_pending_voice_join: whatever reservation is current goes.
RemoveCancel(j) ==
  /\ At(j, "cancel")
  /\ IF reservation # None THEN DeleteReservation(reservation) ELSE UNCHANGED redis
  /\ Goto(j, "read")
  /\ UNCHANGED <<told, issued, livekit, history>>

\* delete_voice_state reads the session of the channel ...
RemoveRead(j) ==
  /\ At(j, "read")
  /\ IF InChannel(job[j].chan)
     THEN Become(j, [job[j] EXCEPT !.pc = "delete", !.seen = SessionOp])
     ELSE Continue(j)
  /\ UNCHANGED <<redis, told, issued, livekit, history>>

\* ... and deletes it if it is still the current one.
RemoveDelete(j) ==
  /\ At(j, "delete")
  /\ IF CanDeleteSession(job[j].seen) THEN DeleteSession(job[j].seen) ELSE UNCHANGED redis
  /\ Continue(j)
  /\ UNCHANGED <<told, issued, livekit, history>>

\* disconnect_member_from_voice: cancels the pending join first.
BeginModeration(j) ==
  /\ job[j] = Idle /\ (session # None \/ reservation # None)
  /\ IF reservation # None THEN DeleteReservation(reservation) ELSE UNCHANGED redis
  /\ Become(j, [Idle EXCEPT !.pc = "moderate"])
  /\ UNCHANGED <<told, issued, livekit, history>>

\* The session it names to the client is the one it removes from LiveKit.
Moderate(j) ==
  /\ At(j, "moderate")
  /\ Become(j, IF session = None THEN [Idle EXCEPT !.pc = "publish"]
               ELSE [Idle EXCEPT !.pc = "cancel", !.op = SessionOp,
                                 !.chan = ChannelOf[SessionOp], !.next = "announce"])
  /\ UNCHANGED <<redis, told, issued, livekit, history>>

-----------------------------------------------------------------------------
(* Moving: a moderator moves the member with a fresh operation o. *)

\* Credentials are made and the old transport is chosen before the reservation
\* is; the transport is named by the operation current in the old channel but
\* with the claim of the session, so it exists only if the two agree.
BeginMove(j, o) ==
  /\ job[j] = Idle /\ o \in ServerOp \ minted /\ session # None
  /\ \A k \in Job : job[k].op # o
  /\ LET pendingHere == /\ reservation # None
                        /\ ChannelOf[reservation.op] = ChannelOf[SessionOp]
     IN Become(j, [Idle EXCEPT !.pc = "move", !.op = o,
                               !.seen = IF pendingHere THEN None ELSE SessionOp])
  /\ UNCHANGED <<redis, told, issued, livekit, history>>

\* create_voice_session expects whatever controls the account now.
MovePrepare(j) ==
  /\ At(j, "move")
  /\ \/ /\ CanPrepare(job[j].op, Authority)
        /\ PrepareReservation(job[j].op)
        /\ Goto(j, "lease")
     \/ /\ ~CanPrepare(job[j].op, Authority)
        /\ Finish(j)
        /\ UNCHANGED <<redis, minted, again>>
  /\ UNCHANGED <<told, issued, livekit, settled, lapsed>>

\* VoiceAuthorityMove carries the lease; the old transport is removed later.
MoveLease(j) ==
  /\ At(j, "lease")
  /\ issued' = issued \cup {job[j].op}
  /\ Become(j, [Idle EXCEPT !.pc = "kick", !.op = job[j].seen])
  /\ UNCHANGED <<redis, told, livekit, history>>

-----------------------------------------------------------------------------
(* LiveKit webhooks, delivered in any order and any number of times. *)

\* participant_joined of connection c: voice_participant_matches_current_authority.
BeginJoined(j, c) ==
  /\ job[j] = Idle /\ c \in conns
  /\ LET current == \/ reservation # None /\ reservation.op = c.op
                    \/ SessionOp = c.op
     IN Become(j, [Idle EXCEPT !.pc = IF current THEN "find" ELSE "kick",
                               !.op = c.op, !.n = c.n])
  /\ UNCHANGED <<redis, told, issued, livekit, history>>

\* commit_voice_session_join finds the reservation, the session a replayed
\* webhook has already made, or that the operation is stale.  A request that
\* was handled again and then superseded leaves a record that hides the session.
JoinedFind(j) ==
  /\ At(j, "find")
  /\ LET pending == reservation # None /\ reservation.op = job[j].op
         replayed == session = [op |-> job[j].op, n |-> job[j].n]
     IN \/ /\ pending
           /\ Become(j, [job[j] EXCEPT !.pc = "commit", !.rec = reservation])
        \/ /\ ~pending /\ replayed
           /\ Become(j, [Idle EXCEPT !.pc = "publish"])
        \/ /\ ~pending /\ (~replayed \/ LateRequests)
           /\ Goto(j, "kick")
  /\ UNCHANGED <<redis, told, issued, livekit, history>>

\* The script commits, or its comparison failed: look again.  Other writers of
\* the records (mute, deafen, tracks) can make it fail 8 times, after which the
\* operation is taken for stale.
JoinedCommit(j) ==
  /\ At(j, "commit")
  /\ \/ /\ CanCommit(job[j].rec)
        /\ CommitJoin(job[j].rec, job[j].n)
        /\ Become(j, [Idle EXCEPT !.pc = "publish"])
     \/ /\ ~CanCommit(job[j].rec)
        /\ Become(j, [job[j] EXCEPT !.pc = "find", !.rec = None])
        /\ UNCHANGED redis
     \/ /\ Become(j, [job[j] EXCEPT !.pc = "kick", !.rec = None])
        /\ UNCHANGED redis
  /\ UNCHANGED <<told, issued, livekit, history>>

\* participant_left of connection c: delete_voice_state_for_session reads the
\* session; if c is not the member's connection, the channel is reconciled.
BeginLeft(j, c) ==
  /\ job[j] = Idle /\ c \in conns \ room
  /\ Become(j, [Idle EXCEPT !.pc = IF session = c THEN "left" ELSE "probe",
                            !.seen = IF session = c THEN c.op ELSE None,
                            !.chan = ChannelOf[c.op]])
  /\ UNCHANGED <<redis, told, issued, livekit, history>>

LeftDelete(j) ==
  /\ At(j, "left")
  /\ \/ /\ CanDeleteSession(job[j].seen)
        /\ DeleteSession(job[j].seen)
        /\ Become(j, [Idle EXCEPT !.pc = "publish"])
     \/ /\ ~CanDeleteSession(job[j].seen)
        /\ Become(j, [job[j] EXCEPT !.pc = "probe", !.seen = None])
        /\ UNCHANGED redis
  /\ UNCHANGED <<told, issued, livekit, history>>

-----------------------------------------------------------------------------
(* Reconciling a channel with LiveKit: the cron daemon, or a webhook that   *)
(* found nothing to do.                                                     *)

BeginReconcile(j, c) ==
  /\ job[j] = Idle
  /\ InChannel(c) \/ (reservation # None /\ ChannelOf[reservation.op] = c)
  /\ Become(j, [Idle EXCEPT !.pc = "probe", !.chan = c])
  /\ UNCHANGED <<redis, told, issued, livekit, history>>

PendingIn(c) == IF reservation # None /\ ChannelOf[reservation.op] = c
                THEN {reservation.op} ELSE {}

\* The members of the channel, their operations, and whether one of them is
\* being replaced or joined by a prepared operation.
Probe(j) ==
  /\ At(j, "probe")
  /\ LET c == job[j].chan
         member == IF InChannel(c) THEN SessionOp ELSE None
     IN Become(j, [job[j] EXCEPT
          !.pc = "inspect",
          !.seen = member,
          !.ops = ({member} \ {None}) \cup PendingIn(c),
          !.prepared = \/ member # None /\ reservation # None /\ reservation.after = member
                       \/ PendingIn(c) # {}])
  /\ UNCHANGED <<redis, told, issued, livekit, history>>

\* LiveKit's list of the room, compared with what was read before it.  Without
\* any current operation every participant passes for a member.
Inspect(j) ==
  /\ At(j, "inspect")
  /\ LET here == {c \in room : ChannelOf[c.op] = job[j].chan}
         late == IF here = {} THEN {} ELSE PendingIn(job[j].chan)
         current == job[j].ops \cup late
         members == {c \in here : current = {} \/ c.op \in current}
         strangers == {c.op : c \in here \ members}
         gone == job[j].seen # None /\ members = {} /\ ~job[j].prepared /\ late = {}
         then == IF strangers = {} THEN "idle" ELSE "remove"
         rest == [Idle EXCEPT !.chan = job[j].chan, !.ops = strangers, !.next = then]
     IN IF gone THEN Become(j, [rest EXCEPT !.pc = "check"])
        ELSE IF strangers = {} THEN Finish(j)
        ELSE Become(j, [rest EXCEPT !.pc = "remove"])
  /\ UNCHANGED <<redis, told, issued, livekit, history>>

\* The room does not exist: delete_channel_voice_state of the members read.
SkipDead(j) ==  \* mutant: a missing room is taken for a failed listing
  /\ At(j, "inspect")
  /\ \A c \in room : ChannelOf[c.op] # job[j].chan
  /\ Finish(j)
  /\ UNCHANGED <<redis, told, issued, livekit, history>>

InspectDead(j) ==
  /\ At(j, "inspect")
  /\ \A c \in room : ChannelOf[c.op] # job[j].chan
  /\ IF job[j].seen = None THEN Finish(j)
     ELSE Become(j, [Idle EXCEPT !.pc = "read", !.chan = job[j].chan])
  /\ UNCHANGED <<redis, told, issued, livekit, history>>

\* The strangers are removed one by one; any of the removals may fail.
RemoveStrangers(j) ==
  /\ At(j, "remove")
  /\ \E S \in SUBSET job[j].ops : room' = {c \in room : c.op \notin S}
  /\ Finish(j)
  /\ UNCHANGED <<redis, told, issued, conns, history>>

\* The cron's sweep of the transport cleanups, before it reconciles.
BeginSweep(j) ==
  /\ job[j] = Idle /\ cleanups # {}
  /\ Become(j, [Idle EXCEPT !.pc = "list"])
  /\ UNCHANGED <<redis, told, issued, livekit, history>>

-----------------------------------------------------------------------------
(* Clients, LiveKit, time and crashes. *)

\* A client with credentials connects; LiveKit lets one participant have an
\* identity and drops the older connection.
Connect(c) ==
  /\ c.op \in issued /\ c \notin conns
  /\ \A m \in 1..(c.n - 1) : [op |-> c.op, n |-> m] \in conns
  /\ conns' = conns \cup {c}
  /\ room' = (room \ Conns(c.op)) \cup {c}
  /\ UNCHANGED <<redis, told, job, issued, history>>

Drop(c) ==
  /\ c \in room
  /\ room' = room \ {c}
  /\ UNCHANGED <<redis, told, job, issued, conns, history>>

\* A time to live runs out; nothing is written, so no cleanup is recorded.
LapseReservation ==
  /\ "reservation" \in Lapses /\ reservation # None
  /\ reservation' = None
  /\ lapsed' = lapsed \cup {reservation.op}
  /\ UNCHANGED <<session, cleanups, told, job, issued, livekit, minted, again, settled>>

\* The script that makes or repeats a reservation renews the session it is fenced
\* by for the same time, so a session does not expire before its reservation.
\* (SAVE_CURRENT_VOICE_RESERVATION renews the reservation alone, but no handler
\* calls the update of tracks that runs it.)
LapseSession ==
  /\ "session" \in Lapses /\ session # None
  /\ reservation # None => reservation.after # session.op
  /\ session' = None
  /\ lapsed' = lapsed \cup {session.op}
  /\ UNCHANGED <<reservation, cleanups, told, job, issued, livekit, minted, again, settled>>

\* The process running the handler dies between two of its steps, or a round
\* trip fails and the handler returns the error; then another one can run.
Crash(j) ==
  /\ Failures /\ job[j].pc \notin {"idle", "dead"}
  /\ Become(j, [Idle EXCEPT !.pc = "dead"])
  /\ UNCHANGED <<redis, told, issued, livekit, history>>

Bury(j) ==
  /\ At(j, "dead")
  /\ Finish(j)
  /\ UNCHANGED <<redis, told, issued, livekit, history>>

-----------------------------------------------------------------------------
Init ==
  /\ reservation = None /\ session = None /\ cleanups = {}
  /\ told = None
  /\ job = [j \in Job |-> Idle]
  /\ issued = {}
  /\ conns = {} /\ room = {}
  /\ minted = {} /\ again = {} /\ settled = {} /\ lapsed = {}

JobStep(j) ==
  \/ \E o \in ClientOp : BeginJoin(j, o)
  \/ JoinPrepare(j) \/ ListCleanups(j)
  \/ \E o \in Op : RetireTransport(j, o) \/ RetireFails(j, o)
  \/ CompleteCleanup(j) \/ RetireDone(j) \/ IssueCredentials(j)
  \/ Publish(j) \/ Kick(j)
  \/ \E o \in Op : BeginDisconnect(j, o)
  \/ CancelExact(j) \/ RemoveCheck(j) \/ RemoveCancel(j) \/ RemoveRead(j) \/ RemoveDelete(j)
  \/ BeginModeration(j) \/ Moderate(j)
  \/ \E o \in ServerOp : BeginMove(j, o)
  \/ MovePrepare(j) \/ MoveLease(j)
  \/ \E c \in Conn : BeginJoined(j, c) \/ BeginLeft(j, c)
  \/ JoinedFind(j) \/ JoinedCommit(j) \/ LeftDelete(j)
  \/ \E c \in Channel : BeginReconcile(j, c)
  \/ Probe(j) \/ Inspect(j) \/ InspectDead(j) \/ RemoveStrangers(j)
  \/ BeginSweep(j)
  \/ Crash(j) \/ Bury(j)

Next ==
  \/ \E j \in Job : JobStep(j)
  \/ \E c \in Conn : Connect(c) \/ Drop(c)
  \/ LapseReservation \/ LapseSession

Spec == Init /\ [][Next]_vars

-----------------------------------------------------------------------------
(* Safety. *)

PC == {"idle", "prepare", "list", "retire", "complete", "credentials", "publish",
       "announce", "kick", "cancel_exact", "check", "cancel", "read", "delete",
       "moderate", "move", "lease", "find", "commit", "left", "probe", "inspect",
       "remove", "dead"}

JobState == [pc : PC, op : Op \cup {None}, n : 0..MaxConnects, seen : Op \cup {None},
             rec : Reservation \cup {None}, ops : SUBSET Op,
             chan : Channel \cup {None}, prepared : BOOLEAN, next : PC]

\* Every record, every running handler and every connection is well formed.
TypeOK ==
  /\ reservation \in Reservation \cup {None}
  /\ session \in Conn \cup {None}
  /\ cleanups \subseteq Op /\ issued \subseteq Op
  /\ told \in Op \cup {None}
  /\ job \in [Job -> JobState]
  /\ conns \subseteq Conn /\ room \subseteq conns
  /\ minted \subseteq Op /\ again \subseteq Op /\ settled \subseteq Op /\ lapsed \subseteq Op

\* A pending reservation is always fenced by the operation that is finalized
\* now, or by none when there is none: no script and no expiry takes the session
\* from behind a reservation, so a reservation can be committed until it is
\* cancelled, superseded or expires.
Anchored == reservation # None => reservation.after = SessionOp

\* An operation that ever held the account stays accounted for: it is current,
\* or waits to be chased out of LiveKit, or has been chased, or its record
\* expired.  No order of joins, moves, commits and removals loses a transport.
RetiredTracked ==
  \A o \in minted : \/ o \in {SessionOp} \cup cleanups \cup settled \cup lapsed
                    \/ reservation # None /\ reservation.op = o

\* The member's own operation is never on the list of transports to chase, so
\* neither a join nor the cron throws out the participant that is the member.
\* A request handled again while its operation holds the reservation changes
\* nothing in that; the one operation it does not hold for is one that took the
\* reservation again after it had lost it, by a request handled that late.
CleanupSparesMember == SessionOp \in cleanups => SessionOp \in again

\* A member is made only by committing the reservation that is current, over
\* the very operation it is fenced by, for a connection LiveKit has seen,
\* whatever webhooks were delayed, repeated or overtaken.
Succession ==
  [][session' # session /\ session' # None =>
       /\ reservation # None /\ session'.op = reservation.op
       /\ reservation.after = SessionOp
       /\ session' \in conns]_session

\* The handlers and their scripts implement the account: with a reservation
\* pending the member does not change but by its commit, and an operation that
\* lost the account does not get it back, unless a request may be handled late.
Account == INSTANCE VoiceAccount WITH
  Again <- LateRequests, pending <- IF reservation = None THEN None ELSE reservation.op,
  member <- SessionOp, used <- minted

OneAuthority == Account!AccountSpec

\* When every handler has run to its end, a member has been told that it is
\* one, however the publishers were interleaved.  (That a session is gone is not
\* published by a reconciliation, so nothing is said of an account without one.)
MemberTold ==
  (\A j \in Job : job[j] = Idle) => session = None \/ told = SessionOp

\* docs/adr/0003-unified-voice-session.md:62-63: "Stale operations and epochs
\* may only clean up their own resources."  A client's disconnect of one
\* operation retires no other operation.  (The code does not keep this.)
OwnResourcesOnly ==
  [][\A j \in Job :
       job[j].next = "publish" /\ job'[j] # job[j] /\ job[j].pc \in {"cancel", "delete"} =>
         /\ reservation' = reservation \/ reservation.op = job[j].op
         /\ session' = session \/ session.op = job[j].op]_vars

-----------------------------------------------------------------------------
(* Progress: the cron daemon comes back to every channel and to the list of *)
(* cleanups, a running handler takes its next step, LiveKit is not down     *)
(* every time it is asked, an unused reservation expires, and handlers stop *)
(* dying at some time.                                                      *)

JobProgress(j) ==
  \/ JoinPrepare(j) \/ ListCleanups(j)
  \/ \E o \in Op : RetireTransport(j, o) \/ RetireFails(j, o)
  \/ CompleteCleanup(j) \/ RetireDone(j) \/ IssueCredentials(j)
  \/ Publish(j) \/ Kick(j)
  \/ CancelExact(j) \/ RemoveCheck(j) \/ RemoveCancel(j) \/ RemoveRead(j) \/ RemoveDelete(j)
  \/ Moderate(j) \/ MovePrepare(j) \/ MoveLease(j)
  \/ JoinedFind(j) \/ JoinedCommit(j) \/ LeftDelete(j)
  \/ Probe(j) \/ Inspect(j) \/ InspectDead(j) \/ RemoveStrangers(j) \/ Bury(j)

CronFairness ==
  \A j \in Job :
    /\ WF_vars(JobProgress(j))
    /\ \A c \in Channel : SF_vars(BeginReconcile(j, c))
    /\ SF_vars(BeginSweep(j))
    /\ \A o \in Op : SF_vars(RetireTransport(j, o))

FairSpec ==
  /\ Spec /\ CronFairness /\ WF_vars(LapseReservation)
  /\ <>[][\A j \in Job : ~Crash(j)]_vars

\* A member without a participant does not stay one: the session goes, or the
\* participant comes, even if its participant_left was lost, arrived before its
\* participant_joined, or was overtaken by a reservation.
GhostLeaves ==
  (session # None /\ Conns(SessionOp) = {}) ~> (session = None \/ Conns(SessionOp) # {})

\* Every retired transport is chased to its end.
CleanupsSettle == \A o \in Op : o \in cleanups ~> o \notin cleanups
=============================================================================
