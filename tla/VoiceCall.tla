----------------------------- MODULE VoiceCall -----------------------------
(***************************************************************************)
(* The call of one private channel: a document that says who is rung, and  *)
(* until when, next to the channel's connected members.                    *)
(*                                                                         *)
(* Members come and go as VoiceAuthority has it; the document follows in   *)
(* handlers that read the members, do something else, and then change the  *)
(* document.  A handler that loses the compare-and-set reads the document  *)
(* again, but not the members, and may give up or die at any point; of its *)
(* loop only the round that wins is a step here.  The cron daemon's sweep  *)
(* does not repeat its comparison.  What a client is told is left out.     *)
(***************************************************************************)
EXTENDS Naturals, FiniteSets

CONSTANTS
  User,
  Pair,        \* the recipients of a direct channel; a group has all users
  NoCall,      \* no document
  Nobody,      \* the user of a handler that has forgotten whose event it was
  MaxJoins,    \* bound: participants that join
  MaxTasks,    \* bound: handlers at a time
  MaxDeadline  \* bound: deadlines that are not derived from another one

ASSUME BoundsOK ==
  /\ Pair \subseteq User /\ IsFiniteSet(User)
  /\ \E a, b \in User : a # b /\ Pair = {a, b}
  /\ MaxJoins \in Nat /\ MaxDeadline \in Nat /\ MaxTasks \in Nat \ {0}

VARIABLES
  direct,     \* the channel is a DirectMessage, not a Group
  recipients, \* its recipients
  members,    \* connected members
  call,       \* the document
  tasks,      \* handlers under way, with the members they have read
  sweep,      \* the cron daemon's visit of the call
  overdue,    \* the deadline of the document has passed
  deadlines,  \* deadlines so far
  joins       \* participants that have joined

vars == <<direct, recipients, members, call, tasks, sweep, overdue, deadlines, joins>>

NoDeadline == <<"none", 0>>
Deadline == {NoDeadline} \cup ({"timer", "grace"} \X (1..MaxDeadline))
Fresh == <<"timer", deadlines + 1>>
Grace(d) == <<"grace", d[2]>>  \* ten minutes after another one

\* started_at tells calls apart; expires_at is the deadline.
Document ==
  [started : 1..MaxDeadline, phase : {"ringing", "active"}, initiator : User,
   ringing : SUBSET User, deadline : Deadline]
ASSUME NoCallOK == NoCall \notin Document

Task == [kind : {"joining", "joined", "left", "leaving", "closed", "cancelled", "removed",
                 "removing", "deleted"},
         user : User \cup {Nobody}, seen : SUBSET User]
Idle == [phase |-> "idle", doc |-> NoCall, late |-> FALSE, seen |-> {}]

Init ==
  /\ direct \in BOOLEAN /\ recipients = IF direct THEN Pair ELSE User
  /\ members = {} /\ call = NoCall /\ tasks = {} /\ sweep = Idle
  /\ overdue = FALSE /\ deadlines = 0 /\ joins = 0

\* A handler starts; the task t goes on as the tasks of the set.
Start(kind, user, seen) ==
  /\ Cardinality(tasks) < MaxTasks
  /\ tasks' = tasks \cup {[kind |-> kind, user |-> user, seen |-> seen]}
\* What is late for one deadline is not late for another.
Becomes(doc) ==
  /\ call' = doc
  /\ overdue' = (overdue /\ doc # NoCall /\ doc.deadline = call.deadline)

Continue(t, next) == t \in tasks /\ tasks' = (tasks \ {t}) \cup next

------------------------------------------------------------------------------
(* participant_joined, of a user who is not a member yet. *)

ReadBefore(u) ==
  /\ u \in recipients \ members /\ joins < MaxJoins
  /\ joins' = joins + 1
  /\ Start("joining", u, members)
  /\ UNCHANGED <<direct, recipients, members, call, sweep, overdue, deadlines>>

CommitJoin(t) ==
  /\ t.kind = "joining" /\ t.user \notin members
  /\ Continue(t, {[t EXCEPT !.kind = "joined"]})
  /\ members' = members \cup {t.user}
  /\ UNCHANGED <<direct, recipients, call, sweep, overdue, deadlines, joins>>

\* voice_call_join_effect.  The join is dated by its event, so that a deadline
\* may have passed for others and not for it.
Answers(t) ==
  \/ /\ call.phase = "active" /\ call.deadline # NoDeadline
     /\ t.seen \ {t.user} # {}
  \/ /\ call.phase = "ringing" /\ call.initiator # t.user
     /\ call.initiator \in t.seen

MarkActiveRinging ==  \* mutant: those who are rung stay in the document
  [call EXCEPT !.phase = "active", !.deadline = NoDeadline]

MarkActive == [call EXCEPT !.phase = "active", !.deadline = NoDeadline, !.ringing = {}]

CanRing(t) ==
  /\ call # NoCall =>
       call.phase = "ringing" /\ ~Answers(t) /\ overdue
  /\ t.seen = {}

ApplyJoin(t) ==
  /\ t.kind = "joined" /\ Continue(t, {})
  /\ \/ /\ call # NoCall /\ Answers(t)
        /\ Becomes(MarkActive)
        /\ UNCHANGED deadlines
     \/ /\ CanRing(t) /\ deadlines < MaxDeadline
        /\ deadlines' = deadlines + 1
        /\ \E ringing \in (SUBSET (recipients \ {t.user})) \ {{}} :
             Becomes([started |-> deadlines + 1, phase |-> "ringing", initiator |-> t.user,
                      ringing |-> ringing, deadline |-> Fresh])
     \/ (call # NoCall => ~Answers(t)) /\ UNCHANGED <<call, overdue, deadlines>>
  /\ UNCHANGED <<direct, recipients, members, sweep, joins>>

------------------------------------------------------------------------------
(* participant_left, a removal, a move, or the repair of a lost webhook. *)

DeleteMember(u) ==
  /\ u \in members
  /\ members' = members \ {u}
  /\ Start("left", Nobody, {})
  /\ UNCHANGED <<direct, recipients, call, sweep, overdue, deadlines, joins>>

ReadRemaining(t) ==
  /\ t.kind = "left"
  /\ Continue(t, {[t EXCEPT !.kind = "leaving", !.seen = members]})
  /\ UNCHANGED <<direct, recipients, members, call, sweep, overdue, deadlines, joins>>

\* voice_call_leave_effect: an empty channel has no call, and a direct call with
\* one member left has a deadline.
StartsDeadline(t) ==
  /\ direct /\ Cardinality(t.seen) = 1
  /\ call.phase = "active" /\ call.deadline = NoDeadline

ApplyLeave(t) ==
  /\ t.kind = "leaving" /\ Continue(t, {})
  /\ \/ call # NoCall /\ t.seen = {} /\ Becomes(NoCall) /\ UNCHANGED deadlines
     \/ /\ call # NoCall /\ t.seen # {} /\ StartsDeadline(t) /\ deadlines < MaxDeadline
        /\ Becomes([call EXCEPT !.deadline = Fresh]) /\ deadlines' = deadlines + 1
     \/ /\ call # NoCall => t.seen # {} /\ ~StartsDeadline(t)
        /\ UNCHANGED <<call, overdue, deadlines>>
  /\ UNCHANGED <<direct, recipients, members, sweep, joins>>

\* room_finished: the members that are left go, and then the call.
RoomFinished ==
  /\ members # {}
  /\ members' = {}
  /\ Start("closed", Nobody, {})
  /\ UNCHANGED <<direct, recipients, call, sweep, overdue, deadlines, joins>>

ApplyRoomFinished(t) ==
  /\ t.kind = "closed" /\ Continue(t, {})
  /\ Becomes(NoCall)
  /\ UNCHANGED <<direct, recipients, members, sweep, deadlines, joins>>

\* The handler fails, or gives up after eight lost comparisons.
TaskDies(t) ==
  /\ Continue(t, {})
  /\ UNCHANGED <<direct, recipients, members, call, sweep, overdue, deadlines, joins>>

------------------------------------------------------------------------------
(* Routes. *)

\* The initiator withdraws a direct call that rings; then the channel is emptied.
CancelCall(u) ==
  /\ direct /\ call # NoCall /\ call.phase = "ringing" /\ call.initiator = u
  /\ Becomes(NoCall)
  /\ Start("cancelled", Nobody, {})
  /\ UNCHANGED <<direct, recipients, members, sweep, deadlines, joins>>

EmptyChannel(t) ==
  /\ \/ t.kind = "cancelled" /\ Continue(t, {})
     \/ t.kind = "deleted" /\ Continue(t, {[t EXCEPT !.kind = "closed"]})
  /\ members' = {}
  /\ UNCHANGED <<direct, recipients, call, sweep, overdue, deadlines, joins>>

\* The callee declines: the call can be joined for ten minutes more.
DeclineCall(u) ==
  /\ direct /\ call # NoCall /\ call.phase = "ringing" /\ u \in call.ringing
  /\ deadlines < MaxDeadline
  /\ deadlines' = deadlines + 1
  /\ Becomes([call EXCEPT !.phase = "active", !.deadline = Fresh, !.ringing = @ \ {u}])
  /\ UNCHANGED <<direct, recipients, members, tasks, sweep, joins>>

\* Somebody leaves the group or is thrown out: first the document of the channel,
\* then the ringing, then the member.
LeaveGroup(u) ==
  /\ ~direct /\ recipients # {u} /\ u \in recipients
  /\ recipients' = recipients \ {u}
  /\ Start("removed", u, {})
  /\ UNCHANGED <<direct, members, call, sweep, overdue, deadlines, joins>>

\* The last one leaves: the channel is emptied, then the call goes.
DeleteGroup(u) ==
  /\ ~direct /\ recipients = {u}
  /\ recipients' = {}
  /\ Start("deleted", Nobody, {})
  /\ UNCHANGED <<direct, members, call, sweep, overdue, deadlines, joins>>

StopRinging(u) ==
  IF call.ringing = {u}
  THEN [call EXCEPT !.ringing = {}, !.phase = "active", !.deadline = Grace(@)]
  ELSE [call EXCEPT !.ringing = @ \ {u}]

StopRingingRemoved(t) ==
  /\ t.kind = "removed" /\ Continue(t, {[t EXCEPT !.kind = "removing"]})
  /\ IF call # NoCall /\ call.phase = "ringing" /\ t.user \in call.ringing
     THEN Becomes(StopRinging(t.user)) ELSE UNCHANGED <<call, overdue>>
  /\ UNCHANGED <<direct, recipients, members, sweep, deadlines, joins>>

RemoveFromCall(t) ==
  /\ t.kind = "removing"
  /\ Continue(t, IF t.user \in members THEN {[t EXCEPT !.kind = "left", !.user = Nobody]}
                 ELSE {})
  /\ members' = members \ {t.user}
  /\ UNCHANGED <<direct, recipients, call, sweep, overdue, deadlines, joins>>

------------------------------------------------------------------------------
(* The cron daemon. *)

SweepReadsCall ==
  /\ sweep.phase = "idle" /\ call # NoCall
  /\ sweep' = [phase |-> "call", doc |-> call, late |-> overdue, seen |-> {}]
  /\ UNCHANGED <<direct, recipients, members, call, tasks, overdue, deadlines, joins>>

SweepReadsMembers ==
  /\ sweep.phase = "call"
  /\ sweep' = [sweep EXCEPT !.phase = "members", !.seen = members]
  /\ UNCHANGED <<direct, recipients, members, call, tasks, overdue, deadlines, joins>>

EndsLate(s) ==  \* mutant: an empty channel waits for its deadline
  \/ s.late /\ s.doc.phase = "active" /\ Cardinality(s.seen) < 2
  \/ s.late /\ s.doc.phase = "ringing" /\ direct

\* voice_call_expire_effect
Ends(s) ==
  \/ s.seen = {}
  \/ s.late /\ s.doc.phase = "active" /\ Cardinality(s.seen) < 2
  \/ s.late /\ s.doc.phase = "ringing" /\ direct

Expired(s) ==
  IF Ends(s) THEN NoCall
  ELSE IF s.late /\ s.doc.phase = "active" THEN [s.doc EXCEPT !.deadline = NoDeadline]
  ELSE IF s.late
  THEN [s.doc EXCEPT !.phase = "active", !.deadline = Grace(@), !.ringing = {}]
  ELSE s.doc

SweepDecidesBlindly ==  \* mutant: the document is not compared
  /\ sweep.phase = "members"
  /\ Becomes(Expired(sweep))
  /\ sweep' = IF Ends(sweep) THEN [Idle EXCEPT !.phase = "delete"] ELSE Idle
  /\ UNCHANGED <<direct, recipients, members, tasks, deadlines, joins>>

SweepDecides ==
  /\ sweep.phase = "members"
  /\ IF call = sweep.doc
     THEN /\ Becomes(Expired(sweep))
          /\ sweep' = IF Ends(sweep) THEN [Idle EXCEPT !.phase = "delete"] ELSE Idle
     ELSE sweep' = Idle /\ UNCHANGED <<call, overdue>>
  /\ UNCHANGED <<direct, recipients, members, tasks, deadlines, joins>>

\* end_timed_out_call empties the channel, unless that fails.
SweepDeletes ==
  /\ sweep.phase = "delete" /\ sweep' = Idle
  /\ members' \in {{}, members}
  /\ UNCHANGED <<direct, recipients, call, tasks, overdue, deadlines, joins>>

TimePasses ==
  /\ call # NoCall /\ call.deadline # NoDeadline /\ ~overdue
  /\ overdue' = TRUE
  /\ UNCHANGED <<direct, recipients, members, call, tasks, sweep, deadlines, joins>>

------------------------------------------------------------------------------

Sweep == SweepReadsCall \/ SweepReadsMembers \/ SweepDecides \/ SweepDeletes

Next ==
  \/ \E u \in User : ReadBefore(u) \/ DeleteMember(u) \/ CancelCall(u) \/ DeclineCall(u)
                     \/ LeaveGroup(u) \/ DeleteGroup(u)
  \/ \E t \in tasks : CommitJoin(t) \/ ApplyJoin(t) \/ ReadRemaining(t) \/ ApplyLeave(t)
                      \/ ApplyRoomFinished(t) \/ TaskDies(t) \/ EmptyChannel(t)
                      \/ StopRingingRemoved(t) \/ RemoveFromCall(t)
  \/ RoomFinished \/ Sweep \/ TimePasses

Spec == Init /\ [][Next]_vars

\* The cron daemon never stops sweeping.  Nothing is assumed of the handlers.
FairSpec == Spec /\ WF_vars(Sweep)

------------------------------------------------------------------------------

\* Every field is in one of its states; a call that rings rings somebody other
\* than its initiator and has a deadline, and an active call rings nobody.
TypeOK ==
  /\ direct \in BOOLEAN /\ recipients \subseteq User /\ members \subseteq User
  /\ call \in Document \cup {NoCall} /\ tasks \subseteq Task
  /\ sweep \in [phase : {"idle", "call", "members", "delete"}, doc : Document \cup {NoCall},
                late : BOOLEAN, seen : SUBSET User]
  /\ overdue \in BOOLEAN
  /\ deadlines \in 0..MaxDeadline /\ joins \in 0..MaxJoins
  /\ call # NoCall =>
       IF call.phase = "ringing"
       THEN call.deadline # NoDeadline /\ call.ringing # {} /\ call.initiator \notin call.ringing
       ELSE call.ringing = {}

\* The sweep ends a call in which it saw members only when the deadline that the
\* call has now is over: an answer, or a deadline that was renewed or cleared
\* while the sweep was thinking, keeps the call.
OnlyOverdue ==
  [][sweep.phase = "members" /\ sweep' # sweep /\ sweep.seen # {} /\ call # NoCall /\ call' = NoCall
       => overdue]_vars

\* A call without members, or with a deadline that is over, does not go on,
\* whatever becomes of the handlers that should have ended it.
Pointless == call # NoCall /\ (members = {} \/ overdue)
CallSettles == Pointless ~> ~Pointless
=============================================================================
