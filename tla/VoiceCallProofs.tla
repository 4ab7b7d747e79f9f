--------------------------- MODULE VoiceCallProofs ---------------------------
(***************************************************************************)
(* The call's document stays well formed, and a sweep never ends a call    *)
(* that has been answered meanwhile, for any users, handlers and bounds.   *)
(***************************************************************************)
EXTENDS VoiceCall, TLAPS

\* What the last conjunct of TypeOK says of a document.
Rings(c) ==
  IF c.phase = "ringing"
  THEN c.deadline # NoDeadline /\ c.ringing # {} /\ c.initiator \notin c.ringing
  ELSE c.ringing = {}

\* A handler of a join knows whose it is.
JoinersKnown ==
  \A t \in tasks : t.kind \in {"joining", "joined"} =>
    t.user \in User /\ (direct => t.user \in Pair)

\* A direct call is among its pair.
Among(c) == direct => c.initiator \in Pair /\ c.ringing \subseteq Pair
DirectCall ==
  /\ direct => recipients = Pair
  /\ call # NoCall => Among(call)

\* A deadline has been counted, and only a call that has one is overdue.
Dated ==
  /\ call # NoCall => call.deadline[2] <= deadlines
  /\ overdue => call # NoCall /\ call.deadline # NoDeadline

\* The deadline d has taken the place of e, which never comes back.
Replaces(d, e) ==
  \/ d = NoDeadline
  \/ d[2] > e[2]
  \/ d[2] = e[2] /\ d[1] = "grace" /\ e[1] = "timer"

\* What the sweep thinks of has been a document.  If that was overdue, the call has
\* ended, or it is overdue still, or it has another deadline for good.
SweepKnows ==
  sweep.phase \in {"call", "members"} =>
    /\ sweep.doc \in Document
    /\ sweep.late =>
         /\ sweep.doc.deadline # NoDeadline /\ sweep.doc.deadline[2] <= deadlines
         /\ call # NoCall => IF call.deadline = sweep.doc.deadline THEN overdue
                             ELSE Replaces(call.deadline, sweep.doc.deadline)

IInv == TypeOK /\ JoinersKnown /\ DirectCall /\ Dated /\ SweepKnows

\* Where the deadline of the next document may come from.
Follows(doc) ==
  doc # NoCall =>
    \/ call # NoCall /\ doc.deadline \in {call.deadline, NoDeadline}
    \/ call # NoCall /\ call.phase = "ringing" /\ doc.deadline = Grace(call.deadline)
    \/ doc.deadline = Fresh /\ deadlines' = deadlines + 1

\* A deadline has two parts, and ten minutes after one there is another.
LEMMA Deadlines ==
  /\ NoDeadline \in Deadline
  /\ \A d \in Deadline : d # NoDeadline => Grace(d) \in Deadline /\ Grace(d) # NoDeadline
  /\ \A n \in 1..MaxDeadline : <<"timer", n>> \in Deadline /\ <<"timer", n>> # NoDeadline
  BY DEF Deadline, NoDeadline, Grace

\* The parts of a deadline.
LEMMA DeadlineParts ==
  /\ NoDeadline[2] = 0 /\ Fresh[2] = deadlines + 1
  /\ \A d \in Deadline :
       /\ d[2] \in Nat
       /\ Grace(d)[1] = "grace" /\ Grace(d)[2] = d[2]
       /\ d = NoDeadline \/ d[1] = "timer" \/ d = Grace(d)
  BY BoundsOK DEF Deadline, NoDeadline, Grace, Fresh

\* Initially nothing is there.
LEMMA InitIInv == Init => IInv
<1> SUFFICES ASSUME Init PROVE IInv OBVIOUS
<1>1. TypeOK
  <2>1. direct \in BOOLEAN /\ recipients \subseteq User BY BoundsOK DEF Init
  <2>2. Idle \in [phase : {"idle", "call", "members", "delete"}, doc : Document \cup {NoCall},
                  late : BOOLEAN, seen : SUBSET User]
    BY DEF Idle
  <2>3. 0 \in 0..MaxDeadline /\ 0 \in 0..MaxJoins BY BoundsOK
  <2> QED BY <2>1, <2>2, <2>3 DEF Init, TypeOK
<1>2. JoinersKnown /\ DirectCall /\ Dated /\ SweepKnows
  BY DEF Init, JoinersKnown, DirectCall, Dated, SweepKnows, Idle
<1> QED BY <1>1, <1>2 DEF IInv

\* Handlers that leave the document alone.
LEMMA QuietIInv ==
  ASSUME IInv, tasks' \subseteq tasks \cup Task, members' \subseteq User,
         \A t \in tasks' \ tasks : t.kind \in {"joining", "joined"} =>
           t.user \in User /\ (direct => t.user \in Pair),
         recipients' \subseteq recipients, direct => recipients' = recipients, joins' \in 0..MaxJoins,
         UNCHANGED <<direct, call, sweep, overdue, deadlines>>
  PROVE  IInv'
<1>1. TypeOK' BY DEF IInv, TypeOK
<1>2. JoinersKnown' BY DEF IInv, JoinersKnown
<1>3. DirectCall' BY DEF IInv, DirectCall, Among
<1>4. Dated' /\ SweepKnows' BY DEF IInv, Dated, SweepKnows, Replaces
<1> QED BY <1>1, <1>2, <1>3, <1>4 DEF IInv

\* The next document is dated, too.
LEMMA NextDated ==
  ASSUME IInv, NEW doc \in Document \cup {NoCall}, Becomes(doc), Follows(doc),
         deadlines' \in {deadlines, deadlines + 1}
  PROVE  Dated'
<1>1. deadlines \in Nat BY BoundsOK DEF IInv, TypeOK
<1>2. doc # NoCall => doc \in Document /\ doc.deadline \in Deadline BY DEF Document
<1>3. call # NoCall => call.deadline \in Deadline /\ call.deadline[2] <= deadlines
  BY DEF IInv, TypeOK, Dated, Document
<1>4. call' = doc /\ overdue' = (overdue /\ doc # NoCall /\ doc.deadline = call.deadline)
  BY DEF Becomes
<1>5. ASSUME doc # NoCall PROVE doc.deadline[2] <= deadlines'
  <2>1. doc.deadline \in Deadline BY <1>2, <1>5
  <2>2. deadlines <= deadlines' BY <1>1
  <2>3. CASE doc.deadline = NoDeadline BY <2>3, <1>1, DeadlineParts
  <2>4. CASE doc.deadline = Fresh /\ deadlines' = deadlines + 1
    BY <2>4, <1>1, DeadlineParts
  <2>5. CASE call # NoCall /\ doc.deadline \in {call.deadline, Grace(call.deadline)}
    <3>1. doc.deadline[2] = call.deadline[2] BY <2>5, <1>3, DeadlineParts
    <3>2. call.deadline[2] \in Nat BY <2>5, <1>3, DeadlineParts
    <3> QED BY <3>1, <3>2, <2>2, <2>5, <1>1, <1>3
  <2> QED BY <1>5, <2>3, <2>4, <2>5 DEF Follows
<1>6. overdue' => doc # NoCall /\ doc.deadline # NoDeadline BY <1>4 DEF IInv, Dated
<1> QED BY <1>4, <1>5, <1>6 DEF Dated

\* A deadline that was replaced does not come back with the next document.
LEMMA NextKnown ==
  ASSUME IInv, NEW doc \in Document \cup {NoCall}, Becomes(doc), Follows(doc),
         deadlines' \in {deadlines, deadlines + 1}, UNCHANGED sweep
  PROVE  SweepKnows'
<1> DEFINE e == sweep.doc.deadline
           thinks == sweep.phase \in {"call", "members"}
           late == sweep.late
<1>1. deadlines \in Nat BY BoundsOK DEF IInv, TypeOK
<1>2. thinks /\ late => sweep.doc \in Document /\ e # NoDeadline /\ e[2] <= deadlines
  BY DEF IInv, SweepKnows
<1>3. thinks /\ late => e \in Deadline BY <1>2 DEF Document
<1>4. call' = doc /\ overdue' = (overdue /\ doc # NoCall /\ doc.deadline = call.deadline)
  BY DEF Becomes
<1>5. call # NoCall =>
        /\ call.deadline \in Deadline
        /\ thinks /\ late => IF call.deadline = e THEN overdue ELSE Replaces(call.deadline, e)
  BY DEF IInv, SweepKnows, TypeOK, Document
<1> HIDE DEF e
<1>6. ASSUME thinks, late, doc # NoCall
      PROVE  IF doc.deadline = e THEN overdue' ELSE Replaces(doc.deadline, e)
  <2> e \in Deadline /\ e # NoDeadline /\ e[2] <= deadlines
    BY <1>2, <1>3, <1>6
  <2> e[2] \in Nat BY DeadlineParts
  <2> doc.deadline \in Deadline BY <1>6 DEF Document
  <2>1. CASE call # NoCall /\ doc.deadline = call.deadline BY <2>1, <1>4, <1>5, <1>6
  <2>2. CASE doc.deadline = NoDeadline BY <2>2 DEF Replaces
  <2>3. CASE doc.deadline = Fresh
    BY <2>3, <1>1, DeadlineParts DEF Replaces
  <2>4. CASE call # NoCall /\ call.phase = "ringing" /\ doc.deadline = Grace(call.deadline)
    <3> DEFINE d == call.deadline
    <3>1. d \in Deadline /\ d # NoDeadline
      BY <2>4, <1>5 DEF IInv, TypeOK
    <3>2. d[2] \in Nat /\ Grace(d)[1] = "grace" /\ Grace(d)[2] = d[2]
          /\ (d[1] = "timer" \/ d = Grace(d))
      <4> HIDE DEF d
      <4> QED BY <3>1, DeadlineParts
    <3>3. CASE d = Grace(d) BY <2>4, <3>3, <1>4, <1>5, <1>6
    <3>4. CASE d # Grace(d) /\ d = e BY <2>4, <3>2, <3>4 DEF Replaces
    <3>5. CASE d # Grace(d) /\ d # e
      <4>1. Replaces(d, e) BY <2>4, <3>5, <1>5, <1>6
      <4>2. d[2] > e[2] BY <3>1, <3>2, <3>5, <4>1 DEF Replaces
      <4>3. Grace(d) # e BY <4>2, <3>2
      <4> QED BY <2>4, <3>2, <4>2, <4>3 DEF Replaces
    <3> QED BY <3>3, <3>4, <3>5
  <2> QED BY <1>6, <2>1, <2>2, <2>3, <2>4 DEF Follows
<1>7. sweep' = sweep OBVIOUS
<1>8. sweep.phase \in {"call", "members"} => sweep.doc \in Document BY DEF IInv, SweepKnows
<1>9. thinks /\ late => e[2] <= deadlines'
  <2> SUFFICES ASSUME thinks, late PROVE e[2] <= deadlines' OBVIOUS
  <2>1. e[2] \in Nat BY <1>3, DeadlineParts
  <2>2. e[2] <= deadlines BY <1>2
  <2> QED BY <1>1, <2>1, <2>2
<1> QED BY <1>2, <1>4, <1>6, <1>7, <1>8, <1>9 DEF SweepKnows, e

\* Handlers that change the document, and only drop tasks.
LEMMA CallIInv ==
  ASSUME IInv, NEW doc \in Document \cup {NoCall}, Becomes(doc), Follows(doc),
         tasks' \subseteq tasks \cup Task, members' \subseteq User,
         \A t \in tasks' \ tasks : t.kind \in {"joining", "joined"} =>
           t.user \in User /\ (direct => t.user \in Pair),
         deadlines' \in 0..MaxDeadline, deadlines' \in {deadlines, deadlines + 1},
         doc # NoCall => Rings(doc) /\ Among(doc),
         UNCHANGED <<direct, recipients, sweep, joins>>
  PROVE  IInv'
<1> call' = doc /\ overdue' \in BOOLEAN BY DEF Becomes
<1>1. TypeOK' BY DEF IInv, TypeOK, Rings
<1>2. JoinersKnown' BY DEF IInv, JoinersKnown
<1>3. DirectCall' BY DEF IInv, DirectCall, Among
<1>4. Dated' BY NextDated
<1>5. SweepKnows' BY NextKnown
<1> QED BY <1>1, <1>2, <1>3, <1>4, <1>5 DEF IInv

\* A task that goes on keeps its user.
LEMMA TaskKinds ==
  ASSUME NEW t \in Task, NEW kind \in {"joined", "leaving", "left", "removing", "closed"}, NEW seen \in SUBSET User
  PROVE  /\ [t EXCEPT !.kind = kind] \in Task
         /\ [t EXCEPT !.kind = kind, !.seen = seen] \in Task
         /\ [t EXCEPT !.kind = kind, !.user = Nobody] \in Task
         /\ [t EXCEPT !.kind = kind].user = t.user
         /\ [t EXCEPT !.kind = kind].kind = kind
         /\ [t EXCEPT !.kind = kind, !.seen = seen].kind = kind
         /\ [t EXCEPT !.kind = kind, !.user = Nobody].kind = kind
  BY DEF Task

\* Joins, up to the change of the document.
LEMMA JoinIInv ==
  ASSUME IInv, (\E u \in User : ReadBefore(u)) \/ (\E t \in tasks : CommitJoin(t))
  PROVE  IInv'
<1>1. ASSUME NEW u \in User, ReadBefore(u) PROVE IInv'
  <2>1. [kind |-> "joining", user |-> u, seen |-> members] \in Task
    BY DEF IInv, TypeOK, Task
  <2>2. joins' \in 0..MaxJoins BY <1>1, BoundsOK DEF ReadBefore, IInv, TypeOK
  <2>3. tasks' = tasks \cup {[kind |-> "joining", user |-> u, seen |-> members]}
        /\ UNCHANGED <<direct, recipients, members, call, sweep, overdue, deadlines>>
    BY <1>1 DEF ReadBefore, Start
  <2>4. u \in User /\ (direct => u \in Pair) BY <1>1 DEF ReadBefore, IInv, DirectCall
  <2> QED BY <2>1, <2>2, <2>3, <2>4, QuietIInv DEF IInv, TypeOK
<1>2. ASSUME NEW t \in tasks, CommitJoin(t) PROVE IInv'
  <2> DEFINE next == [t EXCEPT !.kind = "joined"]
  <2>1. t \in Task /\ t.user \in User /\ (direct => t.user \in Pair)
    BY <1>2 DEF CommitJoin, IInv, TypeOK, JoinersKnown
  <2>2. next \in Task /\ next.user = t.user BY <2>1, TaskKinds
  <2>3. tasks' = (tasks \ {t}) \cup {next} /\ members' = members \cup {t.user}
        /\ UNCHANGED <<direct, recipients, call, sweep, overdue, deadlines, joins>>
    BY <1>2 DEF CommitJoin, Continue
  <2> HIDE DEF next
  <2> QED BY <2>1, <2>2, <2>3, QuietIInv DEF IInv, TypeOK
<1> QED BY <1>1, <1>2

\* Members leave; the handlers have not yet come to the document.
LEMMA LeaveIInv ==
  ASSUME IInv,
         \/ \E u \in User : DeleteMember(u) \/ LeaveGroup(u) \/ DeleteGroup(u)
         \/ \E t \in tasks : ReadRemaining(t) \/ TaskDies(t) \/ EmptyChannel(t)
                             \/ RemoveFromCall(t)
         \/ RoomFinished
  PROVE  IInv'
<1>1. ASSUME NEW u \in User, DeleteMember(u) PROVE IInv'
  <2> DEFINE n == [kind |-> "left", user |-> Nobody, seen |-> {}]
  <2>1. n \in Task /\ n.kind = "left" BY DEF Task
  <2>2. tasks' = tasks \cup {n} /\ members' = members \ {u}
        /\ UNCHANGED <<direct, recipients, call, sweep, overdue, deadlines, joins>>
    BY <1>1 DEF DeleteMember, Start
  <2> HIDE DEF n
  <2> QED BY <2>1, <2>2, QuietIInv DEF IInv, TypeOK
<1>2. ASSUME NEW u \in User, LeaveGroup(u) PROVE IInv'
  <2> DEFINE n == [kind |-> "removed", user |-> u, seen |-> {}]
  <2>1. n \in Task /\ n.kind = "removed" BY DEF Task
  <2>2. tasks' = tasks \cup {n}
        /\ ~direct /\ recipients' = recipients \ {u}
        /\ UNCHANGED <<direct, members, call, sweep, overdue, deadlines, joins>>
    BY <1>2 DEF LeaveGroup, Start
  <2> HIDE DEF n
  <2> QED BY <2>1, <2>2, QuietIInv DEF IInv, TypeOK
<1>3. ASSUME NEW t \in tasks, ReadRemaining(t) PROVE IInv'
  <2> DEFINE next == [t EXCEPT !.kind = "leaving", !.seen = members]
  <2>1. next \in Task /\ next.kind = "leaving"
    <3>1. t \in Task /\ members \in SUBSET User BY DEF IInv, TypeOK
    <3> QED BY <3>1 DEF Task
  <2>2. tasks' = (tasks \ {t}) \cup {next}
        /\ UNCHANGED <<direct, recipients, members, call, sweep, overdue, deadlines, joins>>
    BY <1>3 DEF ReadRemaining, Continue
  <2> HIDE DEF next
  <2> QED BY <2>1, <2>2, QuietIInv DEF IInv, TypeOK
<1>4. ASSUME NEW t \in tasks, TaskDies(t) PROVE IInv'
  BY <1>4, QuietIInv DEF TaskDies, Continue, IInv, TypeOK
<1>5. CASE RoomFinished
  <2> DEFINE n == [kind |-> "closed", user |-> Nobody, seen |-> {}]
  <2>1. n \in Task /\ n.kind = "closed" BY DEF Task
  <2>2. tasks' = tasks \cup {n} /\ members' = {}
        /\ UNCHANGED <<direct, recipients, call, sweep, overdue, deadlines, joins>>
    BY <1>5 DEF RoomFinished, Start
  <2> HIDE DEF n
  <2> QED BY <2>1, <2>2, QuietIInv DEF IInv, TypeOK
<1>6. ASSUME NEW t \in tasks, RemoveFromCall(t) PROVE IInv'
  <2> DEFINE next == [t EXCEPT !.kind = "left", !.user = Nobody]
  <2>1. next \in Task /\ next.kind = "left" BY TaskKinds DEF IInv, TypeOK
  <2>2. tasks' = (tasks \ {t}) \cup {next} \/ tasks' = tasks \ {t}
    BY <1>6 DEF RemoveFromCall, Continue
  <2>3. members' \subseteq User
        /\ UNCHANGED <<direct, recipients, call, sweep, overdue, deadlines, joins>>
    BY <1>6 DEF RemoveFromCall, IInv, TypeOK
  <2> HIDE DEF next
  <2> QED BY <2>1, <2>2, <2>3, QuietIInv DEF IInv, TypeOK
<1>7. ASSUME NEW t \in tasks, EmptyChannel(t) PROVE IInv'
  <2> DEFINE next == [t EXCEPT !.kind = "closed"]
  <2>1. next \in Task /\ next.kind = "closed" BY TaskKinds DEF IInv, TypeOK
  <2>2. tasks' = (tasks \ {t}) \cup {next} \/ tasks' = tasks \ {t}
    BY <1>7 DEF EmptyChannel, Continue
  <2>3. members' \subseteq User
        /\ UNCHANGED <<direct, recipients, call, sweep, overdue, deadlines, joins>>
    BY <1>7 DEF EmptyChannel
  <2> HIDE DEF next
  <2> QED BY <2>1, <2>2, <2>3, QuietIInv DEF IInv, TypeOK
<1>8. ASSUME NEW u \in User, DeleteGroup(u) PROVE IInv'
  <2> DEFINE n == [kind |-> "deleted", user |-> Nobody, seen |-> {}]
  <2>1. n \in Task /\ n.kind = "deleted" BY DEF Task
  <2>2. tasks' = tasks \cup {n} /\ ~direct /\ recipients' = {}
        /\ UNCHANGED <<direct, members, call, sweep, overdue, deadlines, joins>>
    BY <1>8 DEF DeleteGroup, Start
  <2> HIDE DEF n
  <2> QED BY <2>1, <2>2, QuietIInv DEF IInv, TypeOK
<1> QED BY <1>1, <1>2, <1>3, <1>4, <1>5, <1>6, <1>7, <1>8

\* A join answers the call or rings for a new one.
LEMMA ApplyJoinIInv == ASSUME IInv, NEW t \in tasks, ApplyJoin(t) PROVE IInv'
<1>1. /\ t.user \in User /\ (direct => t.user \in Pair) /\ tasks' = tasks \ {t}
      /\ UNCHANGED <<direct, recipients, members, sweep, joins>>
  BY DEF ApplyJoin, Continue, IInv, JoinersKnown
<1>2. CASE call # NoCall /\ Becomes(MarkActive) /\ deadlines' = deadlines
  <2> DEFINE doc == MarkActive
  <2>1. call \in Document BY <1>2 DEF IInv, TypeOK
  <2>2. doc \in Document /\ Rings(doc) /\ Among(doc) /\ doc.deadline = NoDeadline
    BY <1>2, <2>1, Deadlines DEF MarkActive, Document, Rings, Among, IInv, DirectCall
  <2>3. Becomes(doc) BY <1>2
  <2> HIDE DEF doc
  <2>4. Follows(doc) BY <1>2, <2>2 DEF Follows
  <2> QED BY <1>1, <1>2, <2>2, <2>3, <2>4, CallIInv DEF IInv, TypeOK
<1>3. CASE /\ deadlines < MaxDeadline /\ deadlines' = deadlines + 1
           /\ \E ringing \in (SUBSET (recipients \ {t.user})) \ {{}} :
                Becomes([started |-> deadlines + 1, phase |-> "ringing", initiator |-> t.user,
                         ringing |-> ringing, deadline |-> Fresh])
  <2>1. PICK ringing \in (SUBSET (recipients \ {t.user})) \ {{}} :
          Becomes([started |-> deadlines + 1, phase |-> "ringing", initiator |-> t.user,
                   ringing |-> ringing, deadline |-> Fresh])
    BY <1>3
  <2> DEFINE doc == [started |-> deadlines + 1, phase |-> "ringing", initiator |-> t.user,
                     ringing |-> ringing, deadline |-> Fresh]
  <2>2. deadlines + 1 \in 1..MaxDeadline BY <1>3, BoundsOK DEF IInv, TypeOK
  <2>3. Fresh \in Deadline /\ Fresh # NoDeadline BY <2>2, Deadlines DEF Fresh
  <2>4. ringing \subseteq User BY <2>1 DEF IInv, TypeOK
  <2>5. doc \in Document BY <1>1, <2>2, <2>3, <2>4 DEF Document
  <2>6. Rings(doc)
    <3>1. doc.initiator = t.user /\ doc.ringing = ringing /\ doc.deadline = Fresh
          /\ doc.phase = "ringing"
      OBVIOUS
    <3>2. ringing \notin {{}} OBVIOUS
    <3>3. ringing \subseteq recipients \ {t.user} OBVIOUS
    <3>4. ringing # {} BY <3>2
    <3>5. t.user \notin ringing BY <3>3
    <3> HIDE DEF doc
    <3> QED BY <2>3, <3>1, <3>4, <3>5 DEF Rings
  <2>7. Among(doc)
    <3>1. direct => ringing \subseteq Pair BY <2>1 DEF IInv, DirectCall
    <3> QED BY <1>1, <3>1 DEF Among
  <2>8. Becomes(doc) BY <2>1
  <2>9. doc.deadline = Fresh OBVIOUS
  <2> HIDE DEF doc
  <2>10. Follows(doc) BY <1>3, <2>9 DEF Follows
  <2>11. deadlines' \in 0..MaxDeadline BY <1>3, <2>2
  <2> QED BY <1>1, <1>3, <2>5, <2>6, <2>7, <2>8, <2>10, <2>11, CallIInv DEF IInv, TypeOK
<1>4. CASE UNCHANGED <<call, overdue, deadlines>> BY <1>1, <1>4, QuietIInv DEF IInv, TypeOK
<1> QED BY <1>2, <1>3, <1>4 DEF ApplyJoin

\* A leave ends the call of an empty channel, or gives it a deadline.
LEMMA ApplyLeaveIInv == ASSUME IInv, NEW t \in tasks, ApplyLeave(t) PROVE IInv'
<1>1. /\ tasks' = tasks \ {t}
      /\ UNCHANGED <<direct, recipients, members, sweep, joins>>
  BY DEF ApplyLeave, Continue
<1>2. CASE Becomes(NoCall) /\ deadlines' = deadlines
  BY <1>1, <1>2, CallIInv DEF Follows, IInv, TypeOK
<1>3. CASE /\ call # NoCall /\ StartsDeadline(t) /\ deadlines < MaxDeadline
           /\ Becomes([call EXCEPT !.deadline = Fresh]) /\ deadlines' = deadlines + 1
  <2> DEFINE doc == [call EXCEPT !.deadline = Fresh]
  <2>1. deadlines + 1 \in 1..MaxDeadline BY <1>3, BoundsOK DEF IInv, TypeOK
  <2>2. Fresh \in Deadline BY <2>1, Deadlines DEF Fresh
  <2>3. call \in Document /\ call.phase = "active" /\ call.ringing = {}
    BY <1>3 DEF StartsDeadline, IInv, TypeOK
  <2>4. doc \in Document /\ Rings(doc) /\ Among(doc) /\ doc.deadline = Fresh
    BY <1>3, <2>2, <2>3 DEF Document, Rings, Among, IInv, DirectCall
  <2>5. Becomes(doc) BY <1>3
  <2> HIDE DEF doc
  <2>6. Follows(doc) BY <1>3, <2>4 DEF Follows
  <2> QED BY <1>1, <1>3, <2>1, <2>4, <2>5, <2>6, CallIInv DEF IInv, TypeOK
<1>4. CASE UNCHANGED <<call, overdue, deadlines>> BY <1>1, <1>4, QuietIInv DEF IInv, TypeOK
<1> QED BY <1>2, <1>3, <1>4 DEF ApplyLeave

\* The call ends with its room, by its initiator, or goes on without the callee.
LEMMA RoutesIInv ==
  ASSUME IInv,
         \/ \E u \in User : CancelCall(u) \/ DeclineCall(u)
         \/ \E t \in tasks : ApplyRoomFinished(t)
  PROVE  IInv'
<1>1. ASSUME NEW u \in User, CancelCall(u) PROVE IInv'
  <2>1. [kind |-> "cancelled", user |-> Nobody, seen |-> {}] \in Task BY DEF Task
  <2> QED BY <1>1, <2>1, CallIInv DEF CancelCall, Start, Follows, IInv, TypeOK
<1>2. ASSUME NEW u \in User, DeclineCall(u) PROVE IInv'
  <2>1. /\ direct /\ call # NoCall /\ call.phase = "ringing" /\ u \in call.ringing
        /\ deadlines < MaxDeadline /\ deadlines' = deadlines + 1
        /\ Becomes([call EXCEPT !.phase = "active", !.deadline = Fresh, !.ringing = @ \ {u}])
        /\ UNCHANGED <<direct, recipients, members, tasks, sweep, joins>>
    BY <1>2 DEF DeclineCall
  <2>2. deadlines + 1 \in 1..MaxDeadline BY <2>1, BoundsOK DEF IInv, TypeOK
  <2>3. Fresh \in Deadline BY <2>2, Deadlines DEF Fresh
  <2>4. call \in Document /\ Rings(call) /\ Among(call)
    BY <2>1 DEF IInv, TypeOK, Rings, DirectCall
  <2>5. call.ringing \ {u} = {}
    <3>1. call.initiator \in Pair /\ call.ringing \subseteq Pair
          /\ call.initiator \notin call.ringing
      BY <2>1, <2>4 DEF Among, Rings
    <3> QED BY <2>1, <3>1, BoundsOK
  <2> DEFINE doc == [call EXCEPT !.phase = "active", !.deadline = Fresh, !.ringing = {}]
  <2>6. [call EXCEPT !.phase = "active", !.deadline = Fresh, !.ringing = @ \ {u}] = doc
    BY <2>1, <2>4, <2>5 DEF Document
  <2>7. doc \in Document /\ doc.deadline = Fresh BY <2>3, <2>4 DEF Document
  <2>8. Rings(doc) /\ Among(doc) BY <2>4 DEF Document, Rings, Among
  <2> HIDE DEF doc
  <2>9. Becomes(doc) BY <2>1, <2>6
  <2>10. Follows(doc) BY <2>1, <2>7 DEF Follows
  <2> QED BY <2>1, <2>2, <2>7, <2>8, <2>9, <2>10, CallIInv DEF IInv, TypeOK
<1>3. ASSUME NEW t \in tasks, ApplyRoomFinished(t) PROVE IInv'
  BY <1>3, CallIInv DEF ApplyRoomFinished, Continue, Follows, IInv, TypeOK
<1> QED BY <1>1, <1>2, <1>3

\* The member who leaves a group rings no more.
LEMMA RemoveIInv == ASSUME IInv, NEW t \in tasks, StopRingingRemoved(t) PROVE IInv'
<1>1. /\ members' \subseteq User /\ tasks' \subseteq tasks \cup Task
      /\ \A n \in tasks' \ tasks : n.kind \notin {"joining", "joined"}
      /\ UNCHANGED <<direct, recipients, members, sweep, deadlines, joins>>
  <2> DEFINE next == [t EXCEPT !.kind = "removing"]
  <2>1. next \in Task /\ next.kind = "removing" BY TaskKinds DEF IInv, TypeOK
  <2>2. tasks' = (tasks \ {t}) \cup {next}
    BY DEF StopRingingRemoved, Continue
  <2>3. /\ members' \subseteq User
        /\ UNCHANGED <<direct, recipients, members, sweep, deadlines, joins>>
    BY DEF StopRingingRemoved, IInv, TypeOK
  <2> HIDE DEF next
  <2> QED BY <2>1, <2>2, <2>3
<1>2. CASE UNCHANGED <<call, overdue>> BY <1>1, <1>2, QuietIInv DEF IInv, TypeOK
<1>3. CASE /\ call # NoCall /\ call.phase = "ringing" /\ t.user \in call.ringing
           /\ Becomes(StopRinging(t.user))
  <2>1. call \in Document /\ Rings(call) /\ Among(call)
    BY <1>3 DEF IInv, TypeOK, Rings, DirectCall
  <2>2. Grace(call.deadline) \in Deadline
    BY <1>3, <2>1, Deadlines DEF Document, Rings
  <2>3. CASE call.ringing = {t.user}
    <3> DEFINE doc == [call EXCEPT !.ringing = {}, !.phase = "active",
                                   !.deadline = Grace(call.deadline)]
    <3>1. StopRinging(t.user) = doc BY <1>3, <2>1, <2>3 DEF StopRinging, Document
    <3>2. doc \in Document /\ Rings(doc) /\ Among(doc) /\ doc.deadline = Grace(call.deadline)
      BY <2>1, <2>2 DEF Document, Rings, Among
    <3> HIDE DEF doc
    <3>3. Becomes(doc) /\ Follows(doc) BY <1>3, <3>1, <3>2 DEF Follows
    <3> QED BY <1>1, <3>2, <3>3, CallIInv DEF IInv, TypeOK
  <2>4. CASE call.ringing # {t.user}
    <3> DEFINE doc == [call EXCEPT !.ringing = call.ringing \ {t.user}]
    <3>1. StopRinging(t.user) = doc BY <1>3, <2>1, <2>4 DEF StopRinging, Document
    <3>2. call.ringing \ {t.user} # {} BY <1>3, <2>4
    <3>3. doc \in Document /\ Rings(doc) /\ Among(doc) /\ doc.deadline = call.deadline
      BY <1>3, <2>1, <3>2 DEF Document, Rings, Among
    <3> HIDE DEF doc
    <3>4. Becomes(doc) /\ Follows(doc) BY <1>3, <3>1, <3>3 DEF Follows
    <3> QED BY <1>1, <3>3, <3>4, CallIInv DEF IInv, TypeOK
  <2> QED BY <2>3, <2>4
<1> QED BY <1>2, <1>3 DEF StopRingingRemoved

\* What the sweep makes of a document is one, or none.
LEMMA ExpiredIsCall ==
  ASSUME IInv, sweep.phase = "members", call = sweep.doc
  PROVE  /\ Expired(sweep) \in Document \cup {NoCall}
         /\ Expired(sweep) # NoCall => Rings(Expired(sweep)) /\ Among(Expired(sweep))
         /\ ~Ends(sweep) => Expired(sweep) \in Document
         /\ Follows(Expired(sweep))
<1>1. call \in Document /\ Rings(call) /\ Among(call)
  BY NoCallOK DEF IInv, TypeOK, Rings, DirectCall, SweepKnows
<1>2. call.phase = "ringing" => Grace(call.deadline) \in Deadline
  BY <1>1, Deadlines DEF Document, Rings
<1> call # NoCall BY <1>1, NoCallOK
<1>3. CASE Ends(sweep) BY <1>3 DEF Expired, Follows
<1>4. CASE ~Ends(sweep) /\ ~sweep.late BY <1>1, <1>4 DEF Expired, Follows
<1>5. CASE ~Ends(sweep) /\ sweep.late /\ call.phase = "active"
  <2>1. Expired(sweep) = [call EXCEPT !.deadline = NoDeadline] BY <1>5 DEF Expired
  <2>2. [call EXCEPT !.deadline = NoDeadline] \in Document BY <1>1, Deadlines DEF Document
  <2>3. Rings(Expired(sweep)) /\ Among(Expired(sweep))
    BY <1>1, <1>5, <2>1 DEF Document, Rings, Among
  <2>4. Expired(sweep).deadline = NoDeadline BY <1>1, <2>1 DEF Document
  <2>5. Follows(Expired(sweep)) BY <2>4 DEF Follows
  <2> QED BY <2>1, <2>2, <2>3, <2>5
<1>6. CASE ~Ends(sweep) /\ sweep.late /\ call.phase # "active"
  <2>1. Expired(sweep)
          = [call EXCEPT !.phase = "active", !.deadline = Grace(call.deadline), !.ringing = {}]
    BY <1>1, <1>6 DEF Expired, Document
  <2>2. call.phase = "ringing" BY <1>1, <1>6 DEF Document
  <2>3. Expired(sweep) \in Document BY <1>1, <1>2, <2>1, <2>2 DEF Document
  <2>4. Rings(Expired(sweep)) /\ Among(Expired(sweep))
    BY <1>1, <2>1 DEF Document, Rings, Among
  <2>5. Expired(sweep).deadline = Grace(call.deadline) BY <1>1, <2>1 DEF Document
  <2>6. Follows(Expired(sweep)) BY <2>2, <2>5 DEF Follows
  <2> QED BY <2>3, <2>4, <2>6
<1> QED BY <1>3, <1>4, <1>5, <1>6

\* The cron daemon's visit.
LEMMA SweepIInv == ASSUME IInv, Sweep PROVE IInv'
<1>1. UNCHANGED <<direct, recipients, tasks, deadlines, joins>>
  BY DEF Sweep, SweepReadsCall, SweepReadsMembers, SweepDecides, SweepDeletes
<1>2. /\ call' \in Document \cup {NoCall} /\ overdue' \in BOOLEAN
      /\ call' # NoCall => Rings(call') /\ Among(call')
      /\ Dated'
  <2>1. CASE SweepDecides /\ call = sweep.doc
    <3>1. Becomes(Expired(sweep)) /\ sweep.phase = "members" BY <2>1 DEF SweepDecides
    <3>2. /\ Expired(sweep) \in Document \cup {NoCall} /\ Follows(Expired(sweep))
          /\ Expired(sweep) # NoCall => Rings(Expired(sweep)) /\ Among(Expired(sweep))
      BY <2>1, <3>1, ExpiredIsCall
    <3>3. Dated' BY <1>1, <3>1, <3>2, NextDated
    <3> QED BY <3>1, <3>2, <3>3 DEF Becomes
  <2>2. CASE UNCHANGED <<call, overdue>>
    BY <1>1, <2>2 DEF IInv, TypeOK, Rings, DirectCall, Dated
  <2> QED BY <2>1, <2>2 DEF Sweep, SweepReadsCall, SweepReadsMembers, SweepDecides, SweepDeletes
<1>3. members' \subseteq User
  BY DEF Sweep, SweepReadsCall, SweepReadsMembers, SweepDecides, SweepDeletes, IInv, TypeOK
<1>4. /\ sweep' \in [phase : {"idle", "call", "members", "delete"}, doc : Document \cup {NoCall},
                     late : BOOLEAN, seen : SUBSET User]
      /\ SweepKnows'
  <2>1. CASE SweepReadsCall
    <3>1. call \in Document BY <2>1 DEF SweepReadsCall, IInv, TypeOK
    <3>2. sweep' = [phase |-> "call", doc |-> call, late |-> overdue, seen |-> {}]
          /\ UNCHANGED <<call, overdue>>
      BY <2>1 DEF SweepReadsCall
    <3>3. overdue \in BOOLEAN BY DEF IInv, TypeOK
    <3>4. sweep'.doc = call /\ sweep'.late = overdue /\ sweep'.phase = "call" BY <3>2
    <3>5. SweepKnows' BY <1>1, <3>1, <3>2, <3>4 DEF SweepKnows, IInv, Dated
    <3> QED BY <3>1, <3>2, <3>3, <3>5
  <2>2. CASE SweepReadsMembers
    <3>1. sweep' = [sweep EXCEPT !.phase = "members", !.seen = members]
          /\ UNCHANGED <<call, overdue>> /\ sweep.phase = "call"
      BY <2>2 DEF SweepReadsMembers
    <3>2. sweep' \in [phase : {"idle", "call", "members", "delete"}, doc : Document \cup {NoCall},
                      late : BOOLEAN, seen : SUBSET User]
          /\ sweep'.doc = sweep.doc /\ sweep'.late = sweep.late
      BY <3>1 DEF IInv, TypeOK
    <3>3. SweepKnows' BY <1>1, <3>1, <3>2 DEF IInv, SweepKnows, Replaces
    <3> QED BY <3>2, <3>3
  <2>3. CASE SweepDecides \/ SweepDeletes
    <3>1. sweep' = Idle \/ sweep' = [Idle EXCEPT !.phase = "delete"]
      BY <2>3 DEF SweepDecides, SweepDeletes
    <3>2. \E phase \in {"idle", "delete"} :
            sweep' = [phase |-> phase, doc |-> NoCall, late |-> FALSE, seen |-> {}]
      BY <3>1 DEF Idle
    <3> QED BY <3>2 DEF SweepKnows
  <2> QED BY <2>1, <2>2, <2>3 DEF Sweep
<1>5. TypeOK' BY <1>1, <1>2, <1>3, <1>4 DEF IInv, TypeOK, Rings
<1>6. JoinersKnown' BY <1>1 DEF IInv, JoinersKnown
<1>7. DirectCall' BY <1>1, <1>2 DEF IInv, DirectCall, Among
<1> QED BY <1>2, <1>4, <1>5, <1>6, <1>7 DEF IInv

\* Every step keeps the invariant.
LEMMA StepIInv == ASSUME IInv, [Next]_vars PROVE IInv'
<1>1. ASSUME NEW u \in User,
             ReadBefore(u) \/ DeleteMember(u) \/ CancelCall(u) \/ DeclineCall(u) \/ LeaveGroup(u)
             \/ DeleteGroup(u)
      PROVE  IInv'
  BY <1>1, JoinIInv, LeaveIInv, RoutesIInv
<1>2. ASSUME NEW t \in tasks,
             CommitJoin(t) \/ ReadRemaining(t) \/ TaskDies(t) \/ EmptyChannel(t)
             \/ RemoveFromCall(t)
      PROVE  IInv'
  BY <1>2, JoinIInv, LeaveIInv
<1>3. ASSUME NEW t \in tasks,
             ApplyJoin(t) \/ ApplyLeave(t) \/ ApplyRoomFinished(t) \/ StopRingingRemoved(t)
      PROVE  IInv'
  BY <1>3, ApplyJoinIInv, ApplyLeaveIInv, RoutesIInv, RemoveIInv
<1>4. CASE RoomFinished BY <1>4, LeaveIInv
<1>5. CASE Sweep BY <1>5, SweepIInv
<1>6. CASE TimePasses
  <2>1. /\ overdue' = TRUE /\ call # NoCall /\ call.deadline # NoDeadline
        /\ UNCHANGED <<direct, recipients, members, call, tasks, sweep, deadlines, joins>>
    BY <1>6 DEF TimePasses
  <2>2. TypeOK' BY <2>1 DEF IInv, TypeOK
  <2>3. JoinersKnown' /\ DirectCall' BY <2>1 DEF IInv, JoinersKnown, DirectCall, Among
  <2>4. Dated' /\ SweepKnows' BY <2>1 DEF IInv, Dated, SweepKnows, Replaces
  <2> QED BY <2>2, <2>3, <2>4 DEF IInv
<1>7. CASE UNCHANGED vars
  BY <1>7, QuietIInv DEF vars, IInv, TypeOK
<1> QED BY <1>1, <1>2, <1>3, <1>4, <1>5, <1>6, <1>7 DEF Next

\* The invariant holds in every state that can be reached.
THEOREM CallIInvariant == Spec => []IInv
<1>1. Init => IInv BY InitIInv
<1>2. IInv /\ [Next]_vars => IInv' BY StepIInv
<1> QED BY <1>1, <1>2, PTL DEF Spec

\* A call that rings rings somebody other than its initiator and has a deadline, and
\* an active call rings nobody, whichever handlers and sweeps cross.
THEOREM CallTypeOK == Spec => []TypeOK
<1>1. IInv => TypeOK BY DEF IInv
<1> QED BY <1>1, CallIInvariant, PTL

\* The sweep ends a call in which it saw members only when the deadline the call has
\* now is over: its document is compared with the one that was found overdue.
THEOREM CallOnlyOverdue == Spec => OnlyOverdue
<1> DEFINE A == sweep.phase = "members" /\ sweep' # sweep /\ sweep.seen # {} /\ call # NoCall
                /\ call' = NoCall => overdue
<1>1. ASSUME IInv, [Next]_vars PROVE [A]_vars
  <2> SUFFICES ASSUME sweep.phase = "members", sweep' # sweep, sweep.seen # {}, call # NoCall,
                      call' = NoCall
               PROVE  overdue
    OBVIOUS
  <2>1. SweepDecides
    <3>1. ASSUME NEW u \in User,
                 ReadBefore(u) \/ DeleteMember(u) \/ CancelCall(u) \/ DeclineCall(u)
                 \/ LeaveGroup(u) \/ DeleteGroup(u)
          PROVE  sweep' = sweep
      BY <3>1 DEF ReadBefore, DeleteMember, CancelCall, DeclineCall, LeaveGroup, DeleteGroup
    <3>2. ASSUME NEW t \in tasks,
                 CommitJoin(t) \/ ApplyJoin(t) \/ ReadRemaining(t) \/ ApplyLeave(t)
                 \/ ApplyRoomFinished(t) \/ TaskDies(t) \/ EmptyChannel(t)
                 \/ StopRingingRemoved(t) \/ RemoveFromCall(t)
          PROVE  sweep' = sweep
      BY <3>2 DEF CommitJoin, ApplyJoin, ReadRemaining, ApplyLeave, ApplyRoomFinished, TaskDies,
                  EmptyChannel, StopRingingRemoved, RemoveFromCall
    <3>3. RoomFinished \/ TimePasses \/ UNCHANGED vars => sweep' = sweep
      BY DEF RoomFinished, TimePasses, vars
    <3>4. CASE Sweep BY <3>4 DEF Sweep, SweepReadsCall, SweepReadsMembers, SweepDeletes
    <3> QED BY <1>1, <3>1, <3>2, <3>3, <3>4 DEF Next
  <2>2. call = sweep.doc /\ call' = Expired(sweep) BY <2>1 DEF SweepDecides, Becomes
  <2>3. Ends(sweep) BY <1>1, <2>2, ExpiredIsCall, NoCallOK
  <2>4. sweep.late BY <2>3 DEF Ends
  <2> QED BY <1>1, <2>2, <2>4 DEF IInv, SweepKnows
<1> QED BY <1>1, CallIInvariant, PTL DEF Spec, OnlyOverdue
=============================================================================
