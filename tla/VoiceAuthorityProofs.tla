------------------------ MODULE VoiceAuthorityProofs ------------------------
(***************************************************************************)
(* VoiceAuthority for any sets of operations, channels and handlers.  The  *)
(* invariants speak of the records only; what makes them inductive is what *)
(* every running handler may rely on at each of its steps (Claim).         *)
(***************************************************************************)
EXTENDS VoiceAuthority, TLAPS

\* What a handler in state r holds; C are the connections LiveKit has seen.
Claim(r, C) ==
  /\ r.next \in {"idle", "credentials", "publish", "announce", "remove"}
  /\ r.pc \in {"prepare", "move", "lease", "credentials"} \/ r.next = "credentials" => r.op \in Op
  /\ r.pc \in {"find", "commit"} => [op |-> r.op, n |-> r.n] \in C
  /\ r.pc = "commit" => r.rec \in Reservation /\ r.rec.op = r.op
  /\ r.pc = "cancel_exact" => r.rec \in Reservation
  /\ r.pc \in {"delete", "left"} => r.seen \in Op

JobsOK == job \in [Job -> JobState] /\ \A j \in Job : Claim(job[j], conns)

DataOK ==
  /\ reservation \in Reservation \cup {None}
  /\ session \in Conn \cup {None}
  /\ cleanups \subseteq Op /\ issued \subseteq Op
  /\ told \in Op \cup {None}
  /\ conns \subseteq Conn /\ room \subseteq conns
  /\ minted \subseteq Op /\ again \subseteq Op /\ settled \subseteq Op /\ lapsed \subseteq Op

RecordsOK == DataOK /\ Anchored /\ RetiredTracked

IInv == JobsOK /\ RecordsOK

-----------------------------------------------------------------------------
(* What handlers read. *)

LEMMA ReadTypes ==
  ASSUME DataOK
  PROVE  /\ SessionOp \in Op \cup {None} /\ Authority \in Op \cup {None}
         /\ Anchor \in Op \cup {None}
         /\ session # None => SessionOp \in Op
         /\ reservation # None => reservation.op \in Op
  BY NoneAssumption DEF DataOK, SessionOp, Authority, Anchor, Reservation, Conn

LEMMA IdleOK == Idle \in JobState /\ \A C : Claim(Idle, C)
<1>1. Idle \in JobState
  BY BoundAssumption DEF Idle, JobState, PC
<1> QED
  BY <1>1 DEF Idle, Claim

-----------------------------------------------------------------------------
(* One handler takes a step. *)

LEMMA BecomeOK ==
  ASSUME JobsOK, conns \subseteq conns', NEW j \in Job, NEW r \in JobState,
         Claim(r, conns'), Become(j, r)
  PROVE  JobsOK'
<1>1. job' \in [Job -> JobState] /\ job'[j] = r /\ \A k \in Job \ {j} : job'[k] = job[k]
  BY DEF JobsOK, Become
<1>2. \A k \in Job \ {j} : Claim(job[k], conns')
  BY DEF JobsOK, Claim
<1> QED
  BY <1>1, <1>2 DEF JobsOK

\* A step that leaves the records alone.
LEMMA RecordsKept ==
  ASSUME RecordsOK, UNCHANGED <<redis, history>>,
         told' \in Op \cup {None}, issued' \subseteq Op, conns' \subseteq Conn, room' \subseteq conns'
  PROVE  RecordsOK'
  BY DEF RecordsOK, DataOK, Anchored, RetiredTracked, SessionOp, redis, history

LEMMA PlainStep ==
  ASSUME IInv, NEW j \in Job, NEW r \in JobState, Claim(r, conns), Become(j, r),
         UNCHANGED <<redis, history, conns>>,
         told' \in Op \cup {None}, issued' \subseteq Op, room' \subseteq conns
  PROVE  IInv'
<1>1. JobsOK'
  BY BecomeOK DEF IInv
<1>2. RecordsOK'
  BY RecordsKept DEF IInv, RecordsOK, DataOK
<1> QED
  BY <1>1, <1>2 DEF IInv

\* What a handler that has finished a shared piece of code becomes.
LEMMA ContinueOK ==
  ASSUME NEW j \in Job, Continue(j), job[j] \in JobState, Claim(job[j], conns)
  PROVE  \E r \in JobState : Claim(r, conns) /\ Become(j, r)
<1> DEFINE r == [job[j] EXCEPT !.pc = job[j].next]
<1>1. r \in JobState /\ Claim(r, conns)
  BY DEF Claim, JobState
<1>2. Become(j, Idle) \/ Become(j, r)
  BY DEF Continue, Finish, Goto, Become
<1> HIDE DEF r
<1> QED
  BY <1>1, <1>2, IdleOK

-----------------------------------------------------------------------------
(* The scripts. *)

LEMMA PrepareOK ==
  ASSUME RecordsOK, NEW o \in Op, NEW e, CanPrepare(o, e), PrepareReservation(o),
         UNCHANGED <<told, issued, livekit, settled, lapsed>>
  PROVE  RecordsOK'
<1> USE DEF RecordsOK, livekit
<1>1. reservation' \in Reservation /\ reservation'.op = o /\ reservation'.after = SessionOp
  BY ReadTypes DEF CanPrepare, PrepareReservation, Reservation
<1>2. reservation' # None /\ SessionOp' = SessionOp
  BY <1>1, NoneAssumption DEF PrepareReservation, SessionOp
<1>3. cleanups' \subseteq Op /\ cleanups \subseteq cleanups' /\ minted' = minted \cup {o}
  BY ReadTypes DEF PrepareReservation, DataOK
<1>4. DataOK'
  BY <1>1, <1>3 DEF PrepareReservation, DataOK
<1>5. Anchored'
  BY <1>1, <1>2 DEF Anchored
<1>6. reservation # None /\ reservation.op # o => reservation.op \in cleanups'
  BY DEF PrepareReservation
<1>7. RetiredTracked'
  BY <1>1, <1>2, <1>3, <1>6 DEF RetiredTracked
<1> QED
  BY <1>4, <1>5, <1>7

LEMMA DeleteReservationOK ==
  ASSUME RecordsOK, reservation # None, DeleteReservation(reservation),
         UNCHANGED <<told, issued, livekit, history>>
  PROVE  RecordsOK'
<1> USE DEF RecordsOK, livekit, history
<1>1. reservation.op \in Op
  BY ReadTypes
<1>2. DataOK' /\ Anchored'
  BY <1>1 DEF DeleteReservation, DataOK, Anchored
<1>3. RetiredTracked'
  BY DEF DeleteReservation, RetiredTracked, SessionOp
<1> QED
  BY <1>2, <1>3

LEMMA CommitOK ==
  ASSUME RecordsOK, NEW rec \in Reservation, NEW n, [op |-> rec.op, n |-> n] \in conns,
         CanCommit(rec), CommitJoin(rec, n), UNCHANGED <<told, issued, livekit, history>>
  PROVE  RecordsOK'
<1> USE DEF RecordsOK, livekit, history
<1>1. reservation = rec /\ reservation # None /\ SessionOp = rec.after
  BY NoneAssumption DEF CanCommit
<1>2. session' \in Conn /\ session' # None /\ session'.op = rec.op
  BY NoneAssumption DEF CommitJoin, DataOK
<1>3. cleanups' \subseteq Op /\ cleanups \subseteq cleanups'
  BY DEF CommitJoin, DataOK, Reservation
<1>4. DataOK' /\ Anchored'
  BY <1>2, <1>3 DEF CommitJoin, DataOK, Anchored
<1>5. SessionOp \in {None, SessionOp'} \cup cleanups' /\ SessionOp' = rec.op
  BY <1>1, <1>2 DEF CommitJoin, SessionOp
<1>6. RetiredTracked'
  BY <1>1, <1>3, <1>5, NoneAssumption DEF RetiredTracked, DataOK
<1> QED
  BY <1>4, <1>6

LEMMA DeleteSessionOK ==
  ASSUME RecordsOK, NEW o \in Op, CanDeleteSession(o), DeleteSession(o),
         UNCHANGED <<told, issued, livekit, history>>
  PROVE  RecordsOK'
<1> USE DEF RecordsOK, livekit, history
<1>1. SessionOp = o /\ reservation = None /\ reservation' = None
  BY DEF CanDeleteSession, DeleteSession
<1>2. DataOK' /\ Anchored'
  BY <1>1 DEF DeleteSession, DataOK, Anchored
<1>3. RetiredTracked'
  BY <1>1 DEF DeleteSession, RetiredTracked
<1> QED
  BY <1>2, <1>3

-----------------------------------------------------------------------------
LEMMA InitIInv == Init => IInv
<1> SUFFICES ASSUME Init PROVE IInv
  OBVIOUS
<1>1. JobsOK
  BY IdleOK DEF Init, JobsOK
<1>2. RecordsOK
  BY DEF Init, RecordsOK, DataOK, Anchored, RetiredTracked
<1> QED
  BY <1>1, <1>2 DEF IInv

(* One lemma for the handlers' steps that leave the records alone ... *)

LEMMA JoinSteps ==
  ASSUME IInv, NEW j \in Job,
         \/ \E o \in ClientOp : BeginJoin(j, o)
         \/ ListCleanups(j) \/ \E o \in Op : RetireTransport(j, o) \/ RetireFails(j, o)
         \/ RetireDone(j) \/ IssueCredentials(j) \/ Publish(j) \/ Kick(j)
  PROVE  IInv'
<1> USE DEF livekit
<1>0. /\ job[j] \in JobState /\ Claim(job[j], conns)
      /\ SessionOp \in Op \cup {None} /\ Authority \in Op \cup {None}
      /\ cleanups \subseteq Op /\ issued \subseteq Op /\ told \in Op \cup {None} /\ room \subseteq conns
  BY ReadTypes DEF IInv, JobsOK, RecordsOK, DataOK
<1>1. ASSUME NEW o \in ClientOp, BeginJoin(j, o) PROVE IInv'
  <2> DEFINE r == [Idle EXCEPT !.pc = "prepare", !.op = o, !.seen = Authority]
  <2>0. o \in Op
    BY DEF Op
  <2>1. r \in JobState
    BY <1>0, <2>0, IdleOK DEF JobState, PC
  <2>2. Claim(r, conns)
    BY <2>0 DEF Claim, Idle
  <2>3. Become(j, r)
    BY <1>1 DEF BeginJoin
  <2> HIDE DEF r
  <2> QED
    BY <1>0, <1>1, <2>1, <2>2, <2>3, PlainStep DEF BeginJoin
<1>2. ASSUME ListCleanups(j) PROVE IInv'
  <2> DEFINE r == [job[j] EXCEPT !.pc = "retire", !.ops = cleanups]
  <2>0. r \in JobState
    BY <1>0 DEF JobState, PC
  <2>1. r \in JobState /\ Claim(r, conns)
    BY <1>0, <2>0 DEF Claim, JobState
  <2>2. Become(j, r)
    BY <1>2 DEF ListCleanups
  <2> HIDE DEF r
  <2> QED
    BY <1>0, <1>2, <2>1, <2>2, PlainStep DEF ListCleanups
<1>3. ASSUME NEW o \in Op, RetireTransport(j, o) PROVE IInv'
  <2> DEFINE r == [job[j] EXCEPT !.pc = "complete", !.seen = o]
  <2>0. r \in JobState
    BY <1>0 DEF JobState, PC
  <2>1. r \in JobState /\ Claim(r, conns)
    BY <1>0, <2>0 DEF Claim, JobState
  <2>2. Become(j, r)
    BY <1>3 DEF RetireTransport
  <2> HIDE DEF r
  <2> QED
    BY <1>0, <1>3, <2>1, <2>2, PlainStep DEF RetireTransport
<1>4. ASSUME NEW o \in Op, RetireFails(j, o) PROVE IInv'
  <2> DEFINE r == [job[j] EXCEPT !.ops = @ \ {o}]
  <2>1. r \in JobState /\ Claim(r, conns)
    BY <1>0 DEF Claim, JobState, PC
  <2>2. Become(j, Idle) \/ Become(j, r)
    BY <1>4 DEF RetireFails, Finish
  <2> HIDE DEF r
  <2> QED
    BY <1>0, <1>4, <2>1, <2>2, PlainStep, IdleOK DEF RetireFails
<1>5. ASSUME RetireDone(j) PROVE IInv'
  BY <1>0, <1>5, ContinueOK, PlainStep DEF RetireDone
<1>6. ASSUME IssueCredentials(j) PROVE IInv'
  <2> DEFINE r == [Idle EXCEPT !.pc = "publish"]
  <2>1. r \in JobState /\ Claim(r, conns)
    BY IdleOK DEF Claim, JobState, PC, Idle
  <2>2. Become(j, r) /\ issued' = issued \cup {job[j].op} /\ job[j].op \in Op
    BY <1>0, <1>6 DEF IssueCredentials, At, Claim
  <2> HIDE DEF r
  <2> QED
    BY <1>0, <1>6, <2>1, <2>2, PlainStep DEF IssueCredentials
<1>7. ASSUME Publish(j) PROVE IInv'
  <2> DEFINE r == [job[j] EXCEPT !.pc = "kick"]
  <2>1. r \in JobState /\ Claim(r, conns)
    BY <1>0 DEF Claim, JobState, PC
  <2>2. Become(j, Idle) \/ Become(j, r)
    BY <1>7 DEF Publish, Finish, Goto, Become
  <2>3. told' \in Op \cup {None}
    BY <1>0, <1>7 DEF Publish, AuthoritativeMembership
  <2> HIDE DEF r
  <2> QED
    BY <1>0, <1>7, <2>1, <2>2, <2>3, PlainStep, IdleOK DEF Publish
<1>8. ASSUME Kick(j) PROVE IInv'
  <2>1. Become(j, Idle) /\ room' \subseteq room
    BY <1>8 DEF Kick, Finish
  <2> QED
    BY <1>0, <1>8, <2>1, PlainStep, IdleOK DEF Kick
<1> QED
  BY <1>1, <1>2, <1>3, <1>4, <1>5, <1>6, <1>7, <1>8

LEMMA JoinRecords ==
  ASSUME IInv, NEW j \in Job, JoinPrepare(j) \/ CompleteCleanup(j) \/ CancelExact(j)
  PROVE  IInv'
<1> USE DEF livekit, history, redis
<1>0. job[j] \in JobState /\ Claim(job[j], conns)
  BY DEF IInv, JobsOK
<1>1. ASSUME JoinPrepare(j) PROVE IInv'
  <2>0. job[j].op \in Op
    BY <1>0, <1>1 DEF JoinPrepare, At, Claim
  <2> DEFINE r == [job[j] EXCEPT !.pc = "list", !.seen = None, !.next = "credentials"]
  <2>1. r \in JobState
    BY <1>0 DEF JobState, PC
  <2>2. Claim(r, conns)
    BY <1>0, <2>0 DEF Claim, JobState
  <2>3. Become(j, Idle) \/ Become(j, r)
    BY <1>1 DEF JoinPrepare, Finish
  <2>4. conns' = conns
    BY <1>1 DEF JoinPrepare
  <2> HIDE DEF r
  <2>5. JobsOK'
    BY <2>1, <2>2, <2>3, <2>4, BecomeOK, IdleOK DEF IInv
  <2>6. RecordsOK'
    <3>1. CASE CanPrepare(job[j].op, job[j].seen)
      BY <1>1, <2>0, <3>1, PrepareOK DEF JoinPrepare, IInv
    <3>2. CASE ~CanPrepare(job[j].op, job[j].seen)
      BY <1>1, <3>2, RecordsKept DEF JoinPrepare, IInv, RecordsOK, DataOK
    <3> QED
      BY <3>1, <3>2
  <2> QED
    BY <2>5, <2>6 DEF IInv
<1>2. ASSUME CompleteCleanup(j) PROVE IInv'
  <2> DEFINE r == [job[j] EXCEPT !.pc = "retire", !.ops = @ \ {job[j].seen}, !.seen = None]
  <2>1. r \in JobState
    BY <1>0 DEF JobState, PC
  <2>2. Claim(r, conns)
    BY <1>0 DEF Claim, JobState
  <2>3. Become(j, r)
    BY <1>2 DEF CompleteCleanup
  <2>4. UNCHANGED <<reservation, session, told, issued, conns, room, minted, again, lapsed>>
    BY <1>2 DEF CompleteCleanup
  <2> HIDE DEF r
  <2>5. JobsOK'
    BY <2>1, <2>2, <2>3, <2>4, BecomeOK DEF IInv
  <2>6. cleanups' \subseteq cleanups /\ cleanups \subseteq cleanups' \cup settled'
        /\ settled \subseteq settled' /\ settled' \subseteq Op
    BY <1>2 DEF CompleteCleanup, IInv, RecordsOK, DataOK
  <2>7. RecordsOK'
    BY <2>4, <2>6 DEF IInv, RecordsOK, DataOK, Anchored, RetiredTracked, SessionOp
  <2> QED
    BY <2>5, <2>7 DEF IInv
<1>3. ASSUME CancelExact(j) PROVE IInv'
  <2>0. job[j].rec \in Reservation
    BY <1>0, <1>3 DEF CancelExact, At, Claim
  <2> DEFINE r == [Idle EXCEPT !.pc = "publish"]
  <2>1. r \in JobState
    BY IdleOK DEF JobState, PC
  <2>2. Claim(r, conns)
    BY DEF Claim, Idle
  <2>3. Become(j, Idle) \/ Become(j, r)
    BY <1>3 DEF CancelExact, Finish
  <2>4. UNCHANGED <<told, issued, livekit, history>>
    BY <1>3 DEF CancelExact
  <2> HIDE DEF r
  <2>5. JobsOK'
    BY <2>1, <2>2, <2>3, <2>4, BecomeOK, IdleOK DEF IInv
  <2>6. RecordsOK'
    <3>1. CASE reservation = job[j].rec
      BY <1>3, <2>0, <2>4, <3>1, NoneAssumption, DeleteReservationOK DEF CancelExact, IInv
    <3>2. CASE UNCHANGED redis
      BY <2>4, <3>2, RecordsKept DEF IInv, RecordsOK, DataOK
    <3> QED
      BY <1>3, <3>1, <3>2 DEF CancelExact
  <2> QED
    BY <2>5, <2>6 DEF IInv
<1> QED
  BY <1>1, <1>2, <1>3

LEMMA LeaveSteps ==
  ASSUME IInv, NEW j \in Job,
         \/ \E o \in Op : BeginDisconnect(j, o)
         \/ RemoveCheck(j) \/ RemoveRead(j) \/ Moderate(j)
  PROVE  IInv'
<1> USE DEF livekit
<1>0. /\ job[j] \in JobState /\ Claim(job[j], conns)
      /\ SessionOp \in Op \cup {None} /\ Authority \in Op \cup {None}
      /\ session # None => SessionOp \in Op
      /\ reservation \in Reservation \cup {None}
      /\ issued \subseteq Op /\ told \in Op \cup {None} /\ room \subseteq conns
  BY ReadTypes DEF IInv, JobsOK, RecordsOK, DataOK
<1>1. ASSUME NEW o \in Op, BeginDisconnect(j, o) PROVE IInv'
  <2> DEFINE r == [Idle EXCEPT !.pc = "cancel_exact", !.op = o, !.rec = reservation]
             q == [Idle EXCEPT !.pc = "check", !.op = o, !.chan = ChannelOf[o], !.next = "publish"]
  <2>1. r \in JobState
    BY <1>0, IdleOK DEF JobState, PC
  <2>2. q \in JobState
    BY IdleOK, OpAssumption DEF JobState, PC
  <2>3. (reservation # None => Claim(r, conns)) /\ Claim(q, conns)
    BY <1>0 DEF Claim, Idle
  <2>4. (reservation # None /\ Become(j, r)) \/ Become(j, q)
    BY <1>1 DEF BeginDisconnect
  <2> HIDE DEF r, q
  <2> QED
    BY <1>0, <1>1, <2>1, <2>2, <2>3, <2>4, PlainStep DEF BeginDisconnect
<1>2. ASSUME RemoveCheck(j) PROVE IInv'
  <2> DEFINE r == [job[j] EXCEPT !.pc = "cancel"]
  <2>1. r \in JobState
    BY <1>0 DEF JobState, PC
  <2>2. Claim(r, conns)
    BY <1>0 DEF Claim, JobState
  <2>3. Become(j, r) \/ Continue(j)
    BY <1>2 DEF RemoveCheck, Goto, Become
  <2> HIDE DEF r
  <2> QED
    BY <1>0, <1>2, <2>1, <2>2, <2>3, ContinueOK, PlainStep DEF RemoveCheck
<1>3. ASSUME RemoveRead(j) PROVE IInv'
  <2> DEFINE r == [job[j] EXCEPT !.pc = "delete", !.seen = SessionOp]
  <2>1. r \in JobState
    BY <1>0 DEF JobState, PC
  <2>2. InChannel(job[j].chan) => Claim(r, conns)
    BY <1>0 DEF Claim, JobState, InChannel
  <2>3. (InChannel(job[j].chan) /\ Become(j, r)) \/ Continue(j)
    BY <1>3 DEF RemoveRead
  <2> HIDE DEF r
  <2> QED
    BY <1>0, <1>3, <2>1, <2>2, <2>3, ContinueOK, PlainStep DEF RemoveRead
<1>4. ASSUME Moderate(j) PROVE IInv'
  <2> DEFINE r == [Idle EXCEPT !.pc = "publish"]
             q == [Idle EXCEPT !.pc = "cancel", !.op = SessionOp,
                               !.chan = ChannelOf[SessionOp], !.next = "announce"]
  <2>1. r \in JobState
    BY IdleOK DEF JobState, PC
  <2>2. session # None => q \in JobState
    BY <1>0, IdleOK, OpAssumption DEF JobState, PC
  <2>3. Claim(r, conns) /\ Claim(q, conns)
    BY DEF Claim, Idle
  <2>4. Become(j, r) \/ (session # None /\ Become(j, q))
    BY <1>4 DEF Moderate
  <2> HIDE DEF r, q
  <2> QED
    BY <1>0, <1>4, <2>1, <2>2, <2>3, <2>4, PlainStep DEF Moderate
<1> QED
  BY <1>1, <1>2, <1>3, <1>4

LEMMA LeaveRecords ==
  ASSUME IInv, NEW j \in Job, RemoveCancel(j) \/ RemoveDelete(j) \/ BeginModeration(j)
  PROVE  IInv'
<1> USE DEF livekit, history
<1>0. job[j] \in JobState /\ Claim(job[j], conns)
  BY DEF IInv, JobsOK
<1>1. ASSUME UNCHANGED <<told, issued, livekit, history>>,
             IF reservation # None THEN DeleteReservation(reservation) ELSE UNCHANGED redis
      PROVE  RecordsOK'
  BY <1>1, DeleteReservationOK, RecordsKept DEF IInv, RecordsOK, DataOK
<1>2. ASSUME RemoveCancel(j) PROVE IInv'
  <2> DEFINE r == [job[j] EXCEPT !.pc = "read"]
  <2>1. r \in JobState
    BY <1>0 DEF JobState, PC
  <2>2. Claim(r, conns)
    BY <1>0 DEF Claim, JobState
  <2>3. Become(j, r) /\ conns' = conns
    BY <1>2 DEF RemoveCancel, Goto, Become
  <2> HIDE DEF r
  <2>4. JobsOK'
    BY <2>1, <2>2, <2>3, BecomeOK DEF IInv
  <2> QED
    BY <1>1, <1>2, <2>4 DEF RemoveCancel, IInv
<1>3. ASSUME RemoveDelete(j) PROVE IInv'
  <2>1. job[j].seen \in Op
    BY <1>0, <1>3 DEF RemoveDelete, At, Claim
  <2>2. Continue(j) /\ UNCHANGED <<told, issued, livekit, history>>
    BY <1>3 DEF RemoveDelete
  <2>3. JobsOK'
    BY <1>0, <2>2, ContinueOK, BecomeOK DEF IInv
  <2>4. RecordsOK'
    <3>1. CASE CanDeleteSession(job[j].seen)
      BY <1>3, <2>1, <2>2, <3>1, DeleteSessionOK DEF RemoveDelete, IInv
    <3>2. CASE ~CanDeleteSession(job[j].seen)
      BY <1>3, <2>2, <3>2, RecordsKept DEF RemoveDelete, IInv, RecordsOK, DataOK
    <3> QED
      BY <3>1, <3>2
  <2> QED
    BY <2>3, <2>4 DEF IInv
<1>4. ASSUME BeginModeration(j) PROVE IInv'
  <2> DEFINE r == [Idle EXCEPT !.pc = "moderate"]
  <2>1. r \in JobState
    BY IdleOK DEF JobState, PC
  <2>2. Claim(r, conns)
    BY DEF Claim, Idle
  <2>3. Become(j, r) /\ conns' = conns
    BY <1>4 DEF BeginModeration
  <2> HIDE DEF r
  <2>4. JobsOK'
    BY <2>1, <2>2, <2>3, BecomeOK DEF IInv
  <2> QED
    BY <1>1, <1>4, <2>4 DEF BeginModeration, IInv
<1> QED
  BY <1>2, <1>3, <1>4

LEMMA MoveSteps ==
  ASSUME IInv, NEW j \in Job, (\E o \in ServerOp : BeginMove(j, o)) \/ MovePrepare(j) \/ MoveLease(j)
  PROVE  IInv'
<1> USE DEF livekit
<1>0. /\ job[j] \in JobState /\ Claim(job[j], conns)
      /\ SessionOp \in Op \cup {None}
      /\ issued \subseteq Op /\ told \in Op \cup {None} /\ room \subseteq conns
  BY ReadTypes DEF IInv, JobsOK, RecordsOK, DataOK
<1>1. ASSUME NEW o \in ServerOp, BeginMove(j, o) PROVE IInv'
  <2> DEFINE r(s) == [Idle EXCEPT !.pc = "move", !.op = o, !.seen = s]
  <2>0. o \in Op
    BY DEF Op
  <2>1. \A s \in {None, SessionOp} : r(s) \in JobState
    BY <1>0, <2>0, IdleOK DEF JobState, PC
  <2>2. \A s : Claim(r(s), conns)
    BY <2>0 DEF Claim, Idle
  <2>3. \E s \in {None, SessionOp} : Become(j, r(s))
    BY <1>1 DEF BeginMove
  <2> HIDE DEF r
  <2> QED
    BY <1>0, <1>1, <2>1, <2>2, <2>3, PlainStep DEF BeginMove
<1>2. ASSUME MovePrepare(j) PROVE IInv'
  <2>0. job[j].op \in Op
    BY <1>0, <1>2 DEF MovePrepare, At, Claim
  <2> DEFINE r == [job[j] EXCEPT !.pc = "lease"]
  <2>1. r \in JobState
    BY <1>0 DEF JobState, PC
  <2>2. Claim(r, conns)
    BY <1>0, <2>0 DEF Claim, JobState
  <2>3. (Become(j, Idle) \/ Become(j, r)) /\ conns' = conns
    BY <1>2 DEF MovePrepare, Finish, Goto, Become
  <2> HIDE DEF r
  <2>5. JobsOK'
    BY <2>1, <2>2, <2>3, BecomeOK, IdleOK DEF IInv
  <2>6. RecordsOK'
    <3>1. CASE CanPrepare(job[j].op, Authority)
      BY <1>2, <2>0, <3>1, PrepareOK DEF MovePrepare, IInv
    <3>2. CASE ~CanPrepare(job[j].op, Authority)
      BY <1>2, <3>2, RecordsKept DEF MovePrepare, IInv, RecordsOK, DataOK, history, redis
    <3> QED
      BY <3>1, <3>2
  <2> QED
    BY <2>5, <2>6 DEF IInv
<1>3. ASSUME MoveLease(j) PROVE IInv'
  <2> DEFINE r == [Idle EXCEPT !.pc = "kick", !.op = job[j].seen]
  <2>0. job[j].seen \in Op \cup {None}
    BY <1>0 DEF JobState
  <2>1. r \in JobState
    BY <2>0, IdleOK DEF JobState, PC
  <2>2. Claim(r, conns)
    BY DEF Claim, Idle
  <2>3. Become(j, r) /\ issued' \subseteq Op
    BY <1>0, <1>3 DEF MoveLease, At, Claim
  <2> HIDE DEF r
  <2> QED
    BY <1>0, <1>3, <2>1, <2>2, <2>3, PlainStep DEF MoveLease
<1> QED
  BY <1>1, <1>2, <1>3

LEMMA WebhookSteps ==
  ASSUME IInv, NEW j \in Job,
         \/ \E c \in Conn : BeginJoined(j, c) \/ BeginLeft(j, c)
         \/ JoinedFind(j) \/ JoinedCommit(j) \/ LeftDelete(j)
  PROVE  IInv'
<1> USE DEF livekit
<1>0. /\ job[j] \in JobState /\ Claim(job[j], conns)
      /\ reservation \in Reservation \cup {None}
      /\ issued \subseteq Op /\ told \in Op \cup {None} /\ room \subseteq conns
  BY DEF IInv, JobsOK, RecordsOK, DataOK
<1> DEFINE pub == [Idle EXCEPT !.pc = "publish"]
<1>a. pub \in JobState
  BY IdleOK DEF JobState, PC
<1>b. Claim(pub, conns)
  BY DEF Claim, Idle
<1>1. ASSUME NEW c \in Conn, BeginJoined(j, c) PROVE IInv'
  <2> DEFINE r(pc) == [Idle EXCEPT !.pc = pc, !.op = c.op, !.n = c.n]
  <2>a. c = [op |-> c.op, n |-> c.n] /\ c.op \in Op /\ c.n \in 1..MaxConnects
    BY DEF Conn
  <2>b. c.n \in 0..MaxConnects
    BY <2>a, BoundAssumption
  <2>c. c \in conns
    BY <1>1 DEF BeginJoined
  <2>1. \A pc \in {"find", "kick"} : r(pc) \in JobState
    BY <2>a, <2>b, IdleOK DEF JobState, PC
  <2>2. \A pc \in {"find", "kick"} : Claim(r(pc), conns)
    BY <2>a, <2>c DEF Claim, Idle
  <2>3. \E pc \in {"find", "kick"} : Become(j, r(pc))
    BY <1>1 DEF BeginJoined
  <2> HIDE DEF r
  <2> QED
    BY <1>0, <1>1, <2>1, <2>2, <2>3, PlainStep DEF BeginJoined
<1>2. ASSUME NEW c \in Conn, BeginLeft(j, c) PROVE IInv'
  <2> DEFINE r == [Idle EXCEPT !.pc = "left", !.seen = c.op, !.chan = ChannelOf[c.op]]
             q == [Idle EXCEPT !.pc = "probe", !.seen = None, !.chan = ChannelOf[c.op]]
  <2>0. c.op \in Op /\ ChannelOf[c.op] \in Channel
    BY OpAssumption DEF Conn
  <2>1. r \in JobState /\ q \in JobState
    BY <2>0, IdleOK DEF JobState, PC
  <2>2. Claim(r, conns) /\ Claim(q, conns)
    BY <2>0 DEF Claim, Idle
  <2>3. Become(j, r) \/ Become(j, q)
    BY <1>2 DEF BeginLeft
  <2> HIDE DEF r, q
  <2> QED
    BY <1>0, <1>2, <2>1, <2>2, <2>3, PlainStep DEF BeginLeft
<1>3. ASSUME JoinedFind(j) PROVE IInv'
  <2> DEFINE r == [job[j] EXCEPT !.pc = "commit", !.rec = reservation]
             q == [job[j] EXCEPT !.pc = "kick"]
  <2>1. r \in JobState /\ q \in JobState
    BY <1>0 DEF JobState, PC
  <2>2. /\ Claim(q, conns)
        /\ reservation # None /\ reservation.op = job[j].op => Claim(r, conns)
    BY <1>0, <1>3 DEF Claim, JobState, JoinedFind, At
  <2>3. \/ reservation # None /\ reservation.op = job[j].op /\ Become(j, r)
        \/ Become(j, pub)
        \/ Become(j, q)
    BY <1>3 DEF JoinedFind, Goto, Become
  <2> HIDE DEF r, q, pub
  <2> QED
    BY <1>0, <1>3, <1>a, <1>b, <2>1, <2>2, <2>3, PlainStep DEF JoinedFind
<1>4. ASSUME JoinedCommit(j) PROVE IInv'
  <2>0. /\ job[j].rec \in Reservation
        /\ [op |-> job[j].rec.op, n |-> job[j].n] \in conns
    BY <1>0, <1>4 DEF JoinedCommit, At, Claim
  <2> DEFINE r(pc) == [job[j] EXCEPT !.pc = pc, !.rec = None]
  <2>1. \A pc \in {"find", "kick"} : r(pc) \in JobState
    BY <1>0 DEF JobState, PC
  <2>2. \A pc \in {"find", "kick"} : Claim(r(pc), conns)
    BY <1>0, <1>4 DEF Claim, JobState, JoinedCommit, At
  <2>3. Become(j, pub) \/ \E pc \in {"find", "kick"} : Become(j, r(pc))
    BY <1>4 DEF JoinedCommit
  <2>4. UNCHANGED <<told, issued, livekit, history>>
    BY <1>4 DEF JoinedCommit
  <2> HIDE DEF r, pub
  <2>5. JobsOK'
    BY <1>a, <1>b, <2>1, <2>2, <2>3, <2>4, BecomeOK DEF IInv
  <2>6. RecordsOK'
    <3>1. CASE CanCommit(job[j].rec) /\ CommitJoin(job[j].rec, job[j].n)
      BY <1>4, <2>0, <2>4, <3>1, CommitOK DEF IInv
    <3>2. CASE UNCHANGED redis
      BY <1>4, <2>4, <3>2, RecordsKept DEF JoinedCommit, IInv, RecordsOK, DataOK
    <3> QED
      BY <1>4, <3>1, <3>2 DEF JoinedCommit
  <2> QED
    BY <2>5, <2>6 DEF IInv
<1>5. ASSUME LeftDelete(j) PROVE IInv'
  <2>0. job[j].seen \in Op
    BY <1>0, <1>5 DEF LeftDelete, At, Claim
  <2> DEFINE r == [job[j] EXCEPT !.pc = "probe", !.seen = None]
  <2>1. r \in JobState
    BY <1>0 DEF JobState, PC
  <2>2. Claim(r, conns)
    BY <1>0 DEF Claim, JobState
  <2>3. Become(j, pub) \/ Become(j, r)
    BY <1>5 DEF LeftDelete
  <2>4. UNCHANGED <<told, issued, livekit, history>>
    BY <1>5 DEF LeftDelete
  <2> HIDE DEF r, pub
  <2>5. JobsOK'
    BY <1>a, <1>b, <2>1, <2>2, <2>3, <2>4, BecomeOK DEF IInv
  <2>6. RecordsOK'
    <3>1. CASE CanDeleteSession(job[j].seen)
      BY <1>5, <2>0, <2>4, <3>1, DeleteSessionOK DEF LeftDelete, IInv
    <3>2. CASE ~CanDeleteSession(job[j].seen)
      BY <1>5, <2>4, <3>2, RecordsKept DEF LeftDelete, IInv, RecordsOK, DataOK
    <3> QED
      BY <3>1, <3>2
  <2> QED
    BY <2>5, <2>6 DEF IInv
<1> QED
  BY <1>1, <1>2, <1>3, <1>4, <1>5

LEMMA ReconcileSteps ==
  ASSUME IInv, NEW j \in Job,
         \/ \E c \in Channel : BeginReconcile(j, c)
         \/ Probe(j) \/ Inspect(j) \/ InspectDead(j) \/ RemoveStrangers(j) \/ BeginSweep(j)
  PROVE  IInv'
<1> USE DEF livekit
<1>0. /\ job[j] \in JobState /\ Claim(job[j], conns)
      /\ SessionOp \in Op \cup {None}
      /\ session # None => SessionOp \in Op
      /\ reservation # None => reservation.op \in Op
      /\ issued \subseteq Op /\ told \in Op \cup {None} /\ conns \subseteq Conn /\ room \subseteq conns
  BY ReadTypes DEF IInv, JobsOK, RecordsOK, DataOK
<1>1. ASSUME NEW c \in Channel, BeginReconcile(j, c) PROVE IInv'
  <2> DEFINE r == [Idle EXCEPT !.pc = "probe", !.chan = c]
  <2>1. r \in JobState
    BY IdleOK DEF JobState, PC
  <2>2. Claim(r, conns)
    BY DEF Claim, Idle
  <2>3. Become(j, r)
    BY <1>1 DEF BeginReconcile
  <2> HIDE DEF r
  <2> QED
    BY <1>0, <1>1, <2>1, <2>2, <2>3, PlainStep DEF BeginReconcile
<1>2. ASSUME Probe(j) PROVE IInv'
  <2> DEFINE r(m, S, b) == [job[j] EXCEPT !.pc = "inspect", !.seen = m, !.ops = S, !.prepared = b]
  <2>1. \A m \in Op \cup {None}, S \in SUBSET Op, b \in BOOLEAN : r(m, S, b) \in JobState
    BY <1>0 DEF JobState, PC
  <2>2. \A m, S, b : Claim(r(m, S, b), conns)
    BY <1>0 DEF Claim, JobState
  <2>3. \E m \in Op \cup {None}, S \in SUBSET Op, b \in BOOLEAN : Become(j, r(m, S, b))
    <3> DEFINE c == job[j].chan
               m == IF InChannel(c) THEN SessionOp ELSE None
               S == ({m} \ {None}) \cup PendingIn(c)
               b == \/ m # None /\ reservation # None /\ reservation.after = m
                    \/ PendingIn(c) # {}
    <3>1. m \in Op \cup {None}
      BY <1>0
    <3>2. PendingIn(c) \in SUBSET Op
      BY <1>0 DEF PendingIn
    <3>3. S \in SUBSET Op
      BY <3>1, <3>2
    <3>4. b \in BOOLEAN
      OBVIOUS
    <3>5. Become(j, r(m, S, b))
      BY <1>2 DEF Probe
    <3> HIDE DEF m, S, b, r
    <3> QED
      BY <3>1, <3>3, <3>4, <3>5
  <2> HIDE DEF r
  <2> QED
    BY <1>0, <1>2, <2>1, <2>2, <2>3, PlainStep DEF Probe
<1>3. ASSUME Inspect(j) PROVE IInv'
  <2> DEFINE r(pc, S, next) == [[Idle EXCEPT !.chan = job[j].chan, !.ops = S, !.next = next]
                                  EXCEPT !.pc = pc]
             here == {c \in room : ChannelOf[c.op] = job[j].chan}
             late == IF here = {} THEN {} ELSE PendingIn(job[j].chan)
             current == job[j].ops \cup late
             members == {c \in here : current = {} \/ c.op \in current}
             strangers == {c.op : c \in here \ members}
  <2>0. strangers \in SUBSET Op
    BY <1>0 DEF Conn
  <2> HIDE DEF strangers
  <2>1. \A pc \in {"check", "remove"}, next \in {"idle", "remove"} : r(pc, strangers, next) \in JobState
    BY <1>0, <2>0, IdleOK DEF JobState, PC
  <2>2. \A pc \in {"check", "remove"}, next \in {"idle", "remove"} : Claim(r(pc, strangers, next), conns)
    BY DEF Claim, Idle
  <2>3. \/ Become(j, Idle)
        \/ \E pc \in {"check", "remove"}, next \in {"idle", "remove"} : Become(j, r(pc, strangers, next))
    BY <1>3 DEF Inspect, Finish, strangers
  <2> HIDE DEF r
  <2> QED
    BY <1>0, <1>3, <2>1, <2>2, <2>3, PlainStep, IdleOK DEF Inspect
<1>4. ASSUME InspectDead(j) PROVE IInv'
  <2> DEFINE r == [Idle EXCEPT !.pc = "read", !.chan = job[j].chan]
  <2>1. r \in JobState
    BY <1>0, IdleOK DEF JobState, PC
  <2>2. Claim(r, conns)
    BY DEF Claim, Idle
  <2>3. Become(j, Idle) \/ Become(j, r)
    BY <1>4 DEF InspectDead, Finish
  <2> HIDE DEF r
  <2> QED
    BY <1>0, <1>4, <2>1, <2>2, <2>3, PlainStep, IdleOK DEF InspectDead
<1>5. ASSUME RemoveStrangers(j) PROVE IInv'
  <2>1. Become(j, Idle) /\ room' \subseteq room
    BY <1>5 DEF RemoveStrangers, Finish
  <2> QED
    BY <1>0, <1>5, <2>1, PlainStep, IdleOK DEF RemoveStrangers
<1>6. ASSUME BeginSweep(j) PROVE IInv'
  <2> DEFINE r == [Idle EXCEPT !.pc = "list"]
  <2>1. r \in JobState
    BY IdleOK DEF JobState, PC
  <2>2. Claim(r, conns)
    BY DEF Claim, Idle
  <2>3. Become(j, r)
    BY <1>6 DEF BeginSweep
  <2> HIDE DEF r
  <2> QED
    BY <1>0, <1>6, <2>1, <2>2, <2>3, PlainStep DEF BeginSweep
<1> QED
  BY <1>1, <1>2, <1>3, <1>4, <1>5, <1>6

LEMMA EnvironmentSteps ==
  ASSUME IInv, \/ \E c \in Conn : Connect(c) \/ Drop(c)
               \/ LapseReservation \/ LapseSession
               \/ \E j \in Job : Crash(j) \/ Bury(j)
               \/ UNCHANGED vars
  PROVE  IInv'
<1>0. job \in [Job -> JobState] /\ RecordsOK /\ DataOK
  BY DEF IInv, JobsOK, RecordsOK
<1>a. ASSUME job' = job, conns \subseteq conns' PROVE JobsOK'
  BY <1>a DEF IInv, JobsOK, Claim
<1>1. ASSUME NEW c \in Conn, Connect(c) PROVE IInv'
  <2>1. conns' = conns \cup {c} /\ room' \subseteq room \cup {c}
        /\ UNCHANGED <<redis, told, job, issued, history>>
    BY <1>1 DEF Connect
  <2>2. RecordsOK'
    BY <1>0, <2>1, RecordsKept DEF DataOK
  <2> QED
    BY <1>a, <2>1, <2>2 DEF IInv
<1>2. ASSUME NEW c \in Conn, Drop(c) PROVE IInv'
  <2>1. room' \subseteq room /\ UNCHANGED <<redis, told, job, issued, conns, history>>
    BY <1>2 DEF Drop
  <2>2. RecordsOK'
    BY <1>0, <2>1, RecordsKept DEF DataOK
  <2> QED
    BY <1>a, <2>1, <2>2 DEF IInv
<1>3. ASSUME LapseReservation PROVE IInv'
  <2>1. UNCHANGED <<session, cleanups, told, job, issued, conns, room, minted, again, settled>>
        /\ reservation # None /\ reservation' = None /\ lapsed' = lapsed \cup {reservation.op}
    BY <1>3 DEF LapseReservation, livekit
  <2>2. reservation.op \in Op
    BY <1>0, <2>1, ReadTypes
  <2>3. RecordsOK'
    BY <1>0, <2>1, <2>2 DEF RecordsOK, DataOK, Anchored, RetiredTracked, SessionOp
  <2> QED
    BY <1>a, <2>1, <2>3 DEF IInv
<1>4. ASSUME LapseSession PROVE IInv'
  <2>1. UNCHANGED <<reservation, cleanups, told, job, issued, conns, room, minted, again, settled>>
        /\ session # None /\ session' = None /\ lapsed' = lapsed \cup {SessionOp}
    BY <1>4 DEF LapseSession, livekit, SessionOp
  <2>2. SessionOp \in Op
    BY <1>0, <2>1, ReadTypes
  <2>3. DataOK'
    BY <1>0, <2>1, <2>2 DEF DataOK
  <2>4. reservation = None
    BY <1>0, <1>4 DEF LapseSession, RecordsOK, Anchored, SessionOp
  <2>5. Anchored' /\ RetiredTracked'
    BY <1>0, <2>1, <2>4 DEF RecordsOK, Anchored, RetiredTracked
  <2> QED
    BY <1>a, <2>1, <2>3, <2>5 DEF IInv, RecordsOK
<1>5. ASSUME NEW j \in Job, Crash(j) \/ Bury(j) PROVE IInv'
  <2> DEFINE r == [Idle EXCEPT !.pc = "dead"]
  <2>1. r \in JobState /\ Idle \in JobState /\ Claim(Idle, conns)
    BY IdleOK DEF JobState, PC
  <2>2. Claim(r, conns)
    BY DEF Claim, Idle
  <2>3. Become(j, r) \/ Become(j, Idle)
    BY <1>5 DEF Crash, Bury, Finish
  <2> HIDE DEF r
  <2> QED
    BY <1>0, <1>5, <2>1, <2>2, <2>3, PlainStep DEF Crash, Bury, livekit, DataOK
<1>6. CASE UNCHANGED vars
  <2>1. RecordsOK'
    BY <1>0, <1>6, RecordsKept DEF vars, redis, history, DataOK
  <2> QED
    BY <1>a, <1>6, <2>1 DEF vars, IInv
<1> QED
  BY <1>1, <1>2, <1>3, <1>4, <1>5, <1>6

-----------------------------------------------------------------------------
LEMMA NextIInv == IInv /\ [Next]_vars => IInv'
<1> SUFFICES ASSUME IInv, [Next]_vars PROVE IInv'
  OBVIOUS
<1>1. ASSUME NEW j \in Job, JobStep(j) PROVE IInv'
  BY <1>1, JoinSteps, JoinRecords, LeaveSteps, LeaveRecords, MoveSteps, WebhookSteps,
     ReconcileSteps, EnvironmentSteps DEF JobStep
<1> QED
  BY <1>1, EnvironmentSteps DEF Next

LEMMA IInvAlways == Spec => []IInv
  BY InitIInv, NextIInv, PTL DEF Spec

\* Every state of every behaviour is well formed.
THEOREM VoiceTypeOK == Spec => []TypeOK
<1>1. IInv => TypeOK
  BY DEF IInv, JobsOK, RecordsOK, DataOK, TypeOK
<1> QED
  BY IInvAlways, <1>1, PTL

\* A pending reservation is fenced by the finalized operation, however many
\* handlers run: it can be committed until it is cancelled or expires.
THEOREM VoiceAnchored == Spec => []Anchored
<1>1. IInv => Anchored
  BY DEF IInv, RecordsOK
<1> QED
  BY IInvAlways, <1>1, PTL

\* No operation that ever held the account is forgotten while its transport may
\* be alive.
THEOREM VoiceRetiredTracked == Spec => []RetiredTracked
<1>1. IInv => RetiredTracked
  BY DEF IInv, RecordsOK
<1> QED
  BY IInvAlways, <1>1, PTL

-----------------------------------------------------------------------------
\* Only a commit makes a member: every other step keeps the session or ends it.
LEMMA SessionKeptOrEnded ==
  ASSUME [Next]_vars, \A j \in Job : ~JoinedCommit(j)
  PROVE  session' = session \/ session' = None
<1> USE DEF redis, livekit, history
<1>1. ASSUME NEW j \in Job, JobStep(j) PROVE session' = session \/ session' = None
  <2>1. CASE \/ \E o \in ClientOp : BeginJoin(j, o)
             \/ JoinPrepare(j) \/ ListCleanups(j)
             \/ \E o \in Op : RetireTransport(j, o) \/ RetireFails(j, o)
             \/ CompleteCleanup(j) \/ RetireDone(j) \/ IssueCredentials(j)
             \/ Publish(j) \/ Kick(j) \/ CancelExact(j)
    BY <2>1 DEF BeginJoin, JoinPrepare, PrepareReservation, ListCleanups, RetireTransport,
       RetireFails, CompleteCleanup, RetireDone, IssueCredentials, Publish, Kick, CancelExact,
       DeleteReservation
  <2>2. CASE \/ \E o \in Op : BeginDisconnect(j, o)
             \/ RemoveCheck(j) \/ RemoveCancel(j) \/ RemoveRead(j) \/ RemoveDelete(j)
             \/ BeginModeration(j) \/ Moderate(j)
    BY <2>2 DEF BeginDisconnect, RemoveCheck, RemoveCancel, RemoveRead, RemoveDelete,
       BeginModeration, Moderate, DeleteReservation, DeleteSession
  <2>3. CASE \/ \E o \in ServerOp : BeginMove(j, o)
             \/ MovePrepare(j) \/ MoveLease(j)
             \/ \E c \in Conn : BeginJoined(j, c) \/ BeginLeft(j, c)
             \/ JoinedFind(j) \/ LeftDelete(j)
    BY <2>3 DEF BeginMove, MovePrepare, PrepareReservation, MoveLease, BeginJoined, BeginLeft,
       JoinedFind, LeftDelete, DeleteSession
  <2>4. CASE \/ \E c \in Channel : BeginReconcile(j, c)
             \/ Probe(j) \/ Inspect(j) \/ InspectDead(j) \/ RemoveStrangers(j)
             \/ BeginSweep(j) \/ Crash(j) \/ Bury(j)
    BY <2>4 DEF BeginReconcile, Probe, Inspect, InspectDead, RemoveStrangers, BeginSweep, Crash,
       Bury
  <2> QED
    BY <1>1, <2>1, <2>2, <2>3, <2>4 DEF JobStep
<1>2. ASSUME NEW c \in Conn, Connect(c) \/ Drop(c) PROVE session' = session
  BY <1>2 DEF Connect, Drop
<1>3. CASE LapseReservation \/ LapseSession
  BY <1>3 DEF LapseReservation, LapseSession
<1>4. CASE UNCHANGED vars
  BY <1>4 DEF vars
<1> QED
  BY <1>1, <1>2, <1>3, <1>4 DEF Next

\* A member is made only from the current reservation, over the operation it is
\* fenced by, for a connection LiveKit has seen.
THEOREM VoiceSuccession == Spec => Succession
<1> DEFINE A == session' # session /\ session' # None =>
                  /\ reservation # None /\ session'.op = reservation.op
                  /\ reservation.after = SessionOp
                  /\ session' \in conns
<1>1. IInv /\ [Next]_vars => [A]_session
  <2> SUFFICES ASSUME IInv, [Next]_vars, NEW j \in Job, JoinedCommit(j),
                      session' # session, session' # None
               PROVE  A
    BY SessionKeptOrEnded
  <2>1. job[j].rec \in Reservation /\ [op |-> job[j].rec.op, n |-> job[j].n] \in conns
    BY DEF IInv, JobsOK, Claim, JoinedCommit, At
  <2>2. CanCommit(job[j].rec) /\ CommitJoin(job[j].rec, job[j].n)
    BY DEF JoinedCommit, redis
  <2> QED
    BY <2>1, <2>2, NoneAssumption DEF CanCommit, CommitJoin
<1> QED
  BY IInvAlways, <1>1, PTL DEF Spec, Succession

-----------------------------------------------------------------------------
(* Telling the client. *)

\* A membership the account was not told of has a handler that will tell it.
Announced == session = None \/ told = SessionOp \/ \E j \in Job : At(j, "publish")

\* Only a publisher tells, and nothing but its own step or its death stops it.
LEMMA PublishersGoOn ==
  ASSUME JobsOK, ~Failures, [Next]_vars, \A j \in Job : ~Publish(j)
  PROVE  told' = told /\ \A k \in Job : At(k, "publish") => At(k, "publish")'
<1> DEFINE GoOn == told' = told /\ \A k \in Job : At(k, "publish") => At(k, "publish")'
<1> USE DEF At, JobsOK
<1>1. ASSUME NEW j \in Job, JobStep(j) PROVE GoOn
  <2>0. ASSUME job[j].pc # "publish", told' = told, NEW r, Become(j, r) PROVE GoOn
    BY <2>0 DEF Become
  <2>1. Finish(j) \/ Continue(j) \/ (\E pc \in PC : Goto(j, pc)) => \E r : Become(j, r)
    BY DEF Finish, Continue, Goto, Become
  <2>2. job[j] = Idle => job[j].pc # "publish"
    BY DEF Idle
  <2>3. CASE \/ \E o \in ClientOp : BeginJoin(j, o)
             \/ JoinPrepare(j) \/ ListCleanups(j)
             \/ \E o \in Op : RetireTransport(j, o) \/ RetireFails(j, o)
    BY <2>0, <2>1, <2>2, <2>3 DEF BeginJoin, JoinPrepare, ListCleanups, RetireTransport, RetireFails
  <2>4. CASE CompleteCleanup(j) \/ RetireDone(j) \/ IssueCredentials(j) \/ Kick(j)
    BY <2>0, <2>1, <2>2, <2>4 DEF CompleteCleanup, RetireDone, IssueCredentials, Kick
  <2>5. CASE \/ \E o \in Op : BeginDisconnect(j, o)
             \/ CancelExact(j) \/ RemoveCheck(j) \/ RemoveCancel(j)
    BY <2>0, <2>1, <2>2, <2>5 DEF BeginDisconnect, CancelExact, RemoveCheck, RemoveCancel, PC
  <2>6. CASE RemoveRead(j) \/ RemoveDelete(j) \/ BeginModeration(j) \/ Moderate(j)
    BY <2>0, <2>1, <2>2, <2>6 DEF RemoveRead, RemoveDelete, BeginModeration, Moderate
  <2>7. CASE (\E o \in ServerOp : BeginMove(j, o)) \/ MovePrepare(j) \/ MoveLease(j)
    BY <2>0, <2>1, <2>2, <2>7 DEF BeginMove, MovePrepare, MoveLease, PC
  <2>8. CASE \/ \E c \in Conn : BeginJoined(j, c) \/ BeginLeft(j, c)
             \/ JoinedFind(j) \/ JoinedCommit(j) \/ LeftDelete(j)
    BY <2>0, <2>1, <2>2, <2>8 DEF BeginJoined, BeginLeft, JoinedFind, JoinedCommit, LeftDelete, PC
  <2>9. CASE \/ \E c \in Channel : BeginReconcile(j, c)
             \/ Probe(j) \/ Inspect(j) \/ InspectDead(j) \/ RemoveStrangers(j)
             \/ BeginSweep(j) \/ Bury(j)
    BY <2>0, <2>1, <2>2, <2>9 DEF BeginReconcile, Probe, Inspect, InspectDead, RemoveStrangers,
       BeginSweep, Bury
  <2>10. ~Crash(j) /\ ~Publish(j)
    BY DEF Crash
  <2> HIDE DEF GoOn, At, JobsOK
  <2> QED
    BY <1>1, <2>3, <2>4, <2>5, <2>6, <2>7, <2>8, <2>9, <2>10 DEF JobStep
<1>2. CASE \/ \E c \in Conn : Connect(c) \/ Drop(c)
           \/ LapseReservation \/ LapseSession \/ UNCHANGED vars
  BY <1>2 DEF Connect, Drop, LapseReservation, LapseSession, vars
<1> QED
  BY <1>1, <1>2 DEF Next

\* Who makes a member goes on to publish it.
LEMMA AnnouncedKept ==
  ASSUME IInv, ~Failures, Announced, [Next]_vars
  PROVE  Announced'
<1>1. CASE \E j \in Job : Publish(j)
  BY <1>1 DEF Publish, AuthoritativeMembership, Announced, SessionOp, redis
<1>2. CASE \E j \in Job : JoinedCommit(j) /\ session' # session
  <2>1. PICK j \in Job : JoinedCommit(j) /\ session' # session
    BY <1>2
  <2>2. Become(j, [Idle EXCEPT !.pc = "publish"])
    BY <2>1 DEF JoinedCommit, redis
  <2> QED
    BY <2>2 DEF Become, At, Announced, IInv, JobsOK, Idle
<1>3. CASE \A j \in Job : ~Publish(j) /\ ~(JoinedCommit(j) /\ session' # session)
  <2>1. session' = session \/ session' = None
    BY <1>3, SessionKeptOrEnded
  <2> QED
    BY <1>3, <2>1, PublishersGoOn DEF IInv, Announced, SessionOp
<1> QED
  BY <1>1, <1>2, <1>3

\* When every handler has run to its end, a member has been told that it is
\* one.  (A handler that dies between the commit and the publication tells
\* nobody: nothing is said of handlers that may die.)
THEOREM VoiceMemberTold ==
  ASSUME ~Failures
  PROVE  Spec => []MemberTold
<1>1. Init => Announced
  BY DEF Init, Announced
<1>2. IInv /\ Announced /\ [Next]_vars => Announced'
  BY AnnouncedKept
<1>3. Announced => MemberTold
  BY DEF Announced, MemberTold, At, Idle
<1> QED
  BY IInvAlways, <1>1, <1>2, <1>3, PTL DEF Spec
=============================================================================
