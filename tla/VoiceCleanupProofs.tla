------------------------- MODULE VoiceCleanupProofs -------------------------
(***************************************************************************)
(* A member's own transport is never chased, unless its operation took the *)
(* account again after it had lost it; and the handlers implement the      *)
(* account of VoiceAccount.                                                *)
(***************************************************************************)
EXTENDS VoiceAuthorityProofs

\* A handler that is about to make a reservation.
Preparing(k) == job[k].pc \in {"prepare", "move"}

\* An operation that waits to be reserved was never reserved, and one handler
\* only will reserve it: as long as no join request is handled twice.
JobsFresh ==
  /\ \A k \in Job : Preparing(k) => job[k].op \notin minted
  /\ \A k, l \in Job : Preparing(k) /\ Preparing(l) /\ k # l => job[k].op # job[l].op

\* The reservation, the session and the cleanups are of different operations,
\* but for operations that were reserved again.
RecordsApart ==
  /\ SessionOp \in minted \cup {None} /\ cleanups \subseteq minted
  /\ reservation # None =>
       /\ reservation.op \in minted
       /\ reservation.op \in cleanups \cup {SessionOp} => reservation.op \in again
  /\ CleanupSparesMember

-----------------------------------------------------------------------------
(* The jobs: only two actions make a handler one that prepares. *)

\* Handler j takes a step after which it is not about to make a reservation.
Passes(j) ==
  /\ \A k \in Job \ {j} : job'[k] = job[k]
  /\ job'[j].pc \notin {"prepare", "move"}

LEMMA PassesJobsFresh ==
  ASSUME JobsFresh, NEW j \in Job, Passes(j),
         \/ minted' = minted
         \/ Preparing(j) /\ minted' = minted \cup {job[j].op}
  PROVE  JobsFresh'
  BY DEF JobsFresh, Preparing, Passes

LEMMA BecomePasses ==
  ASSUME JobsOK, NEW j \in Job, NEW r, Become(j, r), r.pc \notin {"prepare", "move"}
  PROVE  Passes(j)
  BY DEF JobsOK, Become, Passes

LEMMA IdlePasses ==
  ASSUME JobsOK, NEW j \in Job, Finish(j)
  PROVE  Passes(j)
  BY BecomePasses DEF Finish, Idle

LEMMA GotoPasses ==
  ASSUME JobsOK, NEW j \in Job, NEW pc \in PC \ {"prepare", "move"}, Goto(j, pc)
  PROVE  Passes(j)
<1> DEFINE r == [job[j] EXCEPT !.pc = pc]
<1>1. r.pc = pc /\ Become(j, r)
  BY DEF JobsOK, JobState, Goto, Become
<1> HIDE DEF r
<1> QED
  BY <1>1, BecomePasses

LEMMA ContinuePasses ==
  ASSUME JobsOK, NEW j \in Job, Continue(j)
  PROVE  Passes(j)
<1>1. job[j].next \in PC \ {"prepare", "move"}
  BY DEF JobsOK, Claim, PC
<1> QED
  BY <1>1, IdlePasses, GotoPasses DEF Continue

\* Every other action of a handler.
LEMMA OtherActionsPass ==
  ASSUME JobsOK, NEW j \in Job,
         \/ ListCleanups(j) \/ \E o \in Op : RetireTransport(j, o) \/ RetireFails(j, o)
         \/ CompleteCleanup(j) \/ RetireDone(j) \/ IssueCredentials(j) \/ Publish(j) \/ Kick(j)
         \/ \E o \in Op : BeginDisconnect(j, o)
         \/ CancelExact(j) \/ RemoveCheck(j) \/ RemoveCancel(j) \/ RemoveRead(j) \/ RemoveDelete(j)
         \/ BeginModeration(j) \/ Moderate(j) \/ MoveLease(j)
         \/ \E c \in Conn : BeginJoined(j, c) \/ BeginLeft(j, c)
         \/ JoinedFind(j) \/ JoinedCommit(j) \/ LeftDelete(j)
         \/ \E c \in Channel : BeginReconcile(j, c)
         \/ Probe(j) \/ Inspect(j) \/ InspectDead(j) \/ RemoveStrangers(j) \/ BeginSweep(j)
         \/ Crash(j) \/ Bury(j)
  PROVE  Passes(j)
<1>0. /\ job[j] \in JobState
      /\ \A r : Become(j, r) /\ r.pc \notin {"prepare", "move"} => Passes(j)
      /\ Continue(j) \/ Finish(j) => Passes(j)
      /\ \A pc \in PC \ {"prepare", "move"} : Goto(j, pc) => Passes(j)
  BY BecomePasses, ContinuePasses, IdlePasses, GotoPasses DEF JobsOK
<1>1. CASE ListCleanups(j) \/ \E o \in Op : RetireTransport(j, o) \/ RetireFails(j, o)
  BY <1>0, <1>1 DEF ListCleanups, RetireTransport, RetireFails, JobState, At
<1>2. CASE CompleteCleanup(j) \/ RetireDone(j) \/ IssueCredentials(j) \/ Publish(j) \/ Kick(j)
  BY <1>0, <1>2 DEF CompleteCleanup, RetireDone, IssueCredentials, Publish, Kick, JobState, PC, Idle
<1>3. CASE (\E o \in Op : BeginDisconnect(j, o)) \/ CancelExact(j) \/ RemoveCheck(j) \/ RemoveCancel(j)
  BY <1>0, <1>3 DEF BeginDisconnect, CancelExact, RemoveCheck, RemoveCancel, JobState, PC, Idle
<1>4. CASE RemoveRead(j) \/ RemoveDelete(j) \/ BeginModeration(j) \/ Moderate(j) \/ MoveLease(j)
  BY <1>0, <1>4 DEF RemoveRead, RemoveDelete, BeginModeration, Moderate, MoveLease, JobState, PC, Idle
<1>5. CASE \E c \in Conn : BeginJoined(j, c) \/ BeginLeft(j, c)
  BY <1>0, <1>5 DEF BeginJoined, BeginLeft, Idle
<1>6. CASE JoinedFind(j) \/ JoinedCommit(j) \/ LeftDelete(j)
  BY <1>0, <1>6 DEF JoinedFind, JoinedCommit, LeftDelete, JobState, PC, Idle
<1>7. CASE (\E c \in Channel : BeginReconcile(j, c)) \/ Probe(j) \/ Inspect(j) \/ InspectDead(j)
  BY <1>0, <1>7 DEF BeginReconcile, Probe, Inspect, InspectDead, JobState, Idle
<1>8. CASE RemoveStrangers(j) \/ BeginSweep(j) \/ Crash(j) \/ Bury(j)
  BY <1>0, <1>8 DEF RemoveStrangers, BeginSweep, Crash, Bury, Idle
<1> QED
  BY <1>1, <1>2, <1>3, <1>4, <1>5, <1>6, <1>7, <1>8

-----------------------------------------------------------------------------
(* The records: one lemma for each way they change. *)

LEMMA PrepareApart ==
  ASSUME DataOK, RecordsApart, NEW o \in Op, PrepareReservation(o)
  PROVE  RecordsApart'
<1>1. reservation' # None /\ reservation'.op = o /\ SessionOp' = SessionOp
  <2>1. Anchor \in Op \cup {None}
    BY ReadTypes DEF Anchor
  <2> QED
    BY <2>1, NoneAssumption DEF PrepareReservation, Reservation, SessionOp
<1>2. /\ minted' = minted \cup {o} /\ o # None
      /\ again \subseteq again'
      /\ o \in minted /\ (reservation = None \/ reservation.op # o) => o \in again'
  BY NoneAssumption DEF PrepareReservation
<1>3. CASE reservation # None /\ reservation.op = o
  <2>1. cleanups' = cleanups
    BY <1>3 DEF PrepareReservation
  <2> QED
    BY <1>1, <1>2, <1>3, <2>1 DEF RecordsApart, CleanupSparesMember
<1>4. CASE reservation = None \/ reservation.op # o
  <2>1. cleanups' = cleanups \cup (IF reservation = None THEN {} ELSE {reservation.op})
    BY <1>4 DEF PrepareReservation
  <2>2. cleanups' \subseteq minted /\ (o \in cleanups' => o \in cleanups)
    BY <1>4, <2>1 DEF RecordsApart
  <2>3. SessionOp \in cleanups' => SessionOp \in again
    BY <2>1 DEF RecordsApart, CleanupSparesMember
  <2>4. o \in cleanups' \cup {SessionOp} => o \in again'
    BY <1>2, <1>4, <2>2 DEF RecordsApart
  <2> QED
    BY <1>1, <1>2, <2>2, <2>3, <2>4 DEF RecordsApart, CleanupSparesMember
<1> QED
  BY <1>3, <1>4

LEMMA DeleteReservationApart ==
  ASSUME RecordsApart, reservation # None, DeleteReservation(reservation), UNCHANGED <<minted, again>>
  PROVE  RecordsApart'
  BY DEF RecordsApart, CleanupSparesMember, DeleteReservation, SessionOp

LEMMA CommitApart ==
  ASSUME DataOK, RecordsApart, NEW rec \in Reservation, NEW n, [op |-> rec.op, n |-> n] \in conns,
         CanCommit(rec), CommitJoin(rec, n), UNCHANGED <<minted, again>>
  PROVE  RecordsApart'
<1>1. reservation = rec /\ reservation # None /\ SessionOp = rec.after
  BY NoneAssumption DEF CanCommit
<1>2. SessionOp' = rec.op /\ reservation' = None
  BY NoneAssumption DEF CommitJoin, DataOK, SessionOp
<1>3. cleanups' \subseteq cleanups \cup ({SessionOp} \ {None, rec.op})
  BY <1>1 DEF CommitJoin
<1> QED
  BY <1>1, <1>2, <1>3 DEF RecordsApart, CleanupSparesMember

LEMMA DeleteSessionApart ==
  ASSUME DataOK, RecordsApart, NEW o \in Op, CanDeleteSession(o), DeleteSession(o), UNCHANGED <<minted, again>>
  PROVE  RecordsApart'
<1>1. SessionOp = o /\ reservation' = None /\ SessionOp' = None /\ None \notin Op
  BY NoneAssumption DEF CanDeleteSession, DeleteSession, SessionOp
<1> QED
  BY <1>1 DEF RecordsApart, CleanupSparesMember, DeleteSession, DataOK

\* Nothing is added: records stay, go, or a cleanup is completed.
LEMMA FewerApart ==
  ASSUME DataOK, RecordsApart, UNCHANGED <<minted, again>>, cleanups' \subseteq cleanups,
         session' \in {session, None}, reservation' \in {reservation, None}
  PROVE  RecordsApart'
<1>1. SessionOp' \in {SessionOp, None} /\ None \notin cleanups
  BY NoneAssumption DEF SessionOp, DataOK
<1>2. reservation' # None => reservation.op # None
  BY NoneAssumption, ReadTypes
<1> QED
  BY <1>1, <1>2 DEF RecordsApart, CleanupSparesMember

-----------------------------------------------------------------------------
(* The actions. *)

\* A handler that begins brings an operation no other handler has.
LEMMA BeginsFresh ==
  ASSUME JobsOK, JobsFresh, LateRequests = FALSE, NEW j \in Job,
         \/ \E o \in ClientOp : BeginJoin(j, o)
         \/ \E o \in ServerOp : BeginMove(j, o)
  PROVE  JobsFresh'
<1>1. PICK o \in Op : /\ o \notin minted /\ \A k \in Job : job[k].op # o
                      /\ job'[j].op = o /\ \A k \in Job \ {j} : job'[k] = job[k]
                      /\ UNCHANGED history
  BY DEF BeginJoin, BeginMove, Op, Become, JobsOK, Idle
<1> QED
  BY <1>1 DEF JobsFresh, Preparing, history

\* A handler that prepares its reservation uses the operation up.
LEMMA PreparesFresh ==
  ASSUME JobsOK, JobsFresh, NEW j \in Job, JoinPrepare(j) \/ MovePrepare(j)
  PROVE  JobsFresh'
<1>1. Preparing(j) /\ job[j] \in JobState
  BY DEF JoinPrepare, MovePrepare, At, Preparing, JobsOK
<1>2. Passes(j)
  <2>1. CASE JoinPrepare(j)
    BY <2>1, <1>1, BecomePasses, IdlePasses DEF JoinPrepare, JobState
  <2>2. CASE MovePrepare(j)
    BY <2>2, <1>1, IdlePasses, GotoPasses DEF MovePrepare, PC
  <2> QED
    BY <2>1, <2>2
<1>3. minted' = minted \/ minted' = minted \cup {job[j].op}
  BY DEF JoinPrepare, MovePrepare, PrepareReservation
<1> QED
  BY <1>1, <1>2, <1>3, PassesJobsFresh

\* A reservation that is made, or found to be there.
LEMMA PreparesApart ==
  ASSUME JobsOK, RecordsOK, RecordsApart, NEW j \in Job, JoinPrepare(j) \/ MovePrepare(j)
  PROVE  RecordsApart'
<1>1. job[j].op \in Op
  BY DEF JoinPrepare, MovePrepare, At, JobsOK, Claim
<1>2. PrepareReservation(job[j].op) \/ UNCHANGED <<redis, minted, again>>
  BY DEF JoinPrepare, MovePrepare
<1>3. UNCHANGED <<redis, minted, again>> => RecordsApart'
  BY FewerApart DEF redis, RecordsOK
<1> QED
  BY <1>1, <1>2, <1>3, PrepareApart DEF RecordsOK

\* Leaving and committing, in every place where the records change.
LEMMA ChangesApart ==
  ASSUME JobsOK, RecordsOK, RecordsApart, NEW j \in Job,
         \/ CancelExact(j) \/ RemoveCancel(j) \/ BeginModeration(j)
         \/ RemoveDelete(j) \/ LeftDelete(j) \/ JoinedCommit(j) \/ CompleteCleanup(j)
  PROVE  RecordsApart' /\ UNCHANGED <<minted, again>>
<1>0. DataOK /\ RecordsApart /\ Claim(job[j], conns)
  BY DEF JobsOK, RecordsOK
<1>1. UNCHANGED <<minted, again>>
  BY DEF CancelExact, RemoveCancel, BeginModeration, RemoveDelete, LeftDelete, JoinedCommit,
     CompleteCleanup, history
<1>2. CASE UNCHANGED redis
  BY <1>0, <1>1, <1>2, FewerApart DEF redis
<1>3. CASE CancelExact(j) \/ RemoveCancel(j) \/ BeginModeration(j)
  <2>1. \/ UNCHANGED redis
        \/ reservation # None /\ DeleteReservation(reservation)
    BY <1>0, <1>3, NoneAssumption DEF CancelExact, RemoveCancel, BeginModeration, Claim, At
  <2> QED
    BY <1>0, <1>1, <1>2, <2>1, DeleteReservationApart
<1>4. CASE RemoveDelete(j) \/ LeftDelete(j)
  <2>1. \/ UNCHANGED redis
        \/ \E o \in Op : CanDeleteSession(o) /\ DeleteSession(o)
    BY <1>0, <1>4 DEF RemoveDelete, LeftDelete, Claim, At
  <2> QED
    BY <1>0, <1>1, <1>2, <2>1, DeleteSessionApart
<1>5. CASE JoinedCommit(j)
  <2>1. /\ job[j].rec \in Reservation
        /\ [op |-> job[j].rec.op, n |-> job[j].n] \in conns
    BY <1>0, <1>5 DEF JoinedCommit, At, Claim
  <2>2. \/ UNCHANGED redis
        \/ CanCommit(job[j].rec) /\ CommitJoin(job[j].rec, job[j].n)
    BY <1>5 DEF JoinedCommit
  <2> QED
    BY <1>0, <1>1, <1>2, <2>1, <2>2, CommitApart
<1>6. CASE CompleteCleanup(j)
  BY <1>0, <1>1, <1>6, FewerApart DEF CompleteCleanup
<1> QED
  BY <1>1, <1>3, <1>4, <1>5, <1>6

\* Everything else leaves the records alone.
LEMMA OthersKeep ==
  ASSUME NEW j \in Job,
         \/ ListCleanups(j) \/ \E o \in Op : RetireTransport(j, o) \/ RetireFails(j, o)
         \/ RetireDone(j) \/ IssueCredentials(j) \/ Publish(j) \/ Kick(j)
         \/ \E o \in Op : BeginDisconnect(j, o)
         \/ RemoveCheck(j) \/ RemoveRead(j) \/ Moderate(j) \/ MoveLease(j)
         \/ \E c \in Conn : BeginJoined(j, c) \/ BeginLeft(j, c)
         \/ JoinedFind(j)
         \/ \E c \in Channel : BeginReconcile(j, c)
         \/ Probe(j) \/ Inspect(j) \/ InspectDead(j) \/ RemoveStrangers(j) \/ BeginSweep(j)
         \/ Crash(j) \/ Bury(j)
  PROVE  UNCHANGED <<redis, minted, again>>
<1>1. CASE \/ ListCleanups(j) \/ \E o \in Op : RetireTransport(j, o) \/ RetireFails(j, o)
           \/ RetireDone(j) \/ IssueCredentials(j) \/ Publish(j) \/ Kick(j)
  BY <1>1 DEF ListCleanups, RetireTransport, RetireFails, RetireDone, IssueCredentials, Publish,
     Kick, history
<1>2. CASE \/ \E o \in Op : BeginDisconnect(j, o)
           \/ RemoveCheck(j) \/ RemoveRead(j) \/ Moderate(j) \/ MoveLease(j)
  BY <1>2 DEF BeginDisconnect, RemoveCheck, RemoveRead, Moderate, MoveLease, history
<1>3. CASE (\E c \in Conn : BeginJoined(j, c) \/ BeginLeft(j, c)) \/ JoinedFind(j)
  BY <1>3 DEF BeginJoined, BeginLeft, JoinedFind, history
<1>4. CASE \/ \E c \in Channel : BeginReconcile(j, c)
           \/ Probe(j) \/ Inspect(j) \/ InspectDead(j)
  BY <1>4 DEF BeginReconcile, Probe, Inspect, InspectDead, history
<1>5. CASE RemoveStrangers(j) \/ BeginSweep(j) \/ Crash(j) \/ Bury(j)
  BY <1>5 DEF RemoveStrangers, BeginSweep, Crash, Bury, history
<1> QED
  BY <1>1, <1>2, <1>3, <1>4, <1>5

LEMMA JobStepFresh ==
  ASSUME JobsOK, JobsFresh, LateRequests = FALSE, NEW j \in Job, JobStep(j)
  PROVE  JobsFresh'
<1>0. Passes(j) /\ minted' = minted => JobsFresh'
  BY PassesJobsFresh
<1>1. CASE (\E o \in ClientOp : BeginJoin(j, o)) \/ \E o \in ServerOp : BeginMove(j, o)
  BY <1>1, BeginsFresh
<1>2. CASE JoinPrepare(j) \/ MovePrepare(j)
  BY <1>2, PreparesFresh
<1>3. CASE \/ CancelExact(j) \/ RemoveCancel(j) \/ BeginModeration(j)
           \/ RemoveDelete(j) \/ LeftDelete(j) \/ JoinedCommit(j) \/ CompleteCleanup(j)
  <2>1. minted' = minted
    BY <1>3 DEF CancelExact, RemoveCancel, BeginModeration, RemoveDelete, LeftDelete,
       JoinedCommit, CompleteCleanup, history
  <2> QED
    BY <1>0, <1>3, <2>1, OtherActionsPass
<1>4. CASE \/ ListCleanups(j) \/ \E o \in Op : RetireTransport(j, o) \/ RetireFails(j, o)
           \/ RetireDone(j) \/ IssueCredentials(j) \/ Publish(j) \/ Kick(j)
           \/ \E o \in Op : BeginDisconnect(j, o)
           \/ RemoveCheck(j) \/ RemoveRead(j) \/ Moderate(j) \/ MoveLease(j)
           \/ \E c \in Conn : BeginJoined(j, c) \/ BeginLeft(j, c)
           \/ JoinedFind(j)
           \/ \E c \in Channel : BeginReconcile(j, c)
           \/ Probe(j) \/ Inspect(j) \/ InspectDead(j) \/ RemoveStrangers(j) \/ BeginSweep(j)
           \/ Crash(j) \/ Bury(j)
  BY <1>0, <1>4, OthersKeep, OtherActionsPass
<1> QED
  BY <1>1, <1>2, <1>3, <1>4 DEF JobStep

LEMMA JobStepApart ==
  ASSUME JobsOK, RecordsOK, RecordsApart, NEW j \in Job, JobStep(j)
  PROVE  RecordsApart'
<1>0. UNCHANGED <<redis, minted, again>> => RecordsApart'
  BY FewerApart DEF redis, RecordsOK
<1>1. CASE (\E o \in ClientOp : BeginJoin(j, o)) \/ \E o \in ServerOp : BeginMove(j, o)
  BY <1>0, <1>1 DEF BeginJoin, BeginMove, history
<1>2. CASE JoinPrepare(j) \/ MovePrepare(j)
  BY <1>2, PreparesApart
<1>3. CASE \/ CancelExact(j) \/ RemoveCancel(j) \/ BeginModeration(j)
           \/ RemoveDelete(j) \/ LeftDelete(j) \/ JoinedCommit(j) \/ CompleteCleanup(j)
  BY <1>3, ChangesApart
<1>4. CASE \/ ListCleanups(j) \/ \E o \in Op : RetireTransport(j, o) \/ RetireFails(j, o)
           \/ RetireDone(j) \/ IssueCredentials(j) \/ Publish(j) \/ Kick(j)
           \/ \E o \in Op : BeginDisconnect(j, o)
           \/ RemoveCheck(j) \/ RemoveRead(j) \/ Moderate(j) \/ MoveLease(j)
           \/ \E c \in Conn : BeginJoined(j, c) \/ BeginLeft(j, c)
           \/ JoinedFind(j)
           \/ \E c \in Channel : BeginReconcile(j, c)
           \/ Probe(j) \/ Inspect(j) \/ InspectDead(j) \/ RemoveStrangers(j) \/ BeginSweep(j)
           \/ Crash(j) \/ Bury(j)
  BY <1>0, <1>4, OthersKeep
<1> QED
  BY <1>1, <1>2, <1>3, <1>4 DEF JobStep

\* LiveKit, time and stuttering.
LEMMA EnvironmentApart ==
  ASSUME RecordsOK,
         \/ \E c \in Conn : Connect(c) \/ Drop(c)
         \/ LapseReservation \/ LapseSession
         \/ UNCHANGED vars
  PROVE  /\ JobsFresh => JobsFresh'
         /\ RecordsApart => RecordsApart'
<1>1. /\ job' = job /\ UNCHANGED <<minted, again>> /\ cleanups' = cleanups
      /\ session' \in {session, None} /\ reservation' \in {reservation, None}
  BY DEF Connect, Drop, LapseReservation, LapseSession, vars, redis, history
<1>2. JobsFresh => JobsFresh'
  BY <1>1 DEF JobsFresh, Preparing
<1> QED
  BY <1>1, <1>2, FewerApart DEF RecordsOK

\* It holds at first: no handler is running and nothing was reserved.
LEMMA InitFresh == Init => JobsFresh /\ RecordsApart
  BY NoneAssumption DEF Init, JobsFresh, Preparing, RecordsApart, CleanupSparesMember,
     SessionOp, Idle

\* The transport of the member is never on the list of those to chase, unless
\* its operation was reserved again after it had lost the account: a request
\* that is handled twice while it holds the reservation does no harm.
THEOREM VoiceCleanupSparesMember == Spec => []CleanupSparesMember
<1>1. Init => RecordsApart
  BY InitFresh
<1>2. IInv /\ RecordsApart /\ [Next]_vars => RecordsApart'
  BY JobStepApart, EnvironmentApart DEF IInv, Next
<1>3. RecordsApart => CleanupSparesMember
  BY DEF RecordsApart
<1> QED
  BY IInvAlways, <1>1, <1>2, <1>3, PTL DEF Spec

-----------------------------------------------------------------------------
(* The account: every step of a handler is one of VoiceAccount, or none.    *)

\* The account's steps, on the records.
LEMMA RecordsStep ==
  ASSUME DataOK, DataOK', minted \subseteq minted',
         \/ /\ reservation' # None /\ reservation'.op \in minted' /\ session' = session
            /\ LateRequests \/ reservation'.op \notin minted
         \/ /\ reservation # None /\ session' # None /\ session'.op = reservation.op
            /\ reservation' = None
         \/ /\ reservation # None /\ reservation' = None /\ session' = session
         \/ /\ session # None /\ session' = None /\ reservation' = None
         \/ UNCHANGED <<reservation, session>>
  PROVE  Account!AccountNext
<1>1. /\ reservation # None => reservation.op # None
      /\ reservation' # None => reservation'.op # None
      /\ session # None => session.op # None
  BY NoneAssumption DEF DataOK, Reservation, Conn
<1> QED
  BY <1>1 DEF Account!AccountNext, Account!Reserve, Account!Commit, Account!Withdraw,
     Account!Remove, Account!Refuse, Account!UseUp, SessionOp

\* A handler that reserves.
LEMMA PrepareIsReserve ==
  ASSUME IInv, IInv', LateRequests \/ JobsFresh, NEW j \in Job, JoinPrepare(j) \/ MovePrepare(j)
  PROVE  Account!AccountNext
<1>1. DataOK /\ DataOK'
  BY DEF IInv, RecordsOK
<1>2. /\ job[j].op \in Op
      /\ LateRequests \/ job[j].op \notin minted
  BY DEF JoinPrepare, MovePrepare, At, Preparing, JobsFresh, IInv, JobsOK, Claim
<1>3. PrepareReservation(job[j].op) \/ UNCHANGED <<redis, minted>>
  BY DEF JoinPrepare, MovePrepare
<1>4. CASE PrepareReservation(job[j].op)
  <2>1. reservation' = [op |-> job[j].op, after |-> Anchor] /\ session' = session
        /\ minted' = minted \cup {job[j].op}
    BY <1>4 DEF PrepareReservation
  <2>2. reservation' # None /\ reservation'.op = job[j].op
    BY <1>1, <1>2, <2>1, ReadTypes, NoneAssumption DEF Reservation
  <2> QED
    BY <1>1, <1>2, <2>1, <2>2, RecordsStep
<1>5. CASE UNCHANGED <<redis, minted>>
  BY <1>1, <1>5, RecordsStep DEF redis
<1> QED
  BY <1>3, <1>4, <1>5

\* A handler that cancels, commits or ends.
LEMMA ChangeIsStep ==
  ASSUME IInv, IInv', NEW j \in Job,
         \/ CancelExact(j) \/ RemoveCancel(j) \/ BeginModeration(j)
         \/ RemoveDelete(j) \/ LeftDelete(j) \/ JoinedCommit(j) \/ CompleteCleanup(j)
  PROVE  Account!AccountNext
<1>0. DataOK /\ DataOK' /\ Claim(job[j], conns)
  BY DEF IInv, JobsOK, RecordsOK
<1>1. minted' = minted
  BY DEF CancelExact, RemoveCancel, BeginModeration, RemoveDelete, LeftDelete, JoinedCommit,
     CompleteCleanup, history
<1>2. CASE UNCHANGED <<reservation, session>>
  BY <1>0, <1>1, <1>2, RecordsStep
<1>3. CASE CancelExact(j) \/ RemoveCancel(j) \/ BeginModeration(j)
  <2>1. \/ UNCHANGED redis
        \/ reservation # None /\ DeleteReservation(reservation)
    BY <1>0, <1>3, NoneAssumption DEF CancelExact, RemoveCancel, BeginModeration, Claim, At
  <2> QED
    BY <1>0, <1>1, <1>2, <2>1, RecordsStep DEF redis, DeleteReservation
<1>4. CASE RemoveDelete(j) \/ LeftDelete(j)
  <2>1. \/ UNCHANGED redis
        \/ \E o \in Op : CanDeleteSession(o) /\ DeleteSession(o)
    BY <1>0, <1>4 DEF RemoveDelete, LeftDelete, Claim, At
  <2>2. ASSUME NEW o \in Op, CanDeleteSession(o), DeleteSession(o)
        PROVE  session # None /\ session' = None /\ reservation' = None
    BY <2>2, NoneAssumption DEF CanDeleteSession, DeleteSession, SessionOp
  <2> QED
    BY <1>0, <1>1, <1>2, <2>1, <2>2, RecordsStep DEF redis
<1>5. CASE JoinedCommit(j)
  <2>1. /\ job[j].rec \in Reservation
        /\ [op |-> job[j].rec.op, n |-> job[j].n] \in Conn
    BY <1>0, <1>5 DEF JoinedCommit, At, Claim, DataOK
  <2>2. \/ UNCHANGED redis
        \/ CanCommit(job[j].rec) /\ CommitJoin(job[j].rec, job[j].n)
    BY <1>5 DEF JoinedCommit
  <2>3. ASSUME CanCommit(job[j].rec), CommitJoin(job[j].rec, job[j].n)
        PROVE  /\ reservation # None /\ session' # None /\ session'.op = reservation.op
               /\ reservation' = None
    BY <2>1, <2>3, NoneAssumption DEF CanCommit, CommitJoin
  <2> QED
    BY <1>0, <1>1, <1>2, <2>2, <2>3, RecordsStep DEF redis
<1>6. CASE CompleteCleanup(j)
  BY <1>2, <1>6 DEF CompleteCleanup
<1> QED
  BY <1>3, <1>4, <1>5, <1>6

\* Expiry, and everything that leaves the records alone.
LEMMA ElseIsStep ==
  ASSUME IInv, IInv',
         \/ UNCHANGED <<redis, minted>>
         \/ LapseReservation \/ LapseSession
  PROVE  Account!AccountNext
<1>1. DataOK /\ DataOK' /\ Anchored
  BY DEF IInv, RecordsOK
<1>2. LapseSession => session # None /\ reservation = None
  BY <1>1, NoneAssumption DEF LapseSession, Anchored, SessionOp
<1> QED
  BY <1>1, <1>2, RecordsStep DEF redis, LapseReservation, LapseSession

\* Every step of the handlers, of LiveKit and of time is a step of the account.
LEMMA NextIsStep ==
  ASSUME IInv, IInv', LateRequests \/ JobsFresh, [Next]_vars
  PROVE  Account!AccountNext
<1>1. ASSUME NEW j \in Job, JobStep(j) PROVE Account!AccountNext
  <2>1. CASE (\E o \in ClientOp : BeginJoin(j, o)) \/ \E o \in ServerOp : BeginMove(j, o)
    BY <2>1, ElseIsStep DEF BeginJoin, BeginMove, history
  <2>2. CASE JoinPrepare(j) \/ MovePrepare(j)
    BY <2>2, PrepareIsReserve
  <2>3. CASE \/ CancelExact(j) \/ RemoveCancel(j) \/ BeginModeration(j)
             \/ RemoveDelete(j) \/ LeftDelete(j) \/ JoinedCommit(j) \/ CompleteCleanup(j)
    BY <2>3, ChangeIsStep
  <2>4. CASE \/ ListCleanups(j) \/ \E o \in Op : RetireTransport(j, o) \/ RetireFails(j, o)
             \/ RetireDone(j) \/ IssueCredentials(j) \/ Publish(j) \/ Kick(j)
             \/ \E o \in Op : BeginDisconnect(j, o)
             \/ RemoveCheck(j) \/ RemoveRead(j) \/ Moderate(j) \/ MoveLease(j)
             \/ \E c \in Conn : BeginJoined(j, c) \/ BeginLeft(j, c)
             \/ JoinedFind(j)
             \/ \E c \in Channel : BeginReconcile(j, c)
             \/ Probe(j) \/ Inspect(j) \/ InspectDead(j) \/ RemoveStrangers(j) \/ BeginSweep(j)
             \/ Crash(j) \/ Bury(j)
    BY <2>4, OthersKeep, ElseIsStep
  <2> QED
    BY <1>1, <2>1, <2>2, <2>3, <2>4 DEF JobStep
<1>2. CASE (\E c \in Conn : Connect(c) \/ Drop(c)) \/ UNCHANGED vars
  BY <1>2, ElseIsStep DEF Connect, Drop, vars, redis, history
<1> QED
  BY <1>1, <1>2, ElseIsStep DEF Next

\* The handlers of the backend, interleaved in any way, dying anywhere and with
\* records that expire, implement the account: what they do to it are the
\* steps of VoiceAccount.
THEOREM VoiceOneAuthority == Spec => OneAuthority
<1>1. Init => Account!AccountInit
  BY DEF Init, Account!AccountInit, SessionOp
<1>2. Init => LateRequests \/ JobsFresh
  BY InitFresh
<1>3. IInv /\ (LateRequests \/ JobsFresh) /\ [Next]_vars => (LateRequests \/ JobsFresh)'
  BY BoundAssumption, JobStepFresh, EnvironmentApart DEF IInv, Next
<1>4. IInv /\ IInv' /\ (LateRequests \/ JobsFresh) /\ [Next]_vars
        => [Account!AccountNext]_(Account!accountVars)
  BY NextIsStep
<1> QED
  BY IInvAlways, <1>1, <1>2, <1>3, <1>4, PTL DEF Spec, OneAuthority, Account!AccountSpec
=============================================================================
