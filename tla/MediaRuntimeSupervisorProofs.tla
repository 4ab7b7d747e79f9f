-------------------- MODULE MediaRuntimeSupervisorProofs --------------------
(***************************************************************************)
(* What the supervisor keeps for any number of calls, restarts and hosts.  *)
(***************************************************************************)
EXTENDS MediaRuntimeSupervisor, TLAPS

\* Epochs are numbers.
Numbers ==
  /\ adapter \in Nat /\ hostEpoch \in Nat /\ retiring \in Nat
  /\ live \subseteq Nat \ {0}

\* The adapter in use is the latest one, and there is none while one retires.
LatestInUse == adapter \in {0, hostEpoch} /\ (retiring # 0 => adapter = 0)

\* A process exists only under the adapter in use or the one that retires, unless
\* its termination has failed.
Accounted == ~doomed => live \subseteq {adapter, retiring}

\* An adapter in use is starting or ready, until shutdown or a failed termination.
InUseIsUp == adapter # 0 /\ down = "no" /\ ~doomed => status = "ready" \/ starting

\* After a failed termination no adapter serves or starts.
DoomedIsDown == doomed /\ adapter # 0 => status \in {"failed", "stopped"}

\* Shutdown waits for a retirement only when nothing else is left.
WaitingIsAlone == down = "waiting" => adapter = 0

IInv ==
  /\ Numbers /\ LatestInUse /\ Accounted /\ InUseIsUp /\ DoomedIsDown /\ WaitingIsAlone
  /\ NothingLeftBehind

\* A host is launched only when there is none.
LEMMA LaunchAlone ==
  ASSUME IInv, ~doomed, retiring = 0, status # "ready", ~starting, down = "no"
  PROVE  adapter = 0 /\ live = {}
  BY DEF IInv, Numbers, Accounted, InUseIsUp

\* The initial states satisfy the invariant.
LEMMA InitIInv == Init => IInv
  BY DEF Init, IInv, Numbers, LatestInUse, Accounted, InUseIsUp, DoomedIsDown, WaitingIsAlone,
         NothingLeftBehind

\* Launching keeps the invariant.
LEMMA LaunchIInv ==
  ASSUME IInv, ~doomed, retiring = 0, status # "ready", ~starting, down = "no",
         NEW callers, LaunchHost(callers)
  PROVE  IInv'
<1>1. adapter = 0 /\ live = {} BY LaunchAlone
<1> QED BY <1>1 DEF IInv, Numbers, LatestInUse, Accounted, InUseIsUp, DoomedIsDown,
           WaitingIsAlone, NothingLeftBehind, LaunchHost

\* So does giving a host up.
LEMMA RetireIInv == ASSUME IInv, RetireHost, adapter # 0 PROVE IInv'
  BY DEF IInv, Numbers, LatestInUse, Accounted, InUseIsUp, DoomedIsDown, WaitingIsAlone,
         NothingLeftBehind, RetireHost

\* Every step keeps the invariant.
LEMMA StepIInv == ASSUME IInv, [Next]_vars PROVE IInv'
<1> USE DEF IInv, Numbers, LatestInUse, Accounted, InUseIsUp, DoomedIsDown, WaitingIsAlone,
            NothingLeftBehind
<1>1. ASSUME NEW r \in Req, Call(r) PROVE IInv'
  <2>1. CASE CanLaunch(FALSE) /\ LaunchHost({r}) BY <2>1, LaunchIInv DEF CanLaunch
  <2>2. CASE UNCHANGED <<adapter, hostEpoch, retiring, doomed, starting, status, down, live>>
    BY <2>2
  <2> QED BY <1>1, <2>1, <2>2 DEF Call
<1>2. ASSUME NEW r \in Req, Deadline(r) PROVE IInv' BY <1>2 DEF Deadline
<1>3. ASSUME NEW r \in Req, NEW e \in Host, HandleReply(e, r) PROVE IInv' BY <1>3 DEF HandleReply
<1>4. ASSUME NEW e \in Host, HandleReady(e) PROVE IInv'
  <2>1. CASE RetireHost BY <1>4, <2>1, RetireIInv DEF HandleReady, Host
  <2>2. CASE status' = "ready" /\ status \in {"starting", "recovering"} /\ starting' = FALSE
             /\ UNCHANGED <<adapter, hostEpoch, retiring, doomed, down, live>>
    BY <1>4, <2>2
  <2> QED BY <1>4, <2>1, <2>2 DEF HandleReady
<1>5. ASSUME NEW e \in Host, HandleFault(e) PROVE IInv' BY <1>5, RetireIInv DEF HandleFault, Host
<1>6. ASSUME NEW e \in Host, HandleExit(e) PROVE IInv'
  BY <1>6 DEF HandleExit, ScheduleRestart, FinishStopped, Host
<1>7. ASSUME NEW e \in Host, Greet(e) PROVE IInv' BY <1>7 DEF Greet
<1>8. ASSUME NEW e \in Host, Exit(e) PROVE IInv' BY <1>8 DEF Exit
<1>9. CASE Retry
  <2>1. CASE CanLaunch(TRUE) /\ LaunchHost({}) BY <2>1, LaunchIInv DEF CanLaunch
  <2>2. CASE UNCHANGED <<adapter, hostEpoch, retiring, doomed, starting, status, down, live>>
    BY <2>2
  <2> QED BY <1>9, <2>1, <2>2 DEF Retry
<1>10. CASE RestartTimer BY <1>10, LaunchIInv DEF RestartTimer
<1>11. CASE FailHandshake BY <1>11, RetireIInv DEF FailHandshake
<1>12. CASE StableReset BY <1>12 DEF StableReset
<1>13. CASE RetirementEnds
  BY <1>13 DEF RetirementEnds, ScheduleRestart, FinishStopped, TerminationFails
<1>14. CASE Shutdown BY <1>14 DEF Shutdown, Stop, FinishStopped
<1>15. CASE GracefulEnds BY <1>15 DEF GracefulEnds, ShutdownSettles, Stop, FinishStopped
<1>16. CASE KillEnds BY <1>16 DEF KillEnds, Stop, FinishStopped, TerminationFails
<1>17. CASE WaitEnds BY <1>17 DEF WaitEnds, ShutdownSettles, Stop, FinishStopped
<1>18. CASE UNCHANGED vars BY <1>18 DEF vars
<1> QED
  BY <1>1, <1>2, <1>3, <1>4, <1>5, <1>6, <1>7, <1>8, <1>9, <1>10, <1>11, <1>12, <1>13, <1>14,
     <1>15, <1>16, <1>17, <1>18 DEF Next

\* The invariant holds in every state the supervisor can reach.
THEOREM SupervisorIInv == Spec => []IInv
<1>1. Init => IInv BY InitIInv
<1>2. IInv /\ [Next]_vars => IInv' BY StepIInv
<1> QED BY <1>1, <1>2, PTL DEF Spec

\* A runtime that has shut down without an error has left no process behind: the
\* adapter in use and the one that retires are all there is, and stop() waits for
\* both of them.
THEOREM SupervisorNothingLeftBehind == Spec => []NothingLeftBehind
<1>1. IInv => NothingLeftBehind BY DEF IInv
<1> QED BY <1>1, SupervisorIInv, PTL

------------------------------------------------------------------------------
(* The supervisor implements HostLifecycle. *)

\* A launch of the supervisor is a launch of HostLifecycle, or nothing when the fork
\* fails before its number is used.
LEMMA LaunchMaps ==
  ASSUME IInv, ~doomed, retiring = 0, status # "ready", ~starting, down = "no",
         NEW callers, LaunchHost(callers)
  PROVE  [Hosts!HostNext]_(Hosts!hostVars)
<1>1. adapter = 0 /\ live = {} BY LaunchAlone
<1>2. Numbers BY DEF IInv
<1>3. CASE adapter' = hostEpoch + 1 /\ hostEpoch' = hostEpoch + 1 /\ live' = live \cup {hostEpoch + 1}
           /\ status' \in {"recovering", "starting"} /\ UNCHANGED doomed
  BY <1>1, <1>2, <1>3 DEF Numbers, Hosts!HostNext, Hosts!Launch
<1>4. CASE hostEpoch' \in {hostEpoch, hostEpoch + 1} /\ status' \in {"failed", "recovering"}
           /\ UNCHANGED <<adapter, live, doomed>>
  BY <1>1, <1>4 DEF Hosts!HostNext, Hosts!Launch, Hosts!hostVars
<1> QED BY <1>3, <1>4 DEF LaunchHost

\* Giving the host up is Abandon, unless it was given up before.
LEMMA RetireMaps ==
  ASSUME IInv, RetireHost, adapter # 0 PROVE [Hosts!HostNext]_(Hosts!hostVars)
  BY DEF IInv, DoomedIsDown, RetireHost, Hosts!HostNext, Hosts!Abandon, Hosts!hostVars

\* Every step is a step of HostLifecycle or changes nothing of it.
LEMMA StepMaps == ASSUME IInv, [Next]_vars PROVE [Hosts!HostNext]_(Hosts!hostVars)
<1> USE DEF IInv, LatestInUse, DoomedIsDown, WaitingIsAlone, Hosts!hostVars
<1>1. ASSUME NEW r \in Req, Call(r) PROVE [Hosts!HostNext]_(Hosts!hostVars)
  <2>1. CASE CanLaunch(FALSE) /\ LaunchHost({r}) BY <2>1, LaunchMaps DEF CanLaunch
  <2>2. CASE UNCHANGED <<adapter, hostEpoch, doomed, status, live>> BY <2>2
  <2> QED BY <1>1, <2>1, <2>2 DEF Call
<1>2. ASSUME NEW r \in Req, Deadline(r) PROVE [Hosts!HostNext]_(Hosts!hostVars)
  BY <1>2 DEF Deadline
<1>3. ASSUME NEW r \in Req, NEW e \in Host, HandleReply(e, r)
      PROVE  [Hosts!HostNext]_(Hosts!hostVars)
  BY <1>3 DEF HandleReply
<1>4. ASSUME NEW e \in Host, HandleReady(e) PROVE [Hosts!HostNext]_(Hosts!hostVars)
  <2>1. CASE RetireHost BY <1>4, <2>1, RetireMaps DEF HandleReady, Host
  <2>2. CASE status' = "ready" /\ status \in {"starting", "recovering"}
             /\ UNCHANGED <<adapter, hostEpoch, doomed, live>>
    BY <1>4, <2>2 DEF HandleReady, Host, Hosts!HostNext, Hosts!Serve
  <2> QED BY <1>4, <2>1, <2>2 DEF HandleReady
<1>5. ASSUME NEW e \in Host, HandleFault(e) PROVE [Hosts!HostNext]_(Hosts!hostVars)
  BY <1>5, RetireMaps DEF HandleFault, Host
<1>6. ASSUME NEW e \in Host, HandleExit(e) PROVE [Hosts!HostNext]_(Hosts!hostVars)
  <2>1. status' # "ready" BY <1>6 DEF HandleExit, ScheduleRestart, FinishStopped
  <2> QED BY <1>6, <2>1 DEF HandleExit, Host, Hosts!HostNext, Hosts!Abandon
<1>7. ASSUME NEW e \in Host, Greet(e) PROVE [Hosts!HostNext]_(Hosts!hostVars)
  BY <1>7 DEF Greet
<1>8. ASSUME NEW e \in Host, Exit(e) PROVE [Hosts!HostNext]_(Hosts!hostVars)
  BY <1>8 DEF Exit, Hosts!HostNext, Hosts!Die
<1>9. CASE Retry
  <2>1. CASE CanLaunch(TRUE) /\ LaunchHost({}) BY <2>1, LaunchMaps DEF CanLaunch
  <2>2. CASE UNCHANGED <<adapter, hostEpoch, doomed, status, live>> BY <2>2
  <2> QED BY <1>9, <2>1, <2>2 DEF Retry
<1>10. CASE RestartTimer BY <1>10, LaunchMaps DEF RestartTimer
<1>11. CASE FailHandshake BY <1>11, RetireMaps DEF FailHandshake
<1>12. CASE StableReset BY <1>12 DEF StableReset
<1>13. CASE RetirementEnds
  BY <1>13 DEF RetirementEnds, ScheduleRestart, FinishStopped, TerminationFails
<1>14. CASE Shutdown BY <1>14 DEF Shutdown, Stop, FinishStopped
<1>15. CASE GracefulEnds BY <1>15 DEF GracefulEnds, ShutdownSettles, Stop, FinishStopped
<1>16. CASE KillEnds
  BY <1>16 DEF KillEnds, Stop, FinishStopped, TerminationFails, Hosts!HostNext, Hosts!Abandon
<1>17. CASE WaitEnds BY <1>17 DEF WaitEnds, ShutdownSettles, Stop, FinishStopped
<1>18. CASE UNCHANGED vars BY <1>18 DEF vars
<1> QED
  BY <1>1, <1>2, <1>3, <1>4, <1>5, <1>6, <1>7, <1>8, <1>9, <1>10, <1>11, <1>12, <1>13, <1>14,
     <1>15, <1>16, <1>17, <1>18 DEF Next

\* One process at a time: whoever starts a host (a call, the restart timer, a manual
\* retry) starts it after every earlier one is gone, and only the latest one serves.
THEOREM SupervisorOneHost == Spec => OneHost
<1>1. Init => Hosts!HostInit BY DEF Init, Hosts!HostInit
<1>2. IInv /\ [Next]_vars => [Hosts!HostNext]_(Hosts!hostVars) BY StepMaps
<1> QED BY <1>1, <1>2, SupervisorIInv, PTL DEF Spec, OneHost, Hosts!HostSpec

\* Once shutdown has begun, no step launches.
LEMMA LaunchNeedsUp ==
  ASSUME [Next]_vars, down # "no" PROVE live' \subseteq live
<1>1. ASSUME NEW r \in Req, Call(r) PROVE live' = live
  BY <1>1 DEF Call, CanLaunch
<1>2. CASE Retry
  <2>1. ~CanLaunch(TRUE) BY DEF CanLaunch
  <2> QED BY <1>2, <2>1 DEF Retry
<1>3. ASSUME NEW e \in Host, Exit(e) PROVE live' \subseteq live BY <1>3 DEF Exit
<1>4. ASSUME NEW e \in Host, HandleReady(e) \/ HandleFault(e) \/ HandleExit(e) \/ Greet(e)
      PROVE  live' = live
  BY <1>4 DEF HandleReady, HandleFault, HandleExit, Greet, RetireHost
<1>5. ASSUME NEW r \in Req, Deadline(r) \/ \E e \in Host : HandleReply(e, r) PROVE live' = live
  BY <1>5 DEF Deadline, HandleReply
<1>6. CASE RestartTimer \/ FailHandshake \/ StableReset \/ RetirementEnds
  BY <1>6 DEF RestartTimer, FailHandshake, StableReset, RetirementEnds, RetireHost
<1>7. CASE Shutdown \/ GracefulEnds \/ KillEnds \/ WaitEnds
  BY <1>7 DEF Shutdown, GracefulEnds, KillEnds, WaitEnds
<1>8. CASE UNCHANGED vars BY <1>8 DEF vars
<1> QED BY <1>1, <1>2, <1>3, <1>4, <1>5, <1>6, <1>7, <1>8 DEF Next

\* No start, retry, timer or late promise starts a host after shutdown began.
THEOREM SupervisorNoStartAfterShutdown == Spec => NoStartAfterShutdown
<1>1. [Next]_vars => [down # "no" => live' \subseteq live]_vars BY LaunchNeedsUp
<1> QED BY <1>1, PTL DEF Spec, NoStartAfterShutdown

------------------------------------------------------------------------------
(* The budget of restarts. *)

\* Every start but the first has used up a restart, and the next one has too unless
\* a user asks for it.
Budget ==
  /\ attempt \in Nat /\ launches \in Nat /\ attempt <= MaxRestarts
  /\ launches <= attempt + 1
  /\ adapter = 0 /\ retiring = 0 /\ status # "failed" /\ down = "no" /\ ~doomed
       => launches <= attempt

\* A start spends what the end of the last host has set aside.
LEMMA LaunchBudget ==
  ASSUME IInv, Budget, ~doomed, retiring = 0, status # "ready", ~starting, down = "no",
         NEW callers, LaunchHost(callers)
  PROVE  Budget'
<1>1. adapter = 0 BY LaunchAlone
<1>2. hostEpoch \in Nat BY DEF IInv, Numbers
<1>3. CASE adapter' = hostEpoch + 1
  BY <1>1, <1>2, <1>3, ConstantsOK DEF Budget, LaunchHost
<1>4. CASE adapter' = adapter
  BY <1>1, <1>2, <1>4, ConstantsOK DEF Budget, LaunchHost
<1> QED BY <1>3, <1>4 DEF LaunchHost

\* The end of a host sets a restart aside, or the runtime has failed.
LEMMA ScheduleBudget ==
  ASSUME Budget, ScheduleRestart, UNCHANGED <<doomed, down, launches>> PROVE Budget'
  BY ConstantsOK DEF Budget, ScheduleRestart, FinishStopped

\* Every step keeps to the budget.
LEMMA StepBudget == ASSUME IInv, Budget, [Next]_vars PROVE Budget'
<1>1. ASSUME NEW r \in Req, Call(r) PROVE Budget'
  <2>1. CASE CanLaunch(FALSE) /\ LaunchHost({r}) BY <2>1, LaunchBudget DEF CanLaunch
  <2>2. CASE UNCHANGED <<adapter, retiring, doomed, status, down, attempt, launches>>
    BY <2>2 DEF Budget
  <2> QED BY <1>1, <2>1, <2>2 DEF Call
<1>2. ASSUME NEW r \in Req, Deadline(r) PROVE Budget' BY <1>2 DEF Deadline, Budget
<1>3. ASSUME NEW r \in Req, NEW e \in Host, HandleReply(e, r) PROVE Budget'
  BY <1>3 DEF HandleReply, Budget
<1>4. ASSUME NEW e \in Host, HandleReady(e) PROVE Budget'
  <2>1. adapter # 0 BY <1>4 DEF HandleReady, Host
  <2>2. CASE RetireHost BY <2>1, <2>2 DEF RetireHost, Budget
  <2>3. CASE UNCHANGED <<adapter, attempt, launches>> BY <2>1, <2>3 DEF Budget
  <2> QED BY <1>4, <2>2, <2>3 DEF HandleReady
<1>5. ASSUME NEW e \in Host, HandleFault(e) PROVE Budget'
  BY <1>5 DEF HandleFault, Host, RetireHost, Budget
<1>6. ASSUME NEW e \in Host, HandleExit(e) PROVE Budget'
  BY <1>6, ScheduleBudget DEF HandleExit
<1>7. ASSUME NEW e \in Host, Greet(e) \/ Exit(e) PROVE Budget' BY <1>7 DEF Greet, Exit, Budget
<1>8. CASE Retry
  <2>1. CASE CanLaunch(TRUE) /\ LaunchHost({}) BY <2>1, LaunchBudget DEF CanLaunch
  <2>2. CASE UNCHANGED <<adapter, retiring, doomed, status, down, attempt, launches>>
    BY <2>2 DEF Budget
  <2> QED BY <1>8, <2>1, <2>2 DEF Retry
<1>9. CASE RestartTimer BY <1>9, LaunchBudget DEF RestartTimer
<1>10. CASE FailHandshake BY <1>10 DEF FailHandshake, RetireHost, Budget
<1>11. CASE StableReset BY <1>11, ConstantsOK DEF StableReset, Budget
<1>12. CASE RetirementEnds
  <2>1. CASE ScheduleRestart /\ UNCHANGED doomed BY <1>12, <2>1, ScheduleBudget DEF RetirementEnds
  <2>2. CASE TerminationFails BY <1>12, <2>2 DEF RetirementEnds, TerminationFails, Budget
  <2> QED BY <1>12, <2>1, <2>2 DEF RetirementEnds
<1>13. CASE Shutdown BY <1>13 DEF Shutdown, Stop, FinishStopped, Budget
<1>14. CASE GracefulEnds BY <1>14 DEF GracefulEnds, ShutdownSettles, Stop, FinishStopped, Budget
<1>15. CASE KillEnds BY <1>15 DEF KillEnds, Stop, FinishStopped, TerminationFails, Budget
<1>16. CASE WaitEnds BY <1>16 DEF WaitEnds, ShutdownSettles, Stop, FinishStopped, Budget
<1>17. CASE UNCHANGED vars BY <1>17 DEF vars, Budget
<1> QED
  BY <1>1, <1>2, <1>3, <1>4, <1>5, <1>6, <1>7, <1>8, <1>9, <1>10, <1>11, <1>12, <1>13, <1>14,
     <1>15, <1>16, <1>17 DEF Next

\* A crash loop ends: without the user, and without a host that stayed ready for its
\* stability window, the runtime starts at most one host and its restarts.
THEOREM SupervisorRestartBudget == Spec => []RestartBudget
<1>1. Init => Budget BY ConstantsOK DEF Init, Budget
<1>2. IInv /\ Budget /\ [Next]_vars => Budget' BY StepBudget
<1>3. Budget => RestartBudget BY ConstantsOK DEF Budget, RestartBudget
<1> QED BY <1>1, <1>2, <1>3, SupervisorIInv, PTL DEF Spec

------------------------------------------------------------------------------
(* What ready stands for. *)

\* ReadyIsCurrent, with the types it needs.
ReadyInv ==
  /\ rq \in [Req -> {"idle", "held", "awaiting", "pending", "resolved", "rejected"}]
  /\ 0 \notin greeted
  /\ ReadyIsCurrent

\* Rejected calls are not pending any more.
LEMMA RejectPending ==
  ASSUME rq \in [Req -> {"idle", "held", "awaiting", "pending", "resolved", "rejected"}],
         rq' = Reject(rq, {"awaiting", "pending"})
  PROVE  /\ rq' \in [Req -> {"idle", "held", "awaiting", "pending", "resolved", "rejected"}]
         /\ Pending' = {}
  BY DEF Reject, Pending

\* A host is launched while nothing is pending, and nothing becomes so.
LEMMA LaunchReady ==
  ASSUME IInv, ReadyInv, ~doomed, retiring = 0, status # "ready", ~starting, down = "no",
         NEW callers, LaunchHost(callers)
  PROVE  ReadyInv'
<1>1. Pending = {} BY LaunchAlone DEF ReadyInv, ReadyIsCurrent
<1>2. status' # "ready" /\ greeted' = greeted
      /\ \/ rq' = [r \in Req |-> IF r \in callers THEN "awaiting" ELSE rq[r]]
         \/ rq' = [r \in Req |-> IF r \in callers THEN "rejected" ELSE rq[r]]
  BY DEF LaunchHost
<1> QED BY <1>1, <1>2 DEF ReadyInv, ReadyIsCurrent, Pending

\* Nothing stays pending with a host that is given up.
LEMMA RetireReady == ASSUME ReadyInv, RetireHost PROVE ReadyInv'
  BY RejectPending DEF ReadyInv, ReadyIsCurrent, RetireHost

\* Every step keeps it.
LEMMA StepReady == ASSUME IInv, ReadyInv, [Next]_vars PROVE ReadyInv'
<1> DEFINE Same == UNCHANGED <<adapter, greeted, rq, status>>
           Gone == status' # "ready" /\ rq' = Reject(rq, {"awaiting", "pending"})
                   /\ greeted' = greeted
           Failed == status' # "ready" /\ UNCHANGED <<adapter, rq, greeted>>
<1>1. Same => ReadyInv' BY DEF ReadyInv, ReadyIsCurrent, Pending
<1>2. Gone => ReadyInv' BY RejectPending DEF ReadyInv, ReadyIsCurrent
<1>3. Failed => ReadyInv' BY DEF ReadyInv, ReadyIsCurrent, Pending
<1>4. ASSUME NEW r \in Req, Call(r) PROVE ReadyInv'
  <2>1. CASE CanLaunch(FALSE) /\ LaunchHost({r}) BY <2>1, LaunchReady DEF CanLaunch
  <2>2. CASE rq' = [rq EXCEPT ![r] = CallOutcome] /\ UNCHANGED <<adapter, greeted, status>>
    <3>1. CallOutcome = "pending" => status = "ready" BY DEF CallOutcome
    <3>2. CallOutcome \in {"rejected", "held", "pending", "awaiting"} BY DEF CallOutcome
    <3> QED BY <2>2, <3>1, <3>2 DEF ReadyInv, ReadyIsCurrent, Pending
  <2> QED BY <1>4, <2>1, <2>2 DEF Call
<1>5. ASSUME NEW r \in Req, Deadline(r) \/ \E e \in Host : HandleReply(e, r) PROVE ReadyInv'
  BY <1>5 DEF Deadline, HandleReply, ReadyInv, ReadyIsCurrent, Pending
<1>6. ASSUME NEW e \in Host, HandleReady(e) PROVE ReadyInv'
  <2>1. adapter = e /\ e # 0 /\ e \in greeted BY <1>6 DEF HandleReady, Host
  <2>2. CASE RetireHost BY <2>2, RetireReady
  <2>3. CASE /\ \E sent \in SUBSET {r \in Req : rq[r] = "awaiting"} :
                  rq' = [r \in Req |-> IF r \in sent THEN "pending"
                                       ELSE IF rq[r] = "awaiting" THEN "rejected" ELSE rq[r]]
             /\ UNCHANGED <<adapter, greeted>>
    BY <2>1, <2>3 DEF ReadyInv, ReadyIsCurrent
  <2> QED BY <1>6, <2>2, <2>3 DEF HandleReady
<1>7. ASSUME NEW e \in Host, HandleFault(e) PROVE ReadyInv' BY <1>7, RetireReady DEF HandleFault
<1>8. ASSUME NEW e \in Host, HandleExit(e) PROVE ReadyInv'
  BY <1>2, <1>8 DEF HandleExit, ScheduleRestart, FinishStopped
<1>9. ASSUME NEW e \in Host, Greet(e) PROVE ReadyInv'
  BY <1>9 DEF Greet, Host, ReadyInv, ReadyIsCurrent, Pending
<1>10. ASSUME NEW e \in Host, Exit(e) PROVE ReadyInv' BY <1>1, <1>10 DEF Exit
<1>11. CASE Retry
  <2>1. CASE CanLaunch(TRUE) /\ LaunchHost({}) BY <2>1, LaunchReady DEF CanLaunch
  <2> QED BY <1>1, <1>11, <2>1 DEF Retry
<1>12. CASE RestartTimer BY <1>12, LaunchReady DEF RestartTimer
<1>13. CASE FailHandshake BY <1>13, RetireReady DEF FailHandshake
<1>14. CASE StableReset BY <1>1, <1>14 DEF StableReset
<1>15. CASE RetirementEnds
  BY <1>3, <1>15 DEF RetirementEnds, ScheduleRestart, FinishStopped, TerminationFails
<1>16. CASE Shutdown BY <1>1, <1>2, <1>16 DEF Shutdown, Stop, FinishStopped
<1>17. CASE GracefulEnds
  BY <1>1, <1>2, <1>17 DEF GracefulEnds, ShutdownSettles, Stop, FinishStopped
<1>18. CASE KillEnds
  BY <1>1, <1>2, <1>3, <1>18 DEF KillEnds, Stop, FinishStopped, TerminationFails
<1>19. CASE WaitEnds BY <1>1, <1>2, <1>19 DEF WaitEnds, ShutdownSettles, Stop, FinishStopped
<1>20. CASE UNCHANGED vars BY <1>1, <1>20 DEF vars
<1> QED
  BY <1>4, <1>5, <1>6, <1>7, <1>8, <1>9, <1>10, <1>11, <1>12, <1>13, <1>14, <1>15, <1>16,
     <1>17, <1>18, <1>19, <1>20 DEF Next

\* ready means the host in use shook hands, and that host has every request.
THEOREM SupervisorReadyIsCurrent == Spec => []ReadyIsCurrent
<1>1. Init => ReadyInv BY DEF Init, ReadyInv, ReadyIsCurrent, Pending
<1>2. IInv /\ ReadyInv /\ [Next]_vars => ReadyInv' BY StepReady
<1>3. ReadyInv => ReadyIsCurrent BY DEF ReadyInv
<1> QED BY <1>1, <1>2, <1>3, SupervisorIInv, PTL DEF Spec

------------------------------------------------------------------------------
(* Nobody waits for nothing. *)

\* A start or a recovery has something under way that ends it.
Goes ==
  status \in {"starting", "recovering"} =>
    \/ timer \/ retiring # 0 \/ down \notin {"no", "done"}
    \/ adapter # 0 /\ handshake

\* Nothing stands in the way of a restart that is due.
Free == timer => ~doomed /\ retiring = 0 /\ adapter = 0 /\ status = "recovering" /\ down = "no"

\* A start that is under way, and a call that waits for it, have a handshake.
Awaited == starting \/ (\E r \in Req : rq[r] = "awaiting") => adapter # 0 /\ handshake

\* After a failed termination nothing starts or recovers, and an adapter is left only
\* by a shutdown that has ended.
DoomedRests ==
  doomed => /\ adapter = 0 \/ down = "done"
            /\ retiring = 0 => status \notin {"starting", "recovering"}

Moving == Goes /\ Free /\ Awaited /\ DoomedRests

\* A launch arms the handshake, or the timer, or has failed for good.
LEMMA LaunchMoving ==
  ASSUME IInv, ReadyInv, Budget, Moving,
         ~doomed, retiring = 0, status # "ready", ~starting, down = "no",
         NEW callers, LaunchHost(callers)
  PROVE  Moving'
<1>1. adapter = 0 /\ hostEpoch \in Nat BY LaunchAlone DEF IInv, Numbers
<1>2. CASE /\ adapter' = hostEpoch + 1 /\ handshake' = TRUE /\ timer' = FALSE
           /\ UNCHANGED <<doomed, retiring>>
  BY <1>1, <1>2 DEF Moving, Goes, Free, Awaited, DoomedRests
<1>3. CASE /\ \E spent \in {0, attempt} :
                /\ status' = IF spent = MaxRestarts THEN "failed" ELSE "recovering"
                /\ timer' = (spent < MaxRestarts)
           /\ rq' = [r \in Req |-> IF r \in callers THEN "rejected" ELSE rq[r]]
           /\ UNCHANGED <<adapter, starting, handshake, retiring, doomed, down>>
  <2>1. PICK spent \in {0, attempt} :
          /\ status' = IF spent = MaxRestarts THEN "failed" ELSE "recovering"
          /\ timer' = (spent < MaxRestarts)
    BY <1>3
  <2>2. spent # MaxRestarts => spent < MaxRestarts BY ConstantsOK DEF Budget
  <2>3. spent = MaxRestarts => ~(spent < MaxRestarts) BY ConstantsOK
  <2>4. \/ status' = "failed" /\ ~timer'
        \/ status' = "recovering" /\ timer'
    <3> DEFINE left == spent < MaxRestarts
    <3>1. /\ timer' = left
          /\ status' = IF spent = MaxRestarts THEN "failed" ELSE "recovering"
      BY <2>1
    <3>2. left <=> spent # MaxRestarts BY <2>2, <2>3
    <3> QED BY <3>1, <3>2, Zenon
  <2>5. \A r \in Req : rq'[r] # "awaiting" BY <1>1, <1>3 DEF Moving, Awaited
  <2> QED BY <1>1, <1>3, <2>4, <2>5 DEF Moving, Goes, Free, Awaited, DoomedRests
<1> QED BY <1>2, <1>3 DEF LaunchHost

\* Giving a host up rejects its callers, and its kill is what the recovery waits for.
LEMMA RetireMoving == ASSUME ReadyInv, Moving, RetireHost, adapter # 0 PROVE Moving'
<1>1. \A r \in Req : rq'[r] # "awaiting" BY DEF RetireHost, Reject, ReadyInv
<1> QED BY <1>1 DEF RetireHost, Moving, Goes, Free, Awaited, DoomedRests

\* Every step keeps it.
LEMMA StepMoving == ASSUME IInv, ReadyInv, Budget, Moving, [Next]_vars PROVE Moving'
<1> USE DEF Moving, Goes, Free, Awaited, DoomedRests
<1>1. rq' = Reject(rq, {"awaiting", "pending"}) => \A r \in Req : rq'[r] # "awaiting"
  BY DEF Reject, ReadyInv
<1>2. ASSUME NEW r \in Req, Call(r) PROVE Moving'
  <2>1. CASE CanLaunch(FALSE) /\ LaunchHost({r}) BY <2>1, LaunchMoving DEF CanLaunch
  <2>2. CASE /\ rq' = [rq EXCEPT ![r] = CallOutcome]
             /\ UNCHANGED <<status, adapter, retiring, doomed, starting, timer, handshake, down>>
    <3>1. CallOutcome = "awaiting" => starting BY DEF CallOutcome
    <3> QED BY <2>2, <3>1 DEF ReadyInv
  <2> QED BY <1>2, <2>1, <2>2 DEF Call
<1>3. ASSUME NEW r \in Req, Deadline(r) \/ \E e \in Host : HandleReply(e, r) PROVE Moving'
  BY <1>3 DEF Deadline, HandleReply, ReadyInv
<1>4. ASSUME NEW e \in Host, HandleReady(e) PROVE Moving'
  <2>1. adapter # 0 BY <1>4 DEF HandleReady, Host
  <2>2. CASE RetireHost BY <2>1, <2>2, RetireMoving
  <2>3. CASE /\ status' = "ready" /\ starting' = FALSE
             /\ \A r \in Req : rq'[r] # "awaiting"
             /\ UNCHANGED <<adapter, retiring, doomed, timer, down>>
    BY <2>1, <2>3
  <2>4. ASSUME NEW sent \in SUBSET {r \in Req : rq[r] = "awaiting"},
               rq' = [r \in Req |-> IF r \in sent THEN "pending"
                                    ELSE IF rq[r] = "awaiting" THEN "rejected" ELSE rq[r]]
        PROVE  \A r \in Req : rq'[r] # "awaiting"
    BY <2>4
  <2> QED BY <1>4, <2>2, <2>3, <2>4 DEF HandleReady
<1>5. ASSUME NEW e \in Host, HandleFault(e) PROVE Moving'
  BY <1>5, RetireMoving DEF HandleFault, Host
<1>6. ASSUME NEW e \in Host, HandleExit(e) PROVE Moving'
  BY <1>1, <1>6 DEF HandleExit, ScheduleRestart, FinishStopped, Host, IInv, LatestInUse
<1>7. ASSUME NEW e \in Host, Greet(e) \/ Exit(e) PROVE Moving' BY <1>7 DEF Greet, Exit
<1>8. CASE Retry
  <2>1. CASE CanLaunch(TRUE) /\ LaunchHost({}) BY <2>1, LaunchMoving DEF CanLaunch
  <2>2. CASE UNCHANGED <<status, adapter, retiring, doomed, starting, timer, handshake, down, rq>>
    BY <2>2
  <2> QED BY <1>8, <2>1, <2>2 DEF Retry
<1>9. CASE RestartTimer BY <1>9, LaunchMoving DEF RestartTimer
<1>10. CASE FailHandshake BY <1>10, RetireMoving DEF FailHandshake
<1>11. CASE StableReset BY <1>11 DEF StableReset
<1>12. CASE RetirementEnds
  BY <1>12
  DEF RetirementEnds, ScheduleRestart, FinishStopped, TerminationFails, IInv, LatestInUse
<1>13. CASE Shutdown BY <1>1, <1>13 DEF Shutdown, Stop, FinishStopped
<1>14. CASE GracefulEnds
  BY <1>1, <1>14 DEF GracefulEnds, ShutdownSettles, Stop, FinishStopped
<1>15. CASE KillEnds BY <1>1, <1>15 DEF KillEnds, Stop, FinishStopped, TerminationFails
<1>16. CASE WaitEnds BY <1>1, <1>16 DEF WaitEnds, ShutdownSettles, Stop, FinishStopped
<1>17. CASE UNCHANGED vars BY <1>17 DEF vars
<1> QED
  BY <1>2, <1>3, <1>4, <1>5, <1>6, <1>7, <1>8, <1>9, <1>10, <1>11, <1>12, <1>13, <1>14, <1>15,
     <1>16, <1>17 DEF Next

\* Whatever waits has something under way that ends the wait: a start or a recovery its
\* timer, its handshake, the kill of the last host or the shutdown, a call the handshake
\* or the host its request was sent to.
THEOREM SupervisorNothingStuck == Spec => []NothingStuck
<1>1. Init => Moving BY DEF Init, Moving, Goes, Free, Awaited, DoomedRests
<1>2. Init => ReadyInv BY DEF Init, ReadyInv, ReadyIsCurrent, Pending
<1>3. IInv /\ ReadyInv /\ [Next]_vars => ReadyInv' BY StepReady
<1>4. IInv /\ ReadyInv /\ Budget /\ Moving /\ [Next]_vars => Moving' BY StepMoving
<1>5. Init => Budget BY ConstantsOK DEF Init, Budget
<1>6. IInv /\ Budget /\ [Next]_vars => Budget' BY StepBudget
<1>7. ReadyInv /\ Moving => NothingStuck
  BY DEF ReadyInv, ReadyIsCurrent, Pending, Moving, Goes, Free, Awaited, NothingStuck
<1> QED BY <1>1, <1>2, <1>3, <1>4, <1>5, <1>6, <1>7, SupervisorIInv, PTL DEF Spec

------------------------------------------------------------------------------
(* Types, and the bound on the hosts. *)

\* The host with the last number is in use and lives, until the shutdown or a
\* failed termination: the bound spares it.
LastHostLives ==
  \/ hostEpoch < MaxHosts \/ down # "no" \/ doomed
  \/ adapter = hostEpoch /\ adapter \in live

\* TypeOK, with the flags apart.
Flags ==
  /\ doomed \in BOOLEAN /\ starting \in BOOLEAN /\ timer \in BOOLEAN /\ handshake \in BOOLEAN
  /\ stable \in BOOLEAN /\ everReady \in BOOLEAN /\ retry \in BOOLEAN

Fields ==
  /\ status \in {"stopped", "starting", "ready", "recovering", "failed"}
  /\ adapter \in 0..MaxHosts /\ hostEpoch \in 0..MaxHosts /\ retiring \in 0..MaxHosts
  /\ attempt \in 0..MaxRestarts
  /\ down \in {"no", "graceful", "killing", "waiting", "done"}
  /\ rq \in [Req -> {"idle", "held", "awaiting", "pending", "resolved", "rejected"}]
  /\ live \subseteq Host /\ greeted \subseteq Host
  /\ launches \in Nat

Bounded == Flags /\ Fields /\ LastHostLives

\* What does not touch the last host leaves it alive.
LEMMA LastStays ==
  ASSUME LastHostLives, hostEpoch' = hostEpoch, doomed => doomed', down # "no" => down' # "no",
         (adapter' = adapter /\ live' = live) \/ doomed' \/ down' # "no"
  PROVE  LastHostLives'
  BY DEF LastHostLives

\* A launch keeps the flags.
LEMMA LaunchFlags ==
  ASSUME Flags, NEW callers, LaunchHost(callers), retry' \in BOOLEAN PROVE Flags'
<1>1. timer' \in BOOLEAN
  <2>1. CASE timer' = FALSE BY <2>1
  <2>2. CASE \E spent \in {0, attempt} : timer' = (spent < MaxRestarts) BY <2>2
  <2> QED BY <2>1, <2>2 DEF LaunchHost
<1>2. starting' = TRUE \/ starting' = starting BY DEF LaunchHost
<1>3. handshake' = TRUE \/ handshake' = handshake BY DEF LaunchHost
<1>4. doomed' = doomed /\ stable' = stable /\ everReady' = everReady BY DEF LaunchHost
<1> QED BY <1>1, <1>2, <1>3, <1>4 DEF Flags

\* A host is launched only while numbers are left.
LEMMA LaunchBounded ==
  ASSUME IInv, Bounded, ~doomed, retiring = 0, status # "ready", ~starting, down = "no",
         NEW callers, LaunchHost(callers), retry' \in BOOLEAN
  PROVE  Bounded'
<1> USE ConstantsOK
<1>1. adapter = 0 BY LaunchAlone
<1>2. hostEpoch \in Nat /\ hostEpoch < MaxHosts
  BY <1>1 DEF Bounded, Fields, LastHostLives
<1>3. Flags' BY LaunchFlags DEF Bounded
<1>4. CASE /\ hostEpoch' = hostEpoch + 1 /\ adapter' = hostEpoch + 1
           /\ live' = live \cup {hostEpoch + 1}
           /\ status' \in {"recovering", "starting"}
           /\ attempt' \in {0, attempt} /\ launches' \in {1, launches + 1}
           /\ rq' = [r \in Req |-> IF r \in callers THEN "awaiting" ELSE rq[r]]
           /\ UNCHANGED <<retiring, down, greeted>>
  <2>1. hostEpoch + 1 \in 1..MaxHosts BY <1>2
  <2>2. Fields' BY <1>4, <2>1 DEF Bounded, Fields, Host
  <2>3. LastHostLives' BY <1>4 DEF LastHostLives
  <2> QED BY <1>3, <2>2, <2>3 DEF Bounded
<1>5. CASE /\ hostEpoch' \in {hostEpoch, hostEpoch + 1} /\ hostEpoch' < MaxHosts
           /\ status' \in {"failed", "recovering"}
           /\ attempt' \in 0..MaxRestarts /\ launches' \in {1, launches + 1}
           /\ rq' = [r \in Req |-> IF r \in callers THEN "rejected" ELSE rq[r]]
           /\ UNCHANGED <<adapter, live, retiring, down, greeted>>
  <2>1. hostEpoch' \in 0..MaxHosts BY <1>2, <1>5
  <2>2. Fields' BY <1>5, <2>1 DEF Bounded, Fields, Host
  <2>3. LastHostLives' BY <1>5 DEF LastHostLives
  <2> QED BY <1>3, <2>2, <2>3 DEF Bounded
<1>6. attempt \in 0..MaxRestarts BY DEF Bounded, Fields
<1> QED BY <1>4, <1>5, <1>6 DEF LaunchHost

\* A host is given up.
LEMMA RetireBounded == ASSUME Bounded, RetireHost, Faulty PROVE Bounded'
<1>1. rq' \in [Req -> {"idle", "held", "awaiting", "pending", "resolved", "rejected"}]
  BY RejectPending DEF RetireHost, Bounded, Fields
<1>2. Fields' BY <1>1, ConstantsOK DEF RetireHost, Bounded, Fields, Host
<1>3. Flags' BY DEF RetireHost, Bounded, Flags
<1>4. LastHostLives' BY DEF RetireHost, Faulty, LastHostLives
<1> QED BY <1>2, <1>3, <1>4 DEF Bounded

\* Every step keeps the flags.
LEMMA StepFlags == ASSUME IInv, Bounded, [Next]_vars PROVE Flags'
<1> USE DEF Bounded, Flags
<1>1. ASSUME NEW callers, LaunchHost(callers), retry' \in BOOLEAN PROVE Flags'
  BY <1>1, LaunchFlags
<1>2. RetireHost => Flags' BY DEF RetireHost
<1>3. ASSUME NEW r \in Req, Call(r) PROVE Flags' BY <1>1, <1>3 DEF Call
<1>4. ASSUME NEW r \in Req, Deadline(r) \/ \E e \in Host : HandleReply(e, r) PROVE Flags'
  BY <1>4 DEF Deadline, HandleReply
<1>5. ASSUME NEW e \in Host, HandleReady(e) \/ HandleFault(e) PROVE Flags'
  BY <1>2, <1>5 DEF HandleReady, HandleFault
<1>6. ASSUME NEW e \in Host, HandleExit(e) \/ Greet(e) \/ Exit(e) PROVE Flags'
  BY <1>6 DEF HandleExit, ScheduleRestart, FinishStopped, Greet, Exit
<1>7. CASE Retry
  <2>1. retry' \in BOOLEAN BY <1>7 DEF Retry
  <2> QED BY <1>1, <1>7, <2>1 DEF Retry
<1>8. CASE RestartTimer BY <1>1, <1>8 DEF RestartTimer
<1>9. CASE FailHandshake \/ StableReset BY <1>2, <1>9 DEF FailHandshake, StableReset
<1>10. CASE RetirementEnds
  BY <1>10 DEF RetirementEnds, ScheduleRestart, FinishStopped, TerminationFails
<1>11. CASE Shutdown \/ GracefulEnds \/ WaitEnds
  BY <1>11 DEF Shutdown, GracefulEnds, WaitEnds, ShutdownSettles, Stop, FinishStopped
<1>12. CASE KillEnds BY <1>12 DEF KillEnds, Stop, FinishStopped, TerminationFails
<1>13. CASE UNCHANGED vars BY <1>13 DEF vars
<1> QED
  BY <1>3, <1>4, <1>5, <1>6, <1>7, <1>8, <1>9, <1>10, <1>11, <1>12, <1>13 DEF Next

\* Every step keeps the types and the bound.
LEMMA StepBounded == ASSUME IInv, Bounded, [Next]_vars PROVE Bounded'
<1> USE ConstantsOK
<1> DEFINE States == {"idle", "held", "awaiting", "pending", "resolved", "rejected"}
           Rest == Fields' /\ LastHostLives'
<1>1. rq \in [Req -> States] BY DEF Bounded, Fields
<1>2. rq' = Reject(rq, {"awaiting", "pending"}) => rq' \in [Req -> States]
  BY <1>1, RejectPending
<1> USE DEF Bounded
<1> SUFFICES Rest BY StepFlags
<1>3. ASSUME NEW r \in Req, Call(r) PROVE Rest
  <2>1. CASE CanLaunch(FALSE) /\ LaunchHost({r}) /\ UNCHANGED retry
    <3>1. retry' \in BOOLEAN BY <2>1 DEF Flags
    <3> QED BY <2>1, <3>1, LaunchBounded DEF CanLaunch
  <2>2. CASE /\ rq' = [rq EXCEPT ![r] = CallOutcome]
             /\ UNCHANGED <<status, adapter, hostEpoch, retiring, doomed, attempt, down, live,
                            greeted, launches>>
    <3>1. CallOutcome \in States BY DEF CallOutcome
    <3>2. rq' \in [Req -> States] BY <1>1, <2>2, <3>1
    <3>3. Fields' BY <2>2, <3>2 DEF Fields, Host
    <3> QED BY <2>2, <3>3 DEF LastHostLives
  <2> QED BY <1>3, <2>1, <2>2 DEF Call
<1>4. ASSUME NEW r \in Req, Deadline(r) \/ \E e \in Host : HandleReply(e, r) PROVE Rest
  BY <1>4 DEF Deadline, HandleReply, Fields, LastHostLives, Host
<1>5. ASSUME NEW e \in Host, HandleReady(e) PROVE Rest
  <2>1. CASE Faulty /\ RetireHost BY <2>1, RetireBounded
  <2>2. CASE /\ status' = "ready" /\ rq' \in [Req -> States]
             /\ UNCHANGED <<adapter, hostEpoch, retiring, doomed, attempt, down, live, greeted,
                            launches>>
    <3>1. Fields' BY <2>2 DEF Fields, Host
    <3> QED BY <2>2, <3>1 DEF LastHostLives
  <2> QED BY <1>1, <1>5, <2>1, <2>2 DEF HandleReady
<1>6. ASSUME NEW e \in Host, HandleFault(e) PROVE Rest BY <1>6, RetireBounded DEF HandleFault
<1>7. ASSUME NEW e \in Host, HandleExit(e) PROVE Rest
  <2>1. rq' \in [Req -> States] BY <1>2, <1>7 DEF HandleExit
  <2>2. Fields' BY <1>7, <2>1 DEF HandleExit, ScheduleRestart, FinishStopped, Fields, Host
  <2>3. LastHostLives' BY <1>7 DEF HandleExit, LastHostLives
  <2> QED BY <2>2, <2>3
<1>8. ASSUME NEW e \in Host, Greet(e) PROVE Rest BY <1>8 DEF Greet, Fields, LastHostLives, Host
<1>9. ASSUME NEW e \in Host, Exit(e) PROVE Rest
  <2>1. Fields' BY <1>9 DEF Exit, Fields, Host
  <2>2. hostEpoch \in Nat /\ e # 0 BY <1>9 DEF Fields, Host
  <2>3. CASE Faulty
    <3>1. UNCHANGED <<hostEpoch, down, doomed>> BY <1>9 DEF Exit
    <3>2. hostEpoch < MaxHosts \/ down # "no" \/ doomed BY <2>3 DEF Faulty
    <3>3. LastHostLives' BY <3>1, <3>2 DEF LastHostLives
    <3> QED BY <2>1, <3>3
  <2>4. CASE e = retiring
    <3>1. adapter = 0 /\ 0 \notin live BY <2>2, <2>4 DEF IInv, LatestInUse, Numbers
    <3>2. hostEpoch < MaxHosts \/ down # "no" \/ doomed BY <3>1 DEF LastHostLives
    <3> QED BY <1>9, <2>1, <3>2 DEF Exit, LastHostLives
  <2> QED BY <1>9, <2>1, <2>3, <2>4 DEF Exit
<1>10. CASE Retry
  <2>1. retry' \in BOOLEAN BY <1>10 DEF Retry
  <2>2. CASE CanLaunch(TRUE) /\ LaunchHost({}) BY <2>1, <2>2, LaunchBounded DEF CanLaunch
  <2>3. CASE UNCHANGED <<status, adapter, hostEpoch, retiring, doomed, attempt, down, rq, live,
                         greeted, launches>>
    <3>1. Fields' BY <2>3 DEF Fields, Host
    <3> QED BY <2>3, <3>1, LastStays
  <2> QED BY <1>10, <2>2, <2>3 DEF Retry
<1>11. CASE RestartTimer
  <2>1. retry' \in BOOLEAN BY <1>11 DEF RestartTimer, Flags
  <2> QED BY <1>11, <2>1, LaunchBounded DEF RestartTimer
<1>12. CASE FailHandshake BY <1>12, RetireBounded DEF FailHandshake
<1>13. CASE StableReset
  <2>1. Fields' BY <1>13 DEF StableReset, Fields, Host
  <2> QED BY <1>13, <2>1, LastStays DEF StableReset
<1>14. CASE RetirementEnds
  <2>1. Fields'
    BY <1>14
    DEF RetirementEnds, ScheduleRestart, FinishStopped, TerminationFails, Fields, Host
  <2> QED BY <1>14, <2>1, LastStays DEF RetirementEnds, TerminationFails
<1>15. ASSUME Stop, UNCHANGED <<hostEpoch, retiring, live, greeted, launches>> PROVE Rest
  <2>1. rq' \in [Req -> States] BY <1>2, <1>15 DEF Stop
  <2>2. Fields' BY <1>15, <2>1 DEF Stop, FinishStopped, Fields, Host
  <2> QED BY <1>15, <2>2 DEF Stop, LastHostLives
<1>16. ASSUME UNCHANGED <<status, adapter, hostEpoch, retiring, doomed, attempt, rq, live, greeted,
                          launches>>,
              down' \in {"graceful", "killing", "waiting", "done"}
       PROVE  Rest
  <2>1. Fields' BY <1>16 DEF Fields, Host
  <2> QED BY <1>16, <2>1, LastStays
<1>17. CASE Shutdown
  <2>1. CASE Stop BY <1>15, <1>17, <2>1 DEF Shutdown
  <2>2. CASE /\ down' = IF adapter = 0 THEN IF retiring # 0 THEN "waiting" ELSE "done"
                        ELSE IF status = "ready" /\ Load < MaxPending THEN "graceful" ELSE "killing"
             /\ UNCHANGED <<status, adapter, doomed, attempt, rq>>
    <3>1. down' \in {"graceful", "killing", "waiting", "done"} BY <2>2
    <3>2. UNCHANGED <<hostEpoch, retiring, live, greeted, launches>> BY <1>17 DEF Shutdown
    <3> QED BY <1>16, <2>2, <3>1, <3>2
  <2> QED BY <1>17, <2>1, <2>2 DEF Shutdown
<1>18. CASE GracefulEnds \/ WaitEnds
  <2>1. UNCHANGED <<hostEpoch, retiring, live, greeted, launches>>
    BY <1>18 DEF GracefulEnds, WaitEnds
  <2>2. CASE Stop BY <1>15, <2>1, <2>2
  <2>3. CASE /\ down' \in {"killing", "waiting", "done"}
             /\ UNCHANGED <<status, adapter, doomed, attempt, rq>>
    BY <1>16, <2>1, <2>3
  <2> QED BY <1>18, <2>2, <2>3 DEF GracefulEnds, WaitEnds, ShutdownSettles
<1>19. CASE KillEnds
  <2>1. CASE TerminationFails /\ down' = "done" /\ UNCHANGED <<adapter, rq>>
    <3>1. Fields' BY <1>19, <2>1 DEF KillEnds, TerminationFails, Fields, Host
    <3>2. LastHostLives' BY <1>19, <2>1, LastStays DEF KillEnds, TerminationFails
    <3> QED BY <3>1, <3>2
  <2>2. UNCHANGED <<hostEpoch, retiring, live, greeted, launches>> BY <1>19 DEF KillEnds
  <2>3. CASE Stop BY <1>15, <2>2, <2>3
  <2>4. CASE down' = "waiting" /\ UNCHANGED <<status, adapter, doomed, attempt, rq>>
    BY <1>16, <2>2, <2>4
  <2> QED BY <1>19, <2>1, <2>3, <2>4 DEF KillEnds
<1>20. CASE UNCHANGED vars
  <2>1. Fields' BY <1>20 DEF vars, Fields, Host
  <2> QED BY <1>20, <2>1, LastStays DEF vars
<1> QED
  BY <1>3, <1>4, <1>5, <1>6, <1>7, <1>8, <1>9, <1>10, <1>11, <1>12, <1>13, <1>14, <1>17, <1>18,
     <1>19, <1>20 DEF Next

\* Every field and every call of the supervisor is in one of its states, and a start
\* always finds a number within the bound.
THEOREM SupervisorTypeOK == Spec => []TypeOK
<1>1. Init => Bounded
  <2>1. Init => Fields BY ConstantsOK DEF Init, Fields
  <2>2. Init => Flags BY DEF Init, Flags
  <2> QED BY <2>1, <2>2, ConstantsOK DEF Init, Bounded, LastHostLives
<1>2. IInv /\ Bounded /\ [Next]_vars => Bounded' BY StepBounded
<1>3. Bounded => TypeOK BY DEF Bounded, Flags, Fields, TypeOK
<1> QED BY <1>1, <1>2, <1>3, SupervisorIInv, PTL DEF Spec
=============================================================================
