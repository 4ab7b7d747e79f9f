----------------------- MODULE MediaRuntimeSupervisor -----------------------
(***************************************************************************)
(* The Electron main process's supervisor of the media utility process:    *)
(* start, handshake, requests with deadlines, retirement of a host that    *)
(* misbehaves, automatic restarts with a finite budget, manual retry and   *)
(* shutdown (media-runtime-supervisor.ts, with the kill of                 *)
(* media-utility-adapter.ts).                                              *)
(*                                                                         *)
(* The main process runs one callback at a time, so each action is one     *)
(* callback with the promise reactions it triggers.  Hosts are named by    *)
(* their epoch; 0 stands for null.                                         *)
(***************************************************************************)
EXTENDS Naturals, FiniteSets

CONSTANTS
  Req,          \* concurrent calls of the supervisor's commands
  MaxPending,   \* MEDIA_LIFECYCLE_MAX_PENDING_REQUESTS
  MaxRestarts,  \* automatic restarts of the budget (restartDelaysMs.length)
  MaxHosts      \* bound: only hosts below this number fail

ASSUME ConstantsOK ==
  /\ IsFiniteSet(Req)
  /\ MaxPending \in Nat \ {0} /\ MaxRestarts \in Nat /\ MaxHosts \in Nat \ {0}

VARIABLES
  status,     \* snapshot.status
  adapter,    \* the adapter in use
  hostEpoch,  \* hostEpoch
  retiring,   \* the adapter that retirement waits for
  doomed,     \* terminationFailure is set
  starting,   \* startPromise is pending
  timer,      \* restartTimer is armed
  handshake,  \* handshakeTimer is armed
  stable,     \* stableTimer is armed
  attempt,    \* restartAttempt
  everReady,  \* hasBeenReady
  down,       \* where the shutdown is: "no", "graceful", "killing", "waiting", "done"
  retry,      \* a manual retry waits for the retirement
  rq,         \* [Req -> the state of the call]
  live,       \* processes that exist
  greeted,    \* processes that have posted their ready message
  launches    \* history: hosts started since the last stable one or manual retry

vars == <<status, adapter, hostEpoch, retiring, doomed, starting, timer, handshake,
          stable, attempt, everReady, down, retry, rq, live, greeted, launches>>

Waiting == {"held", "awaiting", "pending"}

Init ==
  /\ status = "stopped" /\ adapter = 0 /\ hostEpoch = 0 /\ retiring = 0
  /\ doomed = FALSE /\ starting = FALSE /\ timer = FALSE /\ handshake = FALSE /\ stable = FALSE /\ attempt = 0 /\ everReady = FALSE
  /\ down = "no" /\ retry = FALSE /\ rq = [r \in Req |-> "idle"]
  /\ live = {} /\ greeted = {} /\ launches = 0

\* The requests without an answer; the shutdown request is one of them.
Pending == {r \in Req : rq[r] = "pending"}
Load == Cardinality(Pending) + IF down = "graceful" THEN 1 ELSE 0

\* Rejects the calls that are in one of the states.
Reject(q, states) == [r \in Req |-> IF q[r] \in states THEN "rejected" ELSE q[r]]

\* Bound: faults strike only hosts whose number leaves room for a restart, or
\* that are not restarted any more.
Faulty == hostEpoch < MaxHosts \/ down # "no" \/ doomed

------------------------------------------------------------------------------
(* Ends of a host.  Each operator gives the new value of status, timer,    *)
(* attempt, handshake, stable and starting.                                *)

FinishStopped ==
  /\ status' = "stopped" /\ timer' = FALSE /\ handshake' = FALSE /\ stable' = FALSE /\ starting' = FALSE
  /\ UNCHANGED attempt

ScheduleUnbounded ==  \* mutant: the end of the budget is not looked for
  /\ handshake' = FALSE /\ stable' = FALSE /\ starting' = FALSE
  /\ status' = "recovering" /\ attempt' = attempt + 1 /\ timer' = TRUE

ScheduleRestart ==
  IF down # "no" THEN FinishStopped
  ELSE /\ handshake' = FALSE /\ stable' = FALSE /\ starting' = FALSE
       /\ \/ /\ attempt = MaxRestarts
             /\ status' = "failed"
             /\ UNCHANGED <<timer, attempt>>
          \/ /\ attempt < MaxRestarts
             /\ status' = "recovering" /\ attempt' = attempt + 1 /\ timer' = TRUE

\* The host is given up: its callers are rejected and it is killed.  The
\* restart waits for the end of the kill.
RetireHost ==
  /\ retiring' = adapter /\ adapter' = 0
  /\ status' = "recovering" /\ handshake' = FALSE /\ stable' = FALSE /\ starting' = FALSE
  /\ rq' = Reject(rq, {"awaiting", "pending"})
  /\ UNCHANGED <<hostEpoch, doomed, timer, attempt, everReady, down, retry, live,
                 greeted, launches>>

------------------------------------------------------------------------------
(* Start. *)

CanLaunch(manual) ==
  /\ ~doomed /\ retiring = 0 /\ status # "ready" /\ ~starting /\ down = "no" /\ ~timer
  /\ status = "failed" => manual

\* A host is created.  The calls that wait for the start are given; the fork
\* may fail, with or without using up an epoch.
LaunchHost(callers) ==
  LET reset == status = "failed" IN
  \/ /\ hostEpoch' = hostEpoch + 1 /\ adapter' = hostEpoch + 1
     /\ live' = live \cup {hostEpoch + 1}
     /\ status' = IF everReady THEN "recovering" ELSE "starting"
     /\ starting' = TRUE /\ handshake' = TRUE /\ timer' = FALSE
     /\ attempt' = IF reset THEN 0 ELSE attempt
     /\ launches' = IF reset THEN 1 ELSE launches + 1
     /\ rq' = [r \in Req |-> IF r \in callers THEN "awaiting" ELSE rq[r]]
     /\ UNCHANGED <<stable, retiring, doomed, everReady, down, greeted>>
  \/ /\ hostEpoch' \in {hostEpoch, hostEpoch + 1} /\ hostEpoch' < MaxHosts
     /\ LET spent == IF reset THEN 0 ELSE attempt IN
        /\ status' = IF spent = MaxRestarts THEN "failed" ELSE "recovering"
        /\ timer' = (spent < MaxRestarts)
        /\ attempt' = IF spent < MaxRestarts THEN spent + 1 ELSE spent
     /\ launches' = IF reset THEN 1 ELSE launches + 1
     /\ rq' = [r \in Req |-> IF r \in callers THEN "rejected" ELSE rq[r]]
     /\ UNCHANGED <<adapter, live, starting, handshake, stable, retiring, doomed,
                    everReady, down, greeted>>

\* What becomes at once of a call that starts no host.
CallOutcome ==
  IF doomed THEN "rejected"
  ELSE IF retiring # 0 THEN "held"
  ELSE IF status = "ready" THEN IF Load < MaxPending THEN "pending" ELSE "rejected"
  ELSE IF starting THEN "awaiting" ELSE "rejected"

\* A command: it starts the host when there is none, then posts its request.  A
\* command that waits for a retirement does the same when that has ended.
Call(r) ==
  /\ rq[r] \notin Waiting \/ (rq[r] = "held" /\ retiring = 0)
  /\ \/ CanLaunch(FALSE) /\ LaunchHost({r}) /\ UNCHANGED retry
     \/ /\ ~CanLaunch(FALSE)
        /\ rq' = [rq EXCEPT ![r] = CallOutcome]
        /\ UNCHANGED <<status, adapter, hostEpoch, retiring, doomed, starting, timer,
                       handshake, stable, attempt, everReady, down, retry, live,
                       greeted, launches>>

\* retry(): also starts a host that has failed for good.
Retry ==
  /\ retry' = (~retry /\ ~doomed /\ retiring # 0)
  /\ \/ CanLaunch(TRUE) /\ Faulty /\ LaunchHost({})
     \/ /\ ~CanLaunch(TRUE) /\ retry' # retry
        /\ UNCHANGED <<status, adapter, hostEpoch, retiring, doomed, starting, timer,
                       handshake, stable, attempt, everReady, down, rq, live, greeted,
                       launches>>

\* restartTimer fires.
RestartTimer ==
  /\ timer
  /\ ~doomed /\ retiring = 0 /\ status \notin {"ready", "failed"} /\ ~starting /\ down = "no"
  /\ LaunchHost({})
  /\ UNCHANGED retry

------------------------------------------------------------------------------
(* What the host sends, and its end. *)

HandleReadyOfAny(e) ==  \* mutant: the adapter that calls back is not compared
  /\ e \in greeted /\ status \in {"starting", "recovering"}
  /\ status' = "ready" /\ starting' = FALSE
  /\ UNCHANGED <<adapter, hostEpoch, retiring, doomed, timer, handshake, stable, attempt,
                 everReady, down, retry, rq, live, greeted, launches>>

HandleReadyResetting(e) ==  \* mutant: the handshake gives the whole budget back
  /\ e \in greeted /\ adapter = e /\ status \in {"starting", "recovering"}
  /\ status' = "ready" /\ handshake' = FALSE /\ starting' = FALSE /\ attempt' = 0
  /\ UNCHANGED <<adapter, hostEpoch, retiring, doomed, timer, stable, everReady, down,
                 retry, rq, live, greeted, launches>>

\* ready: the first one ends the start, another is a broken protocol.
HandleReady(e) ==
  /\ e \in greeted /\ adapter = e
  /\ \/ /\ status \in {"starting", "recovering"}
        /\ status' = "ready" /\ handshake' = FALSE /\ stable' = TRUE /\ everReady' = TRUE /\ starting' = FALSE
        /\ \E sent \in SUBSET {r \in Req : rq[r] = "awaiting"} :
             /\ Load + Cardinality(sent) <= MaxPending
             /\ sent # {r \in Req : rq[r] = "awaiting"} => Load + Cardinality(sent) = MaxPending
             /\ rq' = [r \in Req |-> IF r \in sent THEN "pending"
                                     ELSE IF rq[r] = "awaiting" THEN "rejected" ELSE rq[r]]
        /\ UNCHANGED <<adapter, hostEpoch, retiring, doomed, timer, attempt, down,
                       retry, live, greeted, launches>>
     \/ status \notin {"starting", "recovering"} /\ Faulty /\ RetireHost

\* An invalid message, an incompatible handshake, a fatal engine failure, an
\* error event of the process.
HandleFault(e) == adapter = e /\ Faulty /\ RetireHost

\* A reply settles its request.
HandleReply(e, r) ==
  /\ adapter = e /\ rq[r] = "pending"
  /\ rq' = [rq EXCEPT ![r] = "resolved"]
  /\ UNCHANGED <<status, adapter, hostEpoch, retiring, doomed, starting, timer, handshake,
                 stable, attempt, everReady, down, retry, live, greeted, launches>>

HandleExitSilent(e) ==  \* mutant: nobody tells those who wait for the start
  /\ adapter = e /\ e \notin live
  /\ adapter' = 0
  /\ ScheduleRestart
  /\ UNCHANGED <<hostEpoch, retiring, doomed, everReady, down, retry, rq, live, greeted,
                 launches>>

\* The exit event of the process in use.
HandleExit(e) ==
  /\ adapter = e /\ e \notin live
  /\ adapter' = 0
  /\ rq' = Reject(rq, {"awaiting", "pending"})
  /\ ScheduleRestart
  /\ UNCHANGED <<hostEpoch, retiring, doomed, everReady, down, retry, live, greeted,
                 launches>>

FailHandshakeOfFirst ==  \* mutant: only the first host's handshake has a deadline
  handshake /\ adapter # 0 /\ Faulty /\ status = "starting" /\ RetireHost

\* The handshake takes too long.
FailHandshake == handshake /\ adapter # 0 /\ Faulty /\ RetireHost

\* A request takes too long.
Deadline(r) ==
  /\ rq[r] = "pending"
  /\ rq' = [rq EXCEPT ![r] = "rejected"]
  /\ UNCHANGED <<status, adapter, hostEpoch, retiring, doomed, starting, timer, handshake,
                 stable, attempt, everReady, down, retry, live, greeted, launches>>

\* The host has been ready long enough to get its whole budget back.
StableReset ==
  /\ stable
  /\ stable' = FALSE
  /\ attempt' = 0 /\ launches' = 0
  /\ UNCHANGED <<status, adapter, hostEpoch, retiring, doomed, starting, timer, handshake,
                 everReady, down, retry, rq, live, greeted>>

\* The kill of the retiring host ends: the process is gone, or its termination
\* takes too long and the runtime is out of use for good.
TerminationFails ==
  /\ doomed' = TRUE /\ status' = "failed" /\ timer' = FALSE
  /\ UNCHANGED <<attempt, handshake, stable, starting>>

RetirementImpatient ==  \* mutant: the restart does not wait for the process
  /\ retiring # 0 /\ retiring' = 0
  /\ ScheduleRestart
  /\ UNCHANGED <<adapter, hostEpoch, doomed, everReady, down, retry, rq, live, greeted,
                 launches>>

RetirementEnds ==
  /\ retiring # 0 /\ retiring' = 0
  /\ \/ /\ retiring \notin live /\ ~doomed
        /\ ScheduleRestart
        /\ UNCHANGED doomed
     \/ (retiring \in live \/ doomed) /\ TerminationFails
  /\ UNCHANGED <<adapter, hostEpoch, everReady, down, retry, rq, live, greeted, launches>>

------------------------------------------------------------------------------
(* Shutdown: a graceful request, then the kill, each with its deadline. *)

Stop ==
  /\ FinishStopped
  /\ adapter' = 0 /\ rq' = Reject(rq, {"awaiting", "pending"})
  /\ down' = "done"
  /\ UNCHANGED doomed

Shutdown ==
  /\ down = "no"
  /\ \/ /\ adapter = 0 /\ retiring = 0 /\ ~doomed
        /\ Stop
     \/ /\ ~(adapter = 0 /\ retiring = 0 /\ ~doomed)
        /\ down' = IF adapter = 0 THEN IF retiring # 0 THEN "waiting" ELSE "done"
                   ELSE IF status = "ready" /\ Load < MaxPending THEN "graceful" ELSE "killing"
        /\ timer' = FALSE
        /\ UNCHANGED <<status, adapter, doomed, starting, handshake, stable, attempt, rq>>
  /\ UNCHANGED <<hostEpoch, retiring, everReady, retry, live, greeted, launches>>

ShutdownSettles ==
  \/ ~doomed /\ Stop
  \/ /\ doomed /\ down' = "done"
     /\ UNCHANGED <<status, adapter, doomed, starting, timer, handshake, stable, attempt, rq>>

GracefulEndsUnkilled ==  \* mutant: a host that does not answer is not killed
  /\ down = "graceful" /\ ShutdownSettles
  /\ UNCHANGED <<hostEpoch, retiring, everReady, retry, live, greeted, launches>>

\* The host has answered, is gone, or takes too long.
GracefulEnds ==
  /\ down = "graceful"
  /\ \/ adapter = 0 /\ retiring = 0 /\ ShutdownSettles
     \/ /\ adapter # 0 \/ retiring # 0
        /\ down' = IF adapter # 0 THEN "killing" ELSE "waiting"
        /\ UNCHANGED <<status, adapter, doomed, starting, timer, handshake, stable, attempt, rq>>
  /\ UNCHANGED <<hostEpoch, retiring, everReady, retry, live, greeted, launches>>

KillEndsInUse ==  \* mutant: the exit event must not come before the end of the kill
  /\ down = "killing" /\ adapter # 0 /\ adapter \notin live
  /\ Stop
  /\ UNCHANGED <<hostEpoch, retiring, everReady, retry, live, greeted, launches>>

\* The kill of the last host ends.
KillEnds ==
  /\ down = "killing"
  /\ \/ /\ hostEpoch \notin live /\ ~doomed
        /\ \/ retiring = 0 /\ Stop
           \/ /\ retiring # 0 /\ down' = "waiting"
              /\ UNCHANGED <<status, adapter, doomed, starting, timer, handshake, stable,
                             attempt, rq>>
     \/ /\ hostEpoch \in live \/ doomed
        /\ TerminationFails /\ down' = "done"
        /\ UNCHANGED <<adapter, rq>>
  /\ UNCHANGED <<hostEpoch, retiring, everReady, retry, live, greeted, launches>>

WaitEnds ==
  /\ down = "waiting" /\ retiring = 0
  /\ ShutdownSettles
  /\ UNCHANGED <<hostEpoch, retiring, everReady, retry, live, greeted, launches>>

------------------------------------------------------------------------------
(* The process itself. *)

Greet(e) ==
  /\ e \in live /\ e \notin greeted
  /\ greeted' = greeted \cup {e}
  /\ UNCHANGED <<status, adapter, hostEpoch, retiring, doomed, starting, timer, handshake,
                 stable, attempt, everReady, down, retry, rq, live, launches>>

\* It crashes, is killed or has been told to stop.
Exit(e) ==
  /\ e \in live /\ (Faulty \/ e = retiring)
  /\ live' = live \ {e}
  /\ UNCHANGED <<status, adapter, hostEpoch, retiring, doomed, starting, timer, handshake,
                 stable, attempt, everReady, down, retry, rq, greeted, launches>>

------------------------------------------------------------------------------

Host == 1..MaxHosts

Next ==
  \/ \E r \in Req : Call(r) \/ Deadline(r) \/ \E e \in Host : HandleReply(e, r)
  \/ \E e \in Host : HandleReady(e) \/ HandleFault(e) \/ HandleExit(e) \/ Greet(e) \/ Exit(e)
  \/ Retry \/ RestartTimer \/ FailHandshake \/ StableReset \/ RetirementEnds
  \/ Shutdown \/ GracefulEnds \/ KillEnds \/ WaitEnds

Spec == Init /\ [][Next]_vars

------------------------------------------------------------------------------
(* Safety. *)

\* Every field and every call is in one of its states.
TypeOK ==
  /\ status \in {"stopped", "starting", "ready", "recovering", "failed"}
  /\ adapter \in 0..MaxHosts /\ hostEpoch \in 0..MaxHosts /\ retiring \in 0..MaxHosts
  /\ doomed \in BOOLEAN /\ starting \in BOOLEAN /\ timer \in BOOLEAN /\ handshake \in BOOLEAN
  /\ stable \in BOOLEAN /\ everReady \in BOOLEAN /\ retry \in BOOLEAN
  /\ attempt \in 0..MaxRestarts
  /\ down \in {"no", "graceful", "killing", "waiting", "done"}
  /\ rq \in [Req -> {"idle", "held", "awaiting", "pending", "resolved", "rejected"}]
  /\ live \subseteq Host /\ greeted \subseteq Host
  /\ launches \in Nat

\* A crash loop ends: without the user, and without a host that stayed ready for
\* its stability window, the runtime starts at most one host and its restarts.
RestartBudget == launches <= MaxRestarts + 1

\* A runtime that has shut down without an error has left no process behind.
NothingLeftBehind == down = "done" /\ ~doomed => live = {}

\* ready means the host in use shook hands, and that host has every request.
ReadyIsCurrent ==
  /\ status = "ready" => adapter \in greeted
  /\ Pending # {} => adapter # 0

\* Whoever waits has something under way that ends the wait, whichever timers,
\* exits, retries and stops came in between.  A start or a recovery has its timer
\* armed and free to start a host, a host with its handshake deadline, a host
\* that is being killed, or the shutdown; a call has the handshake or, once it
\* is sent, a host.
NothingStuck ==
  /\ status \in {"starting", "recovering"} =>
       \/ timer \/ retiring # 0 \/ down \notin {"no", "done"}
       \/ adapter # 0 /\ handshake
  /\ timer => ~doomed /\ retiring = 0 /\ adapter = 0 /\ status = "recovering" /\ down = "no"
  /\ \A r \in Req :
       /\ rq[r] = "awaiting" => adapter # 0 /\ handshake
       /\ rq[r] = "pending" => adapter # 0

\* No start, retry, timer or late promise starts a host after shutdown began.
NoStartAfterShutdown == [][down # "no" => live' \subseteq live]_vars

\* One process at a time, whoever starts it.
Hosts == INSTANCE HostLifecycle WITH
  epoch <- hostEpoch, running <- live, serving <- IF status = "ready" THEN adapter ELSE 0,
  over <- adapter = 0 \/ doomed

OneHost == Hosts!HostSpec

------------------------------------------------------------------------------
(* Liveness.  Timers fire, events of the process and promise reactions are *)
(* delivered, and a host that the bound keeps free of faults shakes hands. *)

Fairness ==
  /\ WF_vars(RestartTimer) /\ WF_vars(FailHandshake) /\ WF_vars(RetirementEnds)
  /\ WF_vars(GracefulEnds) /\ WF_vars(KillEnds) /\ WF_vars(WaitEnds)
  /\ \A r \in Req : WF_vars(Deadline(r)) /\ WF_vars(rq[r] = "held" /\ Call(r))
  /\ \A e \in Host : WF_vars(HandleExit(e)) /\ WF_vars(HandleReady(e))
  /\ WF_vars(Greet(MaxHosts))

FairSpec == Spec /\ Fairness

\* Every command is answered, whatever becomes of the host meanwhile.
CallsSettle == \A r \in Req : rq[r] \in Waiting ~> rq[r] \notin Waiting

\* A start or a recovery does not go on for ever.
HostSettles == status \in {"starting", "recovering"} ~> status \in {"ready", "failed", "stopped"}

\* Shutdown ends, with or without an error.
ShutdownEnds == down # "no" ~> down = "done"
=============================================================================
