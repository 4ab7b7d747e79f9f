# TLA+ models of syrnike13's voice control plane

syrnike13 is a chat and voice platform: a Rust backend (a fork of Revolt/Stoat), LiveKit for
media, a TypeScript voice client, an Electron desktop with a native media engine, and web clients.
The part whose correctness is hardest to see from its tests is *who is in which voice channel*:
the decision is spread over Redis records, four kinds of backend processes, LiveKit's rooms and
webhooks, and the client's Voice Director with the socket and the media process it depends on. This
directory models those parts, checks them with TLC and proves their central properties with TLAPS.

Paths below are relative to the repository; `backend/` stands for `services/backend/crates/`.

## Inventory

| Component | Source | State it keeps | Operations | Interacts with |
|---|---|---|---|---|
| Voice authority | `backend/core/database/src/voice/{session,mod}.rs` | Redis: reservation, session, transport cleanups, version counter, members and reservations of a channel | Lua scripts that compare before they write; snapshots; reconciliation | everything below, through Redis |
| Voice join | `backend/core/database/src/voice/join.rs` | lock of temporary members | join, leave, cleanup of members, retrying reconciliation | authority, LiveKit, MongoDB |
| Gateway requests | `backend/bonfire/src/voice.rs` | none of its own | Join, Disconnect, UpdateFlags, RefreshCredentials, RequestSnapshot | authority, client |
| Moderation | `backend/delta/src/routes/servers/member_edit.rs` | none | forced disconnect, forced move | authority, LiveKit, client |
| LiveKit webhooks | `backend/daemons/voice-ingress/src/api.rs` | deferred looks at tracks | participant joined/left, tracks, room finished | LiveKit, authority |
| Cron sweep | `backend/daemons/crond/src/tasks/voice_calls.rs` | none | sweep of cleanups, reconciliation of channels, call timeouts | authority, LiveKit |
| Voice calls | `backend/core/database/src/voice/call_lifecycle.rs` | one document per channel with a call (Redis) | start, answer, decline, cancel, deadlines, end by compare-and-set | webhooks, routes, cron |
| Voice Director | `packages/platform/src/voice/voice-director.ts` | intent, revision, lease, latest snapshot, reconnect timers | break-before-make transitions, recovery, forced moves | adapter, RTC engine |
| Gateway adapter | `packages/platform/src/voice/gateway-voice-authority-adapter.ts` | pending requests with timeouts | request/answer over the gateway | Director, gateway transport |
| Desktop gateway transport | `apps/desktop/src/main/voice/desktop-voice-gateway-transport.ts` | reliable commands not yet acknowledged | send, resend after a reconnect | adapter, gateway |
| Media runtime supervisor | `apps/desktop/src/main/media-runtime/media-{runtime-supervisor,utility-adapter}.ts` | host epoch, pending requests, restart budget, timers | start, handshake, request, retire, restart, retry, stop | utility process, controllers |
| Media frames and texture leases | `apps/desktop/src/main/media-runtime/`, `packages/windows-media-engine/native/` | slots and exports (native); bridges, releases, textures (main process) | export, query, import, release | supervisor, renderer |
| Windows media engine | `packages/windows-media-engine` | C++ capture, encode, RTC | commands and events of a pipe protocol | supervisor |
| Coalescion, rate limits, presence, activities, permissions | `backend/core/` | watchers, buckets, sets of sessions, activity leases | shared runs, counting, online/offline, bit algebra | backend handlers |
| Web sync store | `apps/web/src/features/sync/` | entities by id | reducer of gateway events | gateway |
| Documents, files, embeds, push, UI | the rest | MongoDB, S3, AMQP, React | single-document reads and writes, pure I/O | — |

**What is hard.** Every Redis script is atomic and compares before it writes, but every handler
reads, decides and writes in separate round trips, and nothing serialises the handlers of one
account. Webhooks are delivered in any order, any number of times, or never. A handler can die
between any two of its steps. Records expire. LiveKit may refuse to list a room. The client
publishes intents while a transition is suspended. A control socket is lost with commands on the
way, and a media process with requests and GPU textures in use. `PROJECT.json` lists each of these at the line
where it bites, with the property that covers it or the reason none does yet.

**What makes each component correct.**
- *Authority*: one operation controls the account; it is handed over only from the current
  reservation over the operation it is fenced by; no operation that ever held the account is
  forgotten while its transport may live; the member's own transport is not chased, unless a late
  request brought its operation back.
- *Webhooks, cron*: late or repeated webhooks change nothing they should not; a membership without
  a participant ends; every cleanup ends.
- *Snapshots*: the highest version carries the current membership; the client ends with it once
  changes are published and publications arrive.
- *Director, adapters*: the old room is left before the new one is joined; a lease is used for the
  intent it was asked for or cancelled; a share never follows the user into another channel, and
  survives a recovery; a moderator's disconnect wins over a recovery; intent, membership and engine
  agree when nothing is in flight.
- *Calls*: an answer beats a timeout that was decided before it; a call nobody is in, or whose time
  is up, ends whoever died on the way.
- *Transport*: the latest command of a key is handled or still kept, over any number of sockets.
- *Supervisor*: one media process at a time; an older one's events touch nothing; a crash loop is
  finite; shutdown leaves nothing behind; every caller gets an answer.
- *Textures*: a slot is written again only when nobody reads it, and a release that is queued
  reaches the host that lives (a slot may leak all the same: see Findings).
- *Channel with several accounts (not modelled)*: capacity; only finished rooms lose members.

## Modules

| Module | Role |
|---|---|
| `VoiceAccount` | Abstract: what the authority promises about one account, without handlers and records. |
| `VoiceAuthority` | Implements it (`OneAuthority`): the authority of one account, the handlers of the gateway, REST API, webhooks and cron, LiveKit, time. |
| `VoiceSnapshots` | The version counter, publishers that overtake one another, the client's filter of versions. |
| `VoiceDirector` | The Director of one client, the gateway adapter's requests, the RTC engine with its room, the backend in atomic steps, which are no more than a `VoiceAccount` (`BackendIsAccount`). |
| `VoiceCall` | The call document of one private channel, the handlers and routes that change it, the cron daemon's visit. |
| `GatewayTransport` | The desktop's control socket: commands kept by key, sent again on each new socket, a server behind old and new ones. |
| `HostLifecycle` | Abstract: what the media runtime promises about its processes. |
| `MediaRuntimeSupervisor` | The supervisor, callback by callback. Implements `HostLifecycle` (`OneHost`). |
| `TextureLeases` | One video stream from the native slot to the renderer and back, on top of `HostLifecycle`. |
| `MC…` | Small instances, one module for each of the above that is run. |
| `VoiceAuthorityProofs` | Inductive invariant of `VoiceAuthority`: types, `Anchored`, `RetiredTracked`, `Succession`; `MemberTold`. |
| `VoiceCleanupProofs` | On top of it: `CleanupSparesMember`, and that `VoiceAuthority` implements `VoiceAccount`. |
| `VoiceDirectorProofs` | Types of `VoiceDirector`, its action properties, `NoStrayClaim`, `RestIsAgreed`, and that its backend is a `VoiceAccount`. |
| `VoiceSnapshotsProofs` | Types and `LatestIsCurrent` of `VoiceSnapshots`. |
| `VoiceCallProofs` | Types and `OnlyOverdue` of `VoiceCall`. |
| `GatewayTransportProofs` | Types and `NothingLost` of `GatewayTransport`. |
| `MediaRuntimeSupervisorProofs` | The supervisor's safety properties, and that it implements `HostLifecycle`. |
| `TextureLeasesProofs` | Types, `TextureTracked`, `NoReuseWhileRead`, `ReleaseKept`, `BridgeHasRoom`, and that the hosts of `TextureLeases` are those of `HostLifecycle`. |

### VoiceAuthority and the code

The account's Redis state is three variables. `reservation` is `voice_reservation_current:<user>`
and the record it points to; of that record the model keeps the operation and
`expected_finalized_operation_id` (`after`), because those are what the scripts compare. `session`
is `voice_current:<user>` and its record: the operation and the connection (LiveKit participant)
it was committed for. `cleanups` is `voice_transport_cleanups`. An operation stands for the whole
claim a client mints with its identifier (channel, RTC engine, client instance, connection epoch).

A running handler is a record in `job`; `pc` says which round trip comes next, the other fields
hold what it read. One action is one round trip:

| Code | Actions |
|---|---|
| Lua scripts in `session.rs` | `PrepareReservation`, `DeleteReservation`, `CommitJoin`, `DeleteSession`, `CompleteCleanup` with their guards `Can…` |
| gateway Join → `join_voice_channel` | `BeginJoin`, `JoinPrepare`, `ListCleanups`, `RetireTransport`/`RetireFails`, `CompleteCleanup`, `RetireDone`, `IssueCredentials`, `Publish` |
| gateway Disconnect | `BeginDisconnect`, then `CancelExact` or `RemoveCheck`, `RemoveCancel`, `RemoveRead`, `RemoveDelete`, `Publish` |
| moderator's disconnect | `BeginModeration`, `Moderate`, the removal steps, `Publish`, `Kick` |
| moderator's move | `BeginMove`, `MovePrepare`, `MoveLease`, `Kick` |
| `participant_joined` | `BeginJoined`, `JoinedFind`, `JoinedCommit`, then `Publish` or `Kick` |
| `participant_left` | `BeginLeft`, `LeftDelete`, then `Publish` or a reconciliation |
| reconciliation (cron, webhooks) | `BeginReconcile`, `Probe`, `Inspect`/`InspectDead`, the removal steps, `RemoveStrangers` |
| cron sweep of cleanups | `BeginSweep`, `ListCleanups`, `RetireTransport`/`RetireFails`, `CompleteCleanup` |
| LiveKit (external), time, failures | `Connect`, `Drop`, `LapseReservation`, `LapseSession`, `Crash`, `Bury` |

Decisions of the abstraction:
- All channels belong to one server, so "in this server" is always true of the account.
- `create_voice_session_if_current` (and the unconditional variant for moves) takes a snapshot, runs
  the script and retries on a lost comparison. Only the state the script finds matters, so the loop
  is one action; running out of retries or losing to another operation ends the handler.
- Cancelling the current pending join is also a read and a compare-and-delete in a loop: one action;
  running out of retries is the `Crash` that returns an error.
- `retire_voice_transport` lists, removes and lists again; it is folded into "removed" or "failed".
- `BeginMove` makes the lease and picks the old transport before the reservation exists; the old
  transport is named by the operation current in the old channel with the claim of the session, so
  it names nothing when the two differ (`seen = None`).
- `LateRequests` lets a join be handled again after it was handled, or after another one: the
  desktop's transport sends it again on every new socket. `again` is the history of operations that
  such a request reserved after they had lost the account.
- `JoinedFind` may answer "stale" for a replayed webhook when join requests are handled late,
  because a second reservation record of the same operation hides the session.
- A preparation renews the reservation, its pointer, the session it is fenced by and the session's
  pointer, each for 120 s; so a session does not expire while a reservation fenced by it lives. That
  is the guard of `LapseSession`. One script would break it: `SAVE_CURRENT_VOICE_RESERVATION`
  (`session.rs:161-173`) renews a reservation alone. It is run only by
  `update_voice_state_tracks_for_operation` (`mod.rs:615-638`), which no handler calls, and is left
  out for that reason.
- A LiveKit listing that fails with an error other than "no such room" skips the channel until the
  next sweep: the job ends, as with `Crash`.
- `UpdateFlags`, `RefreshCredentials` and tracks change fields of a record and no authority; what
  remains of them is that they can make a commit's comparison fail, up to eight times.
- `Publish` is one step here; `VoiceSnapshots` is about what its three round trips do.

### VoiceAccount

What the rest of the system relies on: at most one operation is pending and at most one is the
member; a member is made of the pending operation only; the member does not change while an
operation is pending, but by its commit or together with the end of the pending one; an operation
that was used up does not come back (`Again`, which stands for requests that are handled late).
`VoiceAuthority` maps `pending` to the operation of the reservation, `member` to that of the session,
and `used` to every operation that was reserved. `VoiceDirector` has `pending` and `member` as they
are; there, used up is every operation up to the counters that is not asked for any more. So what
the Director takes for the backend in one step is something the handlers of `VoiceAuthority` do
promise, when no join request is handled late.

### VoiceSnapshots and the code

`publish_authoritative_voice_snapshot` is `Begin`, `Increment` (INCR), `Read`
(`get_voice_authority_snapshot`, one script), then `Deliver`. `handleAuthorityEvent` of the Director
is `Accepts`: a version not above the latest one is ignored. `Fail` ends a publisher anywhere: the
handler dies, a round trip returns an error (the `?` of `mod.rs:813` among them), or the event finds
no connection. `GiveUp` is the handler that dies before it begins. Nothing is owed again after either.

The membership changes at any time. `Change` is a change by a handler that goes on to publish
(`owed`); `ChangeSilently` is one that nobody publishes: a reconciliation that deletes a membership
(`join.rs:563`), or a session that expires. `RequestSnapshot` is the adapter asking when its transport connects.
`astray` is history: a change or a publication has been lost, and since then nothing was changed with
a publication to follow, and the client has not asked. Both properties speak of it, because that is
how far the code goes.

### VoiceDirector and the code

`voice-director.ts` is single-threaded JavaScript: one fiber runs the transition loop, and handlers
of commands and events run between its suspensions. `director` is the object's fields with the
place the fiber is suspended at (`pc`) and what it does after a disconnect (`then`); an action takes
it from one suspension to the next, and the operators on a record are the methods.

| Code | Operators and actions |
|---|---|
| `reconcileOnceEffect`, `runReconcileLoopEffect`, `requestReconcile` | `Reconcile`, `Return`, `Wake` |
| `connectTargetEffect`, the loop over the delays, the failure path | `Attempt`, `Connect`, `Fail`, `Proceed`, `Committed` |
| `disconnectCurrentEffect`, `cleanupFailedAttemptEffect`, `cancelLeaseEffect` | `Disconnect`, then `DisconnectEnds`, `CancelEnds` |
| suspensions | `WaitEnds` (engine availability), `DelayEnds`, `ReserveEnds`, `ConnectEnds`, `CommitEnds` |
| `dispatch` (join, leave, retry, camera and screen), `shutdownEffect` | `Join`, `Leave`, `RetryVoice`, `Shutdown`, `SetShare` |
| `handleAuthorityEvent` | `SnapshotComes`, `ForcedMoveComes`, `ForcedDisconnectComes` |
| `handleEngineEvent` | `FailureComes`, `SourceEnds` (a screen whose window is closed), `ReconnectStarts`, `ReconnectSucceeds` |
| the adapters and their engines, as the Director sees them | `RoomOpens`, `RoomCloses`, `RoomLost`, `EngineDies`, `EngineRecovers` |
| the backend | `JoinServed`, `DisconnectServed`, `MemberJoins`, `MemberLeaves`, `Expire`, `Removed`, `ModeratorMoves`, `ModeratorDisconnects` |

Decisions of the abstraction:
- `desiredRevision` and the revision a transition works for are only compared: `stale` says that
  they differ. Every bump of the revision also asks for a reconciliation.
- The effect runtime resumes a fiber inside the call that resolves the callback it waits for, so a
  snapshot that resolves the wait for a commit commits at once. An abort may take effect late: an
  aborted suspension ends at any later time, and a result that came before is not used.
- A committed session means a resting fiber (part of `TypeOK`), so `transitionInProgress` adds
  nothing, and the cleanup after a terminal failure is the disconnect that `FailureComes` starts.
- A camera or screen is remembered with the intent it was switched on under, which is what `ConnectsToIntent`
  is about. `joined`, the last committed operation of the session, is history for `ModeratorEnds`.
- The backend's handlers are atomic and publish in the same step: `VoiceAuthority` and
  `VoiceSnapshots` are about their interleavings. Requests of one operation share the gateway's
  reliable key and keep their order; requests of different operations are served in any order.
- Microphone, volumes, statistics and the synchronisation of the self state touch neither intent,
  lease nor room and are left out.
- `stuck` is a room whose disconnect missed its deadline; `alarm` is a loss that the engine is about
  to report. It is reported once, as in both adapters.

### VoiceCall and the code

`call` is the document of `call_lifecycle.rs` (`started` tells calls apart), `members` the connected
members of the channel, `recipients` who may be rung. A handler is a task: it reads the members, does
something else, and applies what it read, so `participant_joined` and `participant_left` of several
users interleave.

| Code | Operators and actions |
|---|---|
| `voice_call_join_effect`, `…_leave_effect`, `…_expire_effect` | `Answers`, `MarkActive`, `CanRing`; `StartsDeadline`; `Ends`, `Expired` |
| `participant_joined` of `voice-ingress` | `ReadBefore`, `CommitJoin`, `ApplyJoin` |
| `participant_left`, `room_finished` | `DeleteMember`, `ReadRemaining`, `ApplyLeave`; `RoomFinished`, `ApplyRoomFinished` |
| routes: cancel, decline, leave or delete the group | `CancelCall`, `EmptyChannel`, `DeclineCall`, `LeaveGroup`, `StopRingingRemoved`, `RemoveFromCall`, `DeleteGroup` |
| cron: `voice_calls.rs` | `SweepReadsCall`, `SweepReadsMembers`, `SweepDecides`, `SweepDeletes` |

Decisions of the abstraction:
- `mutate_channel_voice_call_if_current` is a loop: the loser reads the document again, but not the
  members. So a task keeps its `seen` and decides on the document it finds; the rounds that lose
  change nothing, and giving up after eight is `TaskDies`, as is any error.
- A deadline is counted, not timed: each one that is not derived from another is a fresh number, and
  the grace of ten minutes after a deadline is its `Grace`. Two deadlines that fall on the same
  instant are told apart here and not in the document, which no step relies on.
- `overdue` is about the current deadline of the document. A join is dated by its own event, so it
  may count a deadline as not over that others count as over: `Answers` does not look at `overdue`.

### GatewayTransport and the code

`desktop-voice-gateway-transport.ts` keeps commands in a map by key, an operation having one key for
join and disconnects and one for flags, and requests for a snapshot a key of their own; `reliable` is
that map. A command may be asked for any number of times under its key, each time with a new nonce,
and takes the place of the one kept there: flags that change again, a disconnect of a join. A
disconnect may come without a join: the lease of a forced move is of the server's operation. `wire[s]` is what has been sent on
socket `s` and not been read: the server may still handle what came on a socket the client has left.

| Code | Actions |
|---|---|
| `configure`, `stop`, `openSocket`, `onopen` | `Configure`, `Stop`, `OpenSocket`, `SocketOpens` |
| `handleSocketLoss`, `scheduleReconnect` | `SocketLost`, `Reconnect` |
| `sendReliable`, called by the adapter's reserve, cancel and self state, and when the state becomes connected | `SendReliable` in `Reserve`, `Cancel`, `UpdateSelfState`; `RequestSnapshot` within `HandleReady` |
| `handleMessage`: Ready, VoiceStateAck, VoiceServerUpdate and Error | `HandleReady`, `HandleVoiceStateAck`, `HandleOperationEvent` |
| the gateway (`backend/bonfire/src/websocket.rs`) | `ServerWelcomes`, `ServerHandles`; `WireLost` |

`HandleReady` sends what is kept in any order, which includes the order of the map; a nonce is the
number of the command under its key; heartbeats are one of the ways to lose the socket; how long the
back-off is is left out.

### HostLifecycle, MediaRuntimeSupervisor and the code

The Electron main process runs one callback at a time, so an action of `MediaRuntimeSupervisor` is a
callback with the promise reactions it triggers. The variables are the fields of the class; a host is
its epoch, 0 is null; `live` and `greeted` are the processes themselves.

| Code | Operators and actions |
|---|---|
| `startHost` and its callers | `CanLaunch`, `LaunchHost` in `Call`, `Retry`, `RestartTimer` |
| `call`, `sendRequest`, replies and deadlines | `CallOutcome`, `Call`, `HandleReply`, `Deadline` |
| `handleMessage`, `handleReady`, `handleExit`, `failHandshake` | `HandleFault`, `HandleReady`, `HandleExit`, `FailHandshake` |
| `retireHost`, `terminateAdapter`, `scheduleRestart`, `stableTimer` | `RetireHost`, `RetirementEnds`, `TerminationFails`, `ScheduleRestart`, `StableReset` |
| `stopOwnerEffect` | `Shutdown`, `GracefulEnds`, `KillEnds`, `WaitEnds` |
| the utility process | `Greet`, `Exit` |

`HostLifecycle` says what the rest of the desktop relies on: numbers grow, one process at a time, the
one that was given up never serves again. `OneHost` is the refinement: `serving` is the adapter in use
while the status is ready, `over` holds when there is no adapter or termination has failed.

### TextureLeases and the code

| State | Code |
|---|---|
| `entry`, `shownTo`, `inbox` | `frame_export_owner.cpp` and `shared_texture_pool.cpp`: the frames of a stream, and the `queryFrames` requests that wait |
| `query`, `mainEpoch`, `releases`, `renderer`, `renderers` | `media-frame-controller.ts` |
| `bridge`, `active` | `texture-lease-bridge.ts`, the bridges in use and the retired ones |
| `kept`, `mainRef`, `out`, `final` | `electron-frame-transfers.ts`: textures, and which references each still has |
| `alive`, `framed` | the renderers whose process lives, and whose frame is not destroyed |
| `hold` | what each receiver does with the texture it got: it reads it, or has said that it released it |

| Code | Actions |
|---|---|
| export owner: offer, expiry, take | `Export`, `Expire`, `HostServes` |
| `poll`, its answer and its deadline | `Poll`, `QueryRefused`, `QueryAccepted`, `QueryTimeout` |
| `rendererReady`, `rendererGone`, `retireEpoch` | `RendererReady`, `RendererGone`, within `Poll` |
| transfers: release, acknowledge, sweep, GPU done | `MainReleases`, `ReceiverReleased`, `Sweep`, `GpuReleased` |
| hosts and renderers come and go | `HostStarts`, `HostReady`, `HostAbandoned`, `HostDies` (steps of `HostLifecycle`), `RendererDies`, `FrameDestroyed`, `Releases` |

A frame's key is `generation:sequence:slot`, and every host counts from the start again: a lease is a
pair of a host's epoch and a key. What a host that died kept goes with the next start (`HostStarts`)
and not with its death: its last answer may still be read before its exit is noticed. The controller's check for the answer of another epoch has no step,
because the supervisor rejects the requests of a host it gives up (`HostAbandoned`). The poll timer
and `requestPoll` both lead to `Poll`. Of the frames in an answer at most one
is for the current renderer (a stream has one that waits); the others go back (`Refused`).

A renderer ends in three ways that come in any order: the controller gives it up (`RendererGone`: its
process is gone, or the main frame starts to navigate while the old document still reads,
`native-media-engine.ts:95-99`), its frame is destroyed, its process dies. The sweep ends the
receiver's reference on either of the last two (`electron-frame-transfers.ts:118`). A document whose
frame was destroyed while its process lives may go on reading (`Holds`); so `NoReuseWhileRead` names
it as the one reader the code does not wait for; see Findings.

## Checks

All of them stop: a system without requests rests, so deadlock is not checked.

| Run | Instance | States (distinct) | Shows |
|---|---|---|---|
| `voice_chain` | a client operation and a move, one channel, two handlers; join requests handled late and again, records that expire | 1.53 M | `TypeOK`, `Anchored`, `RetiredTracked`, `CleanupSparesMember`, `MemberTold`, `Succession`, `OneAuthority` |
| `voice_repair` | one operation, two connections, lost webhooks, records that expire, handlers that die for a while; fairness | 22 k | `GhostLeaves`, `CleanupsSettle` |
| `voice_stale_disconnect` | two client operations, one channel | stops at the violation | `OwnResourcesOnly` is violated |
| `snapshot_stream` | two publishers that may fail, two changes, silent ones among them, three versions; fairness | 60 k | `LatestIsCurrent`, `Converges` |
| `snapshot_order` | two publishers, one change | stops at the violation | `NeverBackwards` is violated |
| `director_moves` | two channels, two recovery attempts, three events | 1.06 M | `TypeOK`, `NoStrayClaim`, `RestIsAgreed`, `BreakBeforeMake`, `ConnectsToIntent`, `ShareSurvives`, `ModeratorEnds`, `BackendIsAccount` |
| `director_settles` | one channel, two recovery attempts, three events; fairness | 152 k | `IntentSettles` |
| `director_loss` | one channel, two events | stops at the violation | `LossNoticed` is violated |
| `voice_calls` | a direct channel or a group of two, three joins, two handlers and the sweep, handlers that die; fairness of the sweep | 677 k | `TypeOK`, `OnlyOverdue`, `CallSettles` |
| `control_transport` | one operation, two commands and requests for snapshots, three sockets; fairness | 810 k | `TypeOK`, `NothingLost`, `Answered` |
| `media_supervisor` | two callers, one request at a time, two restarts, four hosts, shutdown at any time; fairness | 179 k | `TypeOK`, `RestartBudget`, `NothingLeftBehind`, `NothingStuck`, `OneHost`, `CallsSettle`, `HostSettles`, `ShutdownEnds` |
| `texture_leases` | one slot, two frames, two hosts, one renderer, two queries on the way; fairness | 293 k | `TypeOK`, `NoReuseWhileRead`, `TextureTracked`, `BridgeHasRoom`, `ReleaseKept`, `ReleaseArrives` |

**Bounds.** Two handlers are enough for every race of two actors, and handlers come one after
another without limit, so longer races arise from sequences: a stale handler may sleep while the
other place is used by any number of others. Two operations are enough for supersession and
replacement; where the client's join may be handled again, it may also come back over a reservation
that superseded it, any number of times, which takes a third operation otherwise. All operations are
for one channel, so that a reconciliation meets participants of several of them: the API does not
refuse a move into the member's own channel (`member_edit.rs:261-280`), and a transition inside a channel
is where the operations are told apart by nothing else. With several channels some handlers find the
account elsewhere and do less; that is left to the theorems, which hold for any `ChannelOf`. Two connections of
one operation are needed for a `participant_left` of a connection that is not the member's. The bounds
that cut behaviours are `MaxConnects`, `MaxChanges` and `MaxVersion`, all constants. Handlers are
interchangeable, and permuted in the safety runs only; the liveness runs use no symmetry. Expiry,
handlers that die and late requests (`Lapses`, `Failures`, `LateRequests`) multiply the states:
`voice_chain` has the first and the last, `voice_repair` the first two. The theorems below hold with
all three, but for `VoiceMemberTold`, and for more operations.

In `VoiceDirector` an event is what nobody is obliged to do: a command, a moderator's act, a loss, a
missed deadline. Everything that follows from them is unbounded but for `MaxAttempts`, two in place
of the code's twenty: the loop needs a first, a next and a last attempt. Three events are what the
hazards take: join, then something that happens to the session, then something that overtakes
it. A move needs two channels; what is different about a third is nothing the code compares. The
liveness run has one channel, so it does not cover moves: two with fairness take too long.

In `VoiceCall`, `MaxTasks = 2` puts two handlers beside the sweep: two joins that cross, or a leave
and a join. `MaxJoins = 3` lets a call be answered after somebody left, `MaxDeadline = 2` lets a
deadline replace one the sweep has read. In `GatewayTransport` three sockets are a first one and one
more that are lost or replaced with commands on the way, and one that stays (it is neither lost nor
replaced, which is what `Answered` assumes of the network); `MaxAsked = 2` makes one command take the
place of another or be answered before it, and does not count the requests for snapshots. In `MediaRuntimeSupervisor` only hosts below `MaxHosts`
fail (`Faulty`), unless the runtime shuts down or is out of use: four hosts are the first, two
restarts and one after a retry. In `TextureLeases` one slot is the case in which every release
matters at once, two hosts let an old host's texture meet the new host's frame of the same key, one
renderer is given up, dies or loses its frame in any order (what a later one adds is left to the
theorems), and `MaxInbox = 2` lets a late query stand beside a new one.

**Fairness** (`FairSpec`). A started handler takes its next step, and handlers stop dying at some
time (`<>[]` no `Crash`; a handler that died is `"dead"` until `Bury` frees its place, so that a crash
is not confused with a handler that returns). The cron loop wakes up every few seconds and goes over all channels and
cleanups, whatever else is running: strong fairness of `BeginReconcile` and `BeginSweep`, since a
place for the handler is not free all the time. LiveKit does not refuse every attempt to retire a
transport: strong fairness of `RetireTransport`. An unused reservation expires: weak fairness of
its lapse. Nothing is assumed of clients, moderators, webhooks or connections. Each assumption is needed: without an end
of crashes, or without the cron, both properties fail; without `RetireTransport` `CleanupsSettle`
fails; without the lapse a reservation that is never used keeps its ghost alive. A client that kept reserving new
operations for ever would keep its own ghost alive; the finite set of operations excludes it. In
`VoiceSnapshots` a publisher that began takes its next step and one begins if something is owed, both
unless they fail; nothing is assumed of clients, and every failure and silent change sets `astray`,
which `Converges` is conditional on.

In `VoiceDirector` the fiber goes on (each of its waits has a deadline or is for the engine, which
recovers or fails for good), messages arrive, requests are served, a room that is asked for opens or
the attempt's deadline passes, memberships follow the rooms, unused reservations expire. Nothing is
assumed of the user, the moderator or of losses, and nothing of webhooks: no `participant_joined` need
arrive, be it for a commit (`MemberJoins`) or for the removal of a stranger (`Removed`; the cron daemon
does not remove one that is alone, `backend/core/database/src/voice/mod.rs:144`). A room that nobody
removes and nobody commits misses the deadline of its commit, and is closed.

In `VoiceCall` only the sweep is fair, since the cron loop never ends: nothing is assumed of the
handlers. In `GatewayTransport` a socket opens, a reconnect that is due happens, what arrives is
handled, and the server welcomes and answers on the socket that is current; losses are bounded by
`MaxSocket`. In `MediaRuntimeSupervisor` timers fire (restart, handshake, deadlines, the kill and the
graceful stop), exit and ready events are delivered, and the last host of the bound shakes hands;
nothing is assumed of other hosts or of the user. In `TextureLeases` the controller polls, the host's
thread serves, and a query ends by its answer or its deadline; nothing is assumed of the renderers
and the GPU.

**Preconditions a reader should know.** `CleanupSparesMember` holds however late requests are handled,
and exempts one operation by name: one that took the account again after it had lost it (`again`),
whose cleanup record is still there, so that the next join or sweep throws its participant out
(see Findings). That an operation does not come back at all (`Again` of
`VoiceAccount`) needs that none is handled that late. `NoReuseWhileRead` exempts the document of a
destroyed frame. `IntentSettles` and `RestIsAgreed` exempt the snapshot that came during a reconnect
(`Overlooked`), and `RestIsAgreed` says nothing of a client that is in a room in which it is neither
member nor pending: nothing need happen to it before the deadline. `MemberTold` is about runs whose handlers do not die, and about accounts that have
a session: a reconciliation that ends a membership publishes nothing. `RetiredTracked` exempts
operations whose record expired: an expiry writes no cleanup.

## Findings

- `OwnResourcesOnly` — `docs/adr/0003-unified-voice-session.md:62-63` says that stale operations
  may only clean up their own resources. A disconnect compares its operation with a snapshot, but
  then cancels whatever reservation is current and deletes whatever session is in the channel. The
  run shows a disconnect of the old operation that cancels the reservation of a newer join.
- `NeverBackwards` — the same document, lines 65-67, allows destructive reconciliation only on a
  complete *newer* snapshot. The version is taken before the membership is read, so a publisher that
  incremented first can read last: the client replaces a newer membership by an older one. It is
  temporary as far as the last publication gets through: `LatestIsCurrent` and `Converges` say that
  much and no more.
- `LossNoticed` — a terminal failure that is reported after the connect ended and before the
  membership is committed is dropped (`voice-director.ts:958`) and never reported again. If the
  backend had already made the participant a member, its snapshot commits a room that is dead, and
  when the backend notices, its next snapshot ends the intent: `CONTEXT.md:46` promises a recovery
  that preserves it. `IntentSettles` holds nevertheless: the intent is what gives way.

Nothing in the documents is contradicted by the following; they are what the models show of corners
nobody wrote down, the properties naming each as an exception:
- In `VoiceAuthority` the script that makes a reservation compares it with the current one and the
  session, and knows nothing of operations that lost the account. The desktop's transport sends a join
  again on every new socket; if the copy is handled after its operation was cancelled or superseded,
  the operation takes the account again while its cleanup is still recorded, and its participant is
  thrown out by the next sweep or join. `CleanupSparesMember` exempts it (`again`).
- In `VoiceDirector` a snapshot that comes while the Room is reconnecting is kept but not acted on
  (`voice-director.ts:807`), and the end of the reconnect shows the session as connected without looking
  at it, though it may be no member any more. `IntentSettles` and `RestIsAgreed` exempt it
  (`Overlooked`). A later snapshot puts it right.
- In `TextureLeases` the sweep takes a destroyed frame for the release of its document, also when the
  process lives on (`electron-frame-transfers.ts:118`; the comment of the class says that a texture is
  kept until "its exact frame is destroyed"). What is waited for then is the end of the main process's
  own texture. `NoReuseWhileRead` exempts such a document.
- In `GatewayTransport` a `VoiceServerUpdate` or `Error` settles every command of its operation, also
  a disconnect that was sent after the join it answers: the disconnect is not sent again if its
  socket is lost. `NothingLost` exempts it by name (`settled`); the reservation then expires.
- In `VoiceCall` two members who join at once may each find the channel empty. Neither answers the
  other, so the call rings with both in it until the sweep ends it as missed. `OnlyOverdue` allows
  it: the deadline has passed. And a member who joins between the last leaver's look at the members
  and the end of the call is in a channel without a call.
- In `TextureLeases` the export owner marks frames as delivered when it answers. If the controller
  has stopped waiting for that answer nobody releases them: the stream has fewer slots until its
  host ends. `ReleaseArrives` is about releases that were queued.

## Proofs

For any sets of operations, channels, handlers, users, calls, frames, hosts, any `ChannelOf` and
`SlotOf`, any bounds:

| Theorem | States |
|---|---|
| `VoiceTypeOK`, `VoiceAnchored`, `VoiceRetiredTracked` | `Spec => []…` of the invariants of those names |
| `VoiceSuccession` | `Spec => Succession`, an action property |
| `VoiceCleanupSparesMember` | `Spec => []CleanupSparesMember`, with late requests too |
| `VoiceMemberTold` | `Spec => []MemberTold`, when `Failures = FALSE` |
| `VoiceOneAuthority` | `Spec => OneAuthority`: the handlers implement `VoiceAccount` |
| `SnapshotsTypeOK`, `SnapshotsLatestIsCurrent` | `Spec => []…` of `VoiceSnapshots` |
| `DirectorTypeOK`, `DirectorNoStrayClaim`, `DirectorRestIsAgreed` | `Spec => []…` of `VoiceDirector` |
| `DirectorBreakBeforeMake`, `DirectorConnectsToIntent`, `DirectorModeratorEnds`, `DirectorShareSurvives` | its action properties, one each |
| `DirectorBackendIsAccount` | `Spec => BackendIsAccount`: its backend is a `VoiceAccount` |
| `CallTypeOK`, `CallOnlyOverdue` | `Spec => []TypeOK` and `Spec => OnlyOverdue`, an action property, of `VoiceCall` |
| `TransportTypeOK`, `TransportNothingLost` | `Spec => []…` of `GatewayTransport` |
| `SupervisorOneHost` | `Spec => OneHost`: the supervisor implements `HostLifecycle` |
| `SupervisorTypeOK`, `SupervisorNothingLeftBehind`, `SupervisorRestartBudget`, `SupervisorNothingStuck`, `SupervisorReadyIsCurrent`, `SupervisorNoStartAfterShutdown` | the other safety properties of the supervisor |
| `TexturesTypeOK`, `TexturesTracked`, `TexturesNoReuseWhileRead`, `TexturesReleaseKept`, `TexturesBridgeHasRoom` | `Spec => []…` of `TextureLeases` |
| `TexturesHosts` | `Spec => HostSpec`: what the supervisor implements is what `TextureLeases` is built on |

Assumptions are those the modules name: `OpAssumption` (client and server operations differ,
`ChannelOf` is a function), `BoundAssumption` (types of the bounds), `NoneAssumption` (`None` is
not a value of anything), `MembershipAssumption`, `ConstantsOK` and `BoundsOK` (finite sets, types of
the bounds, a pair has two members), `NoCallOK`.

*The argument for the authority.* `Anchored` and `RetiredTracked` speak of records only, but are
preserved only because of what a suspended handler still holds: the rec of a handler about to
commit is of its own operation and its connection is one LiveKit has seen, a handler about to
delete has an operation in hand, and so on. `Claim` says this per `pc`; `JobsOK` says it of every
job; `IInv` is `JobsOK` with the types of the data, `Anchored` and `RetiredTracked`. One lemma per
script (`PrepareOK`, `CommitOK`, `DeleteSessionOK`, …) shows that it keeps the records, one per
family of actions that the job keeps its claim. `Anchored` is what makes the rest work: the fence
of the deletion (`CanDeleteSession`), the comparison in the preparation and the renewal of the
session's time to live are exactly what it needs. `Succession` follows from `IInv` and the fact
that only `JoinedCommit` makes a session.

*The argument for the cleanups.* `CleanupSparesMember` is not inductive: the member was reserved
before, and a cleanup may be recorded for what is only reserved yet. `RecordsApart` says that reservation, session and cleanups are of different
operations, but for those that were reserved again, and one lemma per script keeps that; it needs
nothing of the handlers. Only when no request is handled late does more hold: handlers that are
about to reserve bring operations that never were reserved, each a different one (`JobsFresh`).

*The argument for telling the client.* The handler that makes a member goes on to publish, and
only the publication or the handler's death ends that. So without handlers that die `Announced`
holds: a member that was not told of has a handler that will tell it.

*The argument for the account.* Step by step: the preparation is `Reserve`, a lapse or a
cancellation is `Withdraw`, `JoinedCommit` is `Commit`, a deletion of the session is `Remove`, and
everything else leaves both records alone. What is not obvious is that the member does not go while
a reservation waits for it: the deletion takes a reservation fenced by the session with it, and
that no other reservation can be there is `Anchored`. That an operation is not used twice is
`JobsFresh`; with late requests it may be, and `Again` says so.

*The argument for the snapshots.* A publisher that holds the counter's value has read after the
increment, so unless a change is still uncounted it holds the membership. And whoever counted the
highest version still brings it, or the client has it, or its publisher failed, or the link lost it,
and then `astray` is set (`Brought`). So when no publisher is left and nothing went astray the client
has the membership too: `LatestIsCurrent` covers both.

*The argument for the Director.* Everything may arrive while the fiber is suspended, and most handlers
only note it (`stale`). The invariant says per suspension what the Director holds (`Holds`: an
operation while it reserves, a lease while it connects or rests connected, nothing elsewhere) and
that it works for the present intent unless `stale` is set (`WorksFor`). `Rooms` relates this to the
engine: without a lease, and not in a disconnect, no room is open but one whose close missed its
deadline, so each way into a connect starts without a room. `Claims` relates it to the authority:
every request or reservation of the client is the Director's, or it is about to take it back.
`Remembered` is what `ModeratorEnds` needs of a session that was lost before. One lemma per pure
operator (`DisconnectOK`, `ReconcileOK`, `WakeOK`, …) says what the Director is after it, one per
action puts the room and the requests beside it.

`RestIsAgreed` says that no wake-up is missing: when nothing is on its way, intent, membership and
engine agree. Its invariant `Tracks` follows the messages to the Director: publications are ordered as the
changes they show, and the last one shows the present member (`Ordered`); a
snapshot that shows a lease is newer than the version the lease was taken at, so the Director does
not drop it (`Waits`); an operation is reserved
once (`Claimed`, `Numbered`), so a snapshot that shows it shows its only commit; no room of it is
open before (`Ahead`), so that room is not a leftover; and a committed connection is open, about to
be reported lost, or about to be corrected by a snapshot (`Shows`). `Claimed` and `Numbered` are
also what makes the backend a `VoiceAccount`.

*The argument for the calls.* The sweep acts on a document it has read earlier, and the comparison
before it writes is of documents, not of time. `OnlyOverdue` needs that a document equal to the one
read has the same deadline, and that this deadline is still over: `SweepKnows` says that what the
sweep has read as late is over now, unless the call has another deadline, and then for good, since
a deadline that was replaced never returns (`Replaces`): fresh ones grow (`Dated`), and the grace of
one follows it only once, because it ends the ringing.

*The argument for the transport.* `AcksAreTrue` (an event of the server that names a command is
about one it handled), `Numbered` (what is kept, sent or handled under a key has a number that was
given out, and what is kept is the latest) and `Remembered` make its first part inductive. The second one, that what is kept is under way, needs that a configured transport has a
socket or a reconnect that is due (`Awake`), and that a welcomed socket is open and either brings
Ready or has sent what is kept (`Greeted`, `Sure`).

*The argument for the supervisor.* `Accounted` is the core: a process exists only under the adapter
in use or the one that retires. With `LatestInUse` and `InUseIsUp` it shows that a launch finds no
process (`LaunchAlone`), whoever calls `startHost` and for every promise that may
still be pending. `DoomedIsDown` and `WaitingIsAlone` are what shutdown needs. The budget is an
invariant of its own on top (`Budget`: the hosts launched are accounted for by the attempts), as is
`ReadyInv` for requests and `LastHostLives` for `TypeOK`. `NothingStuck` is a third one, `Moving`: a start
or a recovery has something that moves it on (`Goes`), nothing stands in the way of a timer
(`Free`), whoever waits has a handshake (`Awaited`), and after a failed termination nothing is left
that should go on (`DoomedRests`).

*The argument for the textures.* `Agreed` relates the two processes, which only exchange queries:
what the main process holds is delivered natively, what it has released and the host does not know
of is in a query on the way or queued (`OnWay`), and what is on its way back is not held. The other
parts say that this is about the right host (`Epochs`, `QueryCurrent`, `LeasesExist`)
and that references are counted right (`Referenced`). Whether the bridge has room is a second
invariant on top (`RoomInv`): the controller has met a host that is not given up exactly when the host
serves (`Follows`), what a query does not carry the host was not told to free (`Settling`), so every
active lease is one the host still counts in its stream (`ActiveIsCurrent`, `StreamsFit`), and
an injection of the first into the second bounds them.

Only model-checked are the liveness properties, because fairness and `ENABLED` are beyond the prover:
`GhostLeaves`, `CleanupsSettle`, `Converges`, `IntentSettles`, `CallSettles`, `Answered`,
`CallsSettle`, `HostSettles`, `ShutdownEnds`, `ReleaseArrives`. What half of them says
about states is proved: that nothing is left undone with nobody to do it is `RestIsAgreed` for
`IntentSettles`, `LatestIsCurrent` for `Converges`, `NothingLost` for `Answered`, `NothingStuck` for
the supervisor's three, `ReleaseKept` for `ReleaseArrives`. What TLC adds is that under fairness the
rest is reached. Every other property of a passing run is a theorem.

## Not modelled

- *A voice channel with several accounts*: capacity, the verdict of a reconciliation applied late to
  members who joined in between, the fence by which `room_finished` spares a newer room, the
  projection of members. `VoiceAuthority` is about one account and `VoiceCall` about members without
  authority; the product of both is beyond TLC with the handlers this code has, and needs
  a room of several `VoiceAccount`s.
- *Tracks* of a participant and the flags inside a record: they change no authority.
- *The lock of temporary members*: a renewed lease that guards the membership of the server.
- *The composition of `VoiceDirector` with `VoiceSnapshots`*: a snapshot that overtook the change it
  should show may, by its version alone, end an intent.
- *The supervisor's recovery snapshots* and the forwarding of events by sequence; telemetry.
- *Coalescion, rate limits, presence, channel activities, permissions, the web sync store*:
  independent of voice transitions, each with its reason in `PROJECT.json`.
- Left out for good: REST validation and single-document storage, files, embeds, push, user
  interfaces (no protocol of their own), the C++ media paths (I/O; their protocol is seen through
  the supervisor and the frames), and LiveKit's server (external; its rooms and webhooks appear as the backend
  uses them). Within the modelled handlers: permissions and rate limits in front of a request, and
  the removal of a participant for a forbidden track, which deletes a session through the same
  function as `participant_left`.

What would come next: `VoiceRoom` over `VoiceAccount`; presence.
