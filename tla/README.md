# TLA+ models of the CloudGaming marketplace, host and media path

This directory holds formal models of the program in this repository: a
matchmaker that leases Windows gaming hosts to browser players, the signaling
server between the two, the native host agent, and the Go library that carries
video, audio and input over WebRTC. The models are written from the source;
`PROJECT.json` names, for every definition, the lines it stands for.

Contents: [the system](#the-system), [what is hard about it](#what-is-hard),
[the modules](#the-modules), [the runs](#the-runs), [the proofs](#the-proofs),
[disagreements found](#disagreements-with-the-documentation),
[what is not modelled](#what-is-not-modelled), [plan](#plan).

To check everything: `tlc -config <X>.cfg <Module>` for each run of
`PROJECT.json`, and `tlapm` on the eight modules whose name ends in `_proofs`.
A configuration that no run of `PROJECT.json` names demonstrates one of the
[disagreements](#disagreements-with-the-documentation).

## The system

### Parts, their state and their operations

| Part | Source | State it keeps | Operations |
|---|---|---|---|
| Marketplace sessions | `Server/mm_server/Matchmaker.js`, `Server/controlGateway.js` | Redis: session records, the player's key, three sorted sets of deadlines; in the process: the control sockets | create, cancel, allocate, fail or retry, six host events, three timers, presence, accept and close of a socket |
| Redis scripts | `Server/orchestration.js` | host records, leases, idle lists by game | PRESENCE, CLAIM, RELEASE; key expiry |
| Legacy pairing | `Matchmaker.js` 302-429, 781-837, `sessionTokens.js` | hosts by code, reservations, consumed codes, TURN cache | heartbeat, find, token exchange |
| Catalog | `Matchmaker.js` 647-689 | memberships in Redis | read and prune |
| Signaling server | `ScalableSignalingServer.js`, `redisScripts.js` | Redis: room members, role owners, client leases; in the process: local rooms | join, message, leave, heartbeat, drain, Redis fan-out, breaker |
| Host agent | `Host/Runtime.cpp`, `MarketplaceControl.cpp`, `MatchmakerClient.cpp` | active session, phase, command queue, deadlines, the control socket | prepare, stop, attach, reports, cleanup, presence thread |
| Host lifecycle | `HostController.cpp`, `SessionManager.cpp`, `StreamProfileManager.cpp` | worker thread, session state, requested/pending/active profile | start, stop, authorize, request and apply a profile |
| Host signaling client | `Websocket.cpp` | the socket, its retry timer | offer, candidate, peer-disconnected, reconnect |
| Host input | `Input*.cpp`, `KeyInputHandler.cpp`, `MouseInputHandler.cpp` | bounded queue, authorized session, pressed keys, sequence numbers | enqueue, process, emergency release, stuck-key check |
| Go media and input | `gortc_main/main.go` | peer connection and its generation, connection state, video and audio queues, pending drops, input queues | create, close, offer, candidate, send video and audio, sender goroutines |
| Capture and encode | `CaptureHelpers.cpp`, `Encoder.cpp` | texture pool, frame queue, pacing schedule | WGC callback, encode loop, start, stop |
| Audio capture | `AudioCapturer.cpp`, `OpusEncoder.cpp` | packet queue, ring buffer, state | WASAPI loop, encode, stop |
| Adaptive quality | `AdaptiveQualityControl.cpp` | network statistics, drop counters | update, decide |
| Browser client | `Client/html-server/index.html` | session being polled, sockets, peer | sign in, poll, connect, input |
| Support | `playerAuth.js`, `security.js`, `validation.js`, `config.js`, `health.js`, metrics, configuration, updates, tray, diagnostics | - | checks of one request, I/O |

### How they interact

A player's browser asks the matchmaker for a session (HTTP). The matchmaker
looks for an idle host of the game in Redis, claims it with a script, and sends
`session.prepare` over the WebSocket that host keeps open. The host launches the
game, answers `session.launch_ack`, and from its main loop reports
`session.game_ready` until a player's stream is connected, then
`session.stream_connected` once. The browser polls the session and then meets the
host in a signaling room, where both exchange SDP and candidates. Frames go from
the capture callback to the encoder, to a queue of two samples in Go, to the
peer connection; input comes back through data channels, a queue in Go, a queue
in C++ and a state manager.

Three timers of the matchmaker (one second) end preparations and sessions that
last too long and sessions of hosts that stay disconnected. Presence is posted
by a thread of the host over HTTP, independently of the control socket. Host and
matchmaker share nothing; matchmaker processes and signaling instances share
Redis.

### What makes each part correct

- *Scripts*: a leased host is never listed or recorded as idle; an idle one can
  be found; a host is held by one session at a time.
- *Marketplace*: a host that is held is let go by a handler of the session that
  holds it, or by its expiry; a session that is over stays over, unless a handler
  still has an older copy of its record; a host that goes on running always comes
  back to the pool. (The documentation promises more: one host for a session, a grace
  period that ends. What the code makes of that is among the
  [disagreements](#disagreements-with-the-documentation).)
- *Host agent*: one session at a time, cleaned before the next, reported in order.
- *Signaling room*: a client's lease, its role and its place in the room agree; an
  owner loses the lease to its own reconnect only; messages arrive once and in
  order; a role does not stay with an owner who is gone.
- *Pairing*: a code is good for one player; the one slot of a host is promised to
  one player at a time; a host that serves nobody can be found again.
- *Go video*: no duration is lost; keyframes survive; frames keep their order.
- *Go audio*: what waits for a peer to connect belongs to that peer and is sent when
  it connects; numbers and times grow across the wrap and a reset; a payload goes
  back to its pool once; a stop of the media runtime comes to an end.
- *Input*: what Windows holds once everything sent is worked off, the player holds
  too, but for three kinds of loss that the model names: a press that a reset overtook, a
  release that a full Go queue or a closing channel dropped, a release that the window
  without focus did not get; a stop releases everything.
- *Capture*: textures are neither lost nor used after they are freed; the newest
  frame is the one that survives; the encoder gets frames in order.
- *Audio capture*: packets leave in order, the newest frame survives, no frame waits
  for a wakeup that was missed.
- *Stream profiles*: the encoder runs at the bitrate that is wanted, a profile
  shown as active is the one in force, a request is answered.
- *Host lifecycle*: the session that runs is the one that is served; after its cleanup
  the session manager has forgotten it and its game is stopped (not so the input
  authorization and the peer that a late offer may have left); an acknowledged session
  is reported ended; a stop is obeyed.

<a id="what-is-hard"></a>
## What is hard about it

The hazards are listed line by line in `PROJECT.json`. In short:

- Handlers of the matchmaker work on a copy of a record loaded several awaits
  earlier and save it whole. Nothing serialises the handlers of one session.
- Claim, save, command and deadline are separate Redis commands; the process can
  be killed between any two.
- Records, leases and deadlines expire independently of each other.
- A control socket can break with commands and events on it, and be replaced
  while the old one's close event is still to come.
- In Go, the encoder thread, the sender goroutine, the life cycle calls and the
  callbacks of the transport interleave; a frame is stamped, judged and written
  at different moments.
- Signaling instances see each other through Redis only; joins, leaves and
  messages overtake each other.
- The host runs about ten threads. Stop flags are set without the mutex of the
  condition they belong to, decisions about a key and the call that carries them
  out are apart, bitrate and generation are separate atomics.

## The modules

| Module | Role |
|---|---|
| `MarketTypes` | The sets and records shared by the marketplace modules |
| `HostAllocation` | Abstract: hosts are free, held by one session, or neither |
| `OrchestrationStore` | The three Lua scripts and the key expiries, under arbitrary callers; implements `HostAllocation` |
| `HostAgent` | The host's marketplace commands, control socket and presence, for every host |
| `Marketplace` | The matchmaker's handlers and timers; extends the store and the hosts |
| `MarketplaceMC` | Its instance for TLC |
| `Pairing` | The host's code, its heartbeats, the matchmaker's scripts and the players who type it in |
| `SignalingRoom` | One room of the signaling server on several instances, through Redis |
| `SignalingRoomMC` | Its instance: which sockets are opened where |
| `HostLifecycle` | One host process: start, sessions, signaling thread, stop |
| `HostInput`, `HostInputMC` | Keyboard and mouse from the data channels to SendInput |
| `PeerConnection` | The Go peer connection: replacement, close, transport and callbacks; shared by the next two |
| `PeerMedia` | The Go video path against replacement of the peer connection |
| `PeerAudio` | The Go audio path against the same, and against the stop of the media runtime |
| `CapturePipeline` | Capture callbacks, texture pool, queue, encoding thread |
| `StreamProfiles`, `StreamProfilesMC` | Profiles, bitrate and the (re)opening of the encoder |
| `AudioCapture` | Capture, encoder and sender threads of the audio path |
| `Marketplace_proofs`, `SignalingRoom_proofs`, `HostLifecycle_proofs`, `HostInput_proofs`, `PeerMedia_proofs`, `PeerAudio_proofs`, `CapturePipeline_proofs`, `StreamProfiles_proofs` | Theorems about the module of that name; `Marketplace_proofs` also about `OrchestrationStore` and `Pairing`, `CapturePipeline_proofs` also about `AudioCapture`; see [the proofs](#the-proofs) |

Every module states a type invariant. TLC has checked each of them with the
instance of its run; the listed runs spend their time on the other properties.

### OrchestrationStore

`hostRec`, `lease`, `idleHosts` and `record` are the four kinds of Redis key. A
Lua script is one action because Redis runs it alone. `PresenceScript`,
`ClaimScript` and `ReleaseScript` take the caller's arguments; `StoreNext` lets
anybody call them at any time, so what is shown here does not depend on the
callers being careful. A key that expired is a record of state `absent` and a
lease `NoSession`. The seven states a host publishes are two here: `idle`, and
`busy` for the other six, which no script or handler tells apart.

The module states `StoreTypeOK`, `LeasedNeverIdle`, `IdleIsListed` and
`ImplementsAllocation`. They are proved for any callers. For the callers of the
marketplace `LeasedNeverIdle` and `ImplementsAllocation` are proved again
(`Marketplace_proofs`), and `market_sessions` checks the refinement with TLC.

### HostAgent

One action per branch of `ApplyMarketplaceCommand` and of `Tick`. `inbox` is the
wire plus `pendingMarketplaceCommands_` (without its limit of 64, which the
bounds do not reach). `events[h][k]` are the events on the host's k-th
connection: a new connection does not reorder or drop what an old one has
delivered. Cleanup is two steps, because commands and the socket go on during
it: `BeginCleanup` and `FinishCleanup`, which sends the terminal event and
forgets the session.

A dropped connection keeps a prefix of what was on the wire in each direction.
A stopping agent is a crash in which a prefix of its messages, `session.failed`
included, still arrives.

### Marketplace

The matchmaker is one Node process with one Redis connection, on which commands
execute in the order they are issued, and nothing runs between two awaits of a
handler. So a step of a handler is *its code from one reply to the next command,
and that command*; a handler between two steps is a record in a slot of `task`,
with the copy of the session it works on. Steps of different slots interleave.

Where this merges commands: `saveSession` is three commands, of which only the
first writes something another part reads; the two ZREMs of `Unarm` touch sets
that only the scans read; `FindHosts` reads the idle list and the records of the
candidates in one step, since `CLAIM_SCRIPT` tests again what it finds.

Session records do not expire (their TTL is days); loss of a record is not
modelled. The three timers find an id in its set (`Scan`) and load its record in
a later step (`Load`), by which time it may be gone.

Handlers of one session overlap freely, as in the code: the promise chain of a
connection serialises the events of that connection (`controlGateway.js:47-63`), and
nothing serialises these with events of another connection, with a timer's run that is
still in progress, with a request, or two of those with each other. `Slots` bounds how
many are in progress at a time, whatever sessions they are of. What such handlers break
is shown by `MarketTwoHosts.cfg`, `MarketRevived.cfg` and `MarketUnlocked.cfg`; what is
checked and proved of the marketplace is what they do not break.

A player may cancel in every state but the ends, `reserved` included, and again while
an earlier cancellation is under way; `MaxCommands` bounds the stop commands that this
puts on the wire. A lease lapses in any phase of its session, since its TTL counts from
the claim (`Matchmaker.js:498`), and no assumption relates it to the session's deadline.

`Faults` names the failures a run explores: `drop` (a control connection
breaks), `crash` (an agent stops), `launch`, `exit` (a game fails to start or
exits), `restart` (the matchmaker is killed between any two commands), `late`
(presence posts are delayed and reordered), `cancel` (the player cancels). `Flaky` are
the hosts they happen to.

### Pairing

One host, of capacity 1 as `sendHeartbeat` has it. `HeartbeatScript` and
`ClaimHostScript` are the two scripts; `pairRec`, `reserved`, `offered`, `consumed` and
`room` are the keys they share. `host` is the thread that beats, with the code it
shows and the room it waits in; `post` is the heartbeat under way and its answer;
`late` are heartbeats the host gave up after five seconds and the matchmaker handles
all the same. `find[p]` follows a player through `POST /api/match/find` (the lookup,
the claim, the TURN credentials) to the token, and `Connect` takes the token to the
signaling server.

Codes and rooms are random and never drawn twice: a draw takes one that nothing
refers to any more, so that three codes stand for any number. Keys expire at any
time, except for what a comment at the action says keeps them alive: the mark of a
used code lives longer than three beats of the host, one of which is answered. What
breaks that is a fault with a name: `outage`, and likewise `overtaken` (a heartbeat
handled after a later one) and `quick` (a start before the last run's keys have
expired). `uses` is a history variable.

### PeerConnection, PeerMedia, PeerAudio

A step is one critical section of `pcMutex`, one atomic operation or one
operation on a queue. `life` follows
`createPeerConnectionGo` and `closePeerConnection`, which `pcLifecycleMutex`
serialises: peer and track are dropped, the old peer closed, `peerGeneration`
bumped, the pending drops zeroed, the queue drained, the new peer installed. In
`createPeerConnectionGo` the whole installation is under `pcMutex`, one step.

`producer` follows the encoder thread through `sendVideoSample`: check, swap of
the pending drops, stamp, push, eviction, put back or replace. `sender` follows
`videoSenderGoroutine`: pop, judge the generation, and, after the pacing wait,
write to the track. `wire` and `callbacks` are the transport: its state changes
are reported by `StateChanges` whenever the goroutine runs, also after the peer
was replaced, and overwrite `connectionState` as in the code.

`PeerMedia`: a frame is its number, whether it is a keyframe, its generation and
`PrevDroppedPackets` (`prev`); durations are counted in frames. The saturation at
65535 is out of reach and left out, as are write errors of the track and the
10-second idle log. `accepted` and `shown` are history variables: what was taken
for a peer and how far its track has advanced.

`PeerAudio`: `producer` is the capture thread in `sendAudioPacket`, from the
baseline of the clock over number and time to the place where the packet is
buffered or queued under `pcMutex`. `flush[g]` are the packets that the state callback of
peer `g` has taken from the buffer, `enqueue[w]` how far the capture thread (0) or a
callback is in `enqueueLatestAudioPacket`: push, evict, push again. `sender` is the
packet in `audioSenderGoroutine`, `runtime` follows `startMediaRuntime` and
`closeGo`, which sees a queue filled and waits for its packet. Numbers are unbounded,
times wrap at `TimeWrap`; a packet's `gen`, the peer it was made for, is a history
variable, since audio packets carry no generation. Payloads are not modelled
apart from the packets that own them.

### SignalingRoom

`keys` are the Redis keys of one room: the set of members, the clients' leases,
and the owner of each role. `LuaJoin` and `LuaLeave` are the two scripts as
functions from the keys to the keys and a result. A WebSocket is its number;
`sock` says to which instance it is connected, on whose behalf, what its
`readyState` is and where its handlers are: `join` (checked, about to run the
script), `joined`, `open` (in `localRooms`), `left` (out of it, LEAVE to come),
`tell` (about to publish `peer-disconnected`). A Redis command is one step with
the code of the handler up to the next `await`, so a socket can close between
any two: `Undo` is the check for that after the join; after `Register` it is
`Disconnect`.

A message waits in `pending` (the promise chain of its socket), is examined, waits
for the rate limits and is routed (`Examine`, `Route`): to the sockets of the same
instance at once, to the others through their `inbox`, where `Check` reads lease
and role and `Deliver` forwards it. The two GETs of `handleRedisMessage` are one
step, which is exact: with `clientId`s that are never used again, the one key
cannot come back after the other is gone.

Abstracted: credentials, tokens, origins and malformed requests are one refusal
(`Refuse`); rate limits are one (`Limit`); the heartbeat is `Drop`, for the
terminated socket, and `Refreshed`, for the keys it keeps alive; expiry comes only
to keys that nobody refreshes (their TTL is many heartbeats); the breaker's count
of failures saturates. Messages have numbers, `n = 0` is `peer-disconnected`.
`heard` is a history variable.

### HostLifecycle

`main.pc` is where the runtime thread is: `tick`, `look` (the second half of
`Tick`), and the steps of `CleanupSession` and `stopWebsocket` (`clean`, `flag`,
`closePeer`, `halt`, `join`), which other threads can come between; `then` and
`back` say where the two subroutines return to. `socket.pc` follows the signaling
thread in the same way through `handleOffer`: the operator's dialog (`asking`),
replacement, authorization, creation of the peer, the mark of the session.
`TimePasses` is a deadline, `host.last` the state of the peer seen last.

### HostInput

One action per critical section of the chain: `OnMessage` queues of Go with their
overflow rules, the polling loop, the transport queue, the state manager, the two
handler threads, `SendInput`. `reset` follows `resetAllInput` on each of the three
threads that call it. `os` is what Windows holds. The history variables name what
no release can reach: `overtaken` (a press already past its last test when a reset
ran), `abandoned` (a release thrown away when the Go queue was replaced by one reset, which
carries no session and is refused, or when its channel closed), `withheld` (a release not injected because the target
has not the focus).

### CapturePipeline, StreamProfiles, AudioCapture

The three keep to one grain: a critical section, an atomic access that another
thread can come between, or a call that can fail. The test of a condition and the
falling asleep are two steps where the flag is set without the mutex
(`dozing`, `asleep`).

`CapturePipeline`: textures are counted by size, not named. `runtime` follows
`StopCapture`: flag, wait for the callback, notify, join, release.
`StreamProfiles`: of the two generations of the bitrate only two comparisons
matter, so they are two bits; `consumer` follows the encoding thread through
`TakePending`, the ceiling, the decision to reopen, and `InitializeEncoder`.
`AudioCapture`: a frame is made of two blocks, known by the capture session each
was captured in; `Faults` are the calls that may fail; recovery, retries and
reinitialisation follow the code with small limits.

## The runs

| Run | Instance | What it shows |
|---|---|---|
| `market_sessions` | 1 host, 2 sessions of one player, 2 slots, launch failure | `LetGoByItsOwn`: a handler of the session that had the host before takes it from nobody; `ImplementsAllocation`: the scripts, as the marketplace uses them, allocate hosts exclusively |
| `market_restart` | 1 host, 1 session, 2 slots, 2 connections, restart, cancel, exit, late presence | `OverStaysOver`: a session that is over, with no handler left that has an older copy, does not come back, whatever is lost, delayed or killed |
| `market_liveness` | 1 host, 1 session, 2 slots, crash, drop | under fairness `HostsReturn`: a host that goes on running is offered again and again |
| `pairing` | 2 players, 3 codes, 2 rooms, 2 faults of five kinds | `CodeUsedOnce`, `ReservedOnce`; under fairness `FoundAgain` |
| `signaling_room` | 2 instances, 3 sockets, 2 sessions, 2 messages or faults | `LeaseIsWhole`, `HeardInOrder`, `LeaseLostToOwner`; under fairness `RolesAreFreed` |
| `host_lifecycle` | 1 marketplace session, 2 paired players, 2 starts, 2 commands, 2 events | `ActiveIsServed`, `CleanupForgetsSession`, `NoSessionForgotten`; under fairness `HostStops` |
| `host_input` | 2 keys that exclude each other, 1 button, 4 events, queues of 2, 1, 1 | `QuietFollowsClient`, `StoppedReleasesAll` |
| `peer_media` | queue of 2, two generations, 5 frames | `NoDropForgotten`, `KeyframeSurvives` |
| `peer_audio` | queue and buffer of 2, generations up to 3, 3 packets, 2 runs of the media runtime, times modulo 8 | `NothingStranded`, `BufferIsOwn`, `PayloadHeldOnce`, `DrainIsServed`, `NumberedInOrder` |
| `capture_pipeline` | 2 callback threads, 2 sizes, 5 frames, 2 resizes, 2 captures | `PoolAccounted`, `TextureAvailable`, `ReleasedUndisturbed`, `EncodedInOrder`; under fairness `EveryFrameTaken` |
| `stream_profiles` | 2 profiles and a default, 3 bitrates, 2 requests, 1 report, 2 captures | `AppliedIsCurrent`, `ActiveIsTrue`; under fairness `RequestAnswered` |
| `audio_capture` | all faults, ring of 2, 2 captures, 3 frames | `NewestSurvives`, `SentInOrder`; under fairness `EveryFrameLeaves` |

### Bounds and why they are enough

- *Marketplace*: two handlers in progress are the stale copy and the one it meets;
  a third finds what two have left. Two sessions that follow each other on one host are
  a holder and a former one. A second host matters where a session moves or holds two:
  `MarketTwoHosts.cfg` has three, one to leave and two to be claimed by overlapping
  handlers. `MaxConn`: two connections are needed for events of a replaced
  one to arrive late. `MaxEvents`: reports are periodic and one in flight is
  already stale when a handler is between two steps; terminal events and answers
  are not limited. `MaxPresence`: one delayed post overtakes claim and release.
  `MaxCommands`: a host that is being told to stop need not be told a third time.
- *SignalingRoom*: a host on one instance, a player on the other, and a third
  socket that is a reconnect of the player on either instance or the player of
  another session: every pair of sockets a script compares. Messages and faults
  share a bound of two, so that two messages, or a message and the failure that
  disturbs it, or two failures meet. One waiting message and a threshold of one
  failure make the limits bite.
- *HostLifecycle*: a session and two paired players make every replacement of one
  by another; two starts let the leftovers of one meet the next; offers, losses,
  departures and selections share a bound of two.
- *HostInput*: queues of one and two overflow with three events; four events
  contain a press, its release, a reset and what disturbs them. Each key has a virtual
  key of its own. Enter and NumpadEnter share one (`KeyInputHandler.cpp:160`): the
  release of one makes the handler forget both (line 590), and as `SendInput` is given
  the virtual key, what Windows then holds of the other is not in the model.
- *Pairing*: two players race for one code or hold two, three codes are the one
  shown, the one before and one to draw, and two faults let one meet another.
- *PeerAudio*: a queue and a buffer of two hold a packet that is evicted and one that
  is not, where the code has three; three packets overflow them. The clock starts two
  frames before the wrap and advances by none or two, so that the first packets cross
  it. Two runs of the runtime give a stop and a start after it.
- *PeerMedia*: the queue has two places, as in the code. Five frames fill it,
  fill the sender and the producer and let an eviction meet another; two
  generations give a peer that is replaced and one that replaces it.
- *CapturePipeline*: the queue has the code's two places and the pool one more;
  five frames fill both, the worker and a callback.
- *AudioCapture*: three frames fill a ring of two and overflow it; each limit of
  retries is one, which is crossed by the second error.
- *StreamProfiles*: one profile changes the bitrate only, one both; a report can
  fall between any two accesses.

`SYMMETRY` is used where only safety is checked and the members of a set are
interchangeable: the two keys in `host_input`, slots and the
sessions of one player in `market_sessions` and `market_restart`.
The deadlock check is off where the bounds end the run (no further frame, event, socket
or start); it is on in all runs of the marketplace.

### Fairness

- *Marketplace* (`LiveSpec`): a handler in progress gets its replies; a running host
  takes its commands, finishes a cleanup, and reaches its own deadlines (its main loop);
  its presence thread posts, over HTTP and so without a control connection; a key of
  Redis with a TTL expires. Nothing is assumed of the player, the game, the events, the
  timers of the matchmaker, a reconnect or the close event of a connection: the gateway
  has no ping (`controlGateway.js:44-72`), so a half-open socket need never be noticed.
  `ServedSpec` adds that queued events are handled, timers fire and closes are noticed;
  only `MarketStranded.cfg` uses it, whose counterexample is the stronger for it.
- *SignalingRoom* (`FairSpec`): handlers of connections get their replies, keys
  that nobody refreshes expire, a draining instance exits. Clients need do nothing.
  `FairDelivery` adds that what is published is handled.
- *Pairing* (`PairFairSpec`): the host's thread runs, requests are handled and answered
  unless they fail, handlers proceed, and what nobody renews expires; the reservation
  strongly so, since the claims of other players may come between. Nobody has to ask,
  to connect or to leave.
- *HostLifecycle*: both threads are scheduled and time passes; nobody has to answer
  the dialog, connect or send an offer.
- *CapturePipeline*, *AudioCapture*, *StreamProfiles*: the threads are scheduled and
  a start or stop that has begun proceeds. Frames need not come, except in
  `StreamProfiles`, where a profile is applied at a frame and the capture is assumed
  to deliver some; the test of the encoder is strongly fair because frames that are
  late skip it.

## The proofs

Every theorem holds for all values of the constants, the bounds of TLC's runs
included, under the named assumption of its module (the constants are typed; the
values that stand for "none" are not members of the sets they complete). Where a
theorem assumes more, its statement and the text below say so. An invariant is
proved from a stronger one that every step preserves, with a lemma for each group of
actions; the strengthenings were checked with TLC on small instances.

Two modules of proofs are about two modules each, which they extend both. The names
of one of the two therefore say what they belong to: `PairSpec`, `AudioSpec`.

| Property of a run | Theorem | Holds |
|---|---|---|
| `ImplementsAllocation` | `ScriptsImplementAllocation`, `MarketImplementsAllocation` | always |
| `LetGoByItsOwn` | `HostsAreLetGoByTheirOwn` | always |
| `OverStaysOver` | `OverIsOver` | always |
| `CodeUsedOnce` | `CodesAreUsedOnce` | without the faults `overtaken`, `outage` and `quick` |
| `ReservedOnce` | `HostIsReservedOnce` | always |
| `LeaseIsWhole`, `LeaseLostToOwner`, `HeardInOrder` | `LeasesAreWhole`, `LeasesAreLostToOwners`, `MessagesAreHeardInOrder` | always |
| `ActiveIsServed`, `CleanupForgetsSession`, `NoSessionForgotten` | `ActiveSessionIsServed`, `CleanupForgets`, `NoSessionIsForgotten` | always |
| `NoDropForgotten`, `KeyframeSurvives` | `NoDropIsForgotten`, `KeyframesSurvive` | always |
| `StoppedReleasesAll` | `StopReleasesAll` | always |
| `QuietFollowsClient` | `QuietFollowsAll`, `QuietFollowsPlayer` | of buttons, and of keys that share their virtual key with no other: all of the table but Enter and NumpadEnter |
| `BufferIsOwn`, `NothingStranded`, `DrainIsServed`, `PayloadHeldOnce` | `BufferOfThePeer`, `BufferIsFlushed`, `DrainEnds`, `PayloadReturnedOnce` | always |
| `ReleasedUndisturbed`, `EncodedInOrder`, `PoolAccounted`, `TextureAvailable` | `ReleaseIsUndisturbed`, `FramesAreEncodedInOrder`, `NoTextureLeaks`, `TextureIsAvailable` | always |
| `NewestSurvives`, `SentInOrder` | `NewestFrameSurvives`, `PacketsLeaveInOrder` | always |
| `AppliedIsCurrent`, `ActiveIsTrue` | `BitrateIsApplied`, `ActiveProfileIsTrue` | always |

### Marketplace_proofs: the scripts

The module begins with the store alone. It proves, for any sets of hosts, sessions and games,
any offers, and under `ConstantsAssumption` only (the constants are typed and
`NoSession`, `NoHost` are not members of the sets they complete):
`StoreTypeCorrect`, `LeasedHostsAreNotIdle`, `IdleHostsAreListed` and
`ScriptsImplementAllocation` (`StoreSpec => Allocation!Spec`). The inductive
invariant `IInv` is the conjunction of the first three, which support each other:
`LeasedNeverIdle` is preserved by PRESENCE because the script looks at the lease;
the claim takes a host out of the lists of *its record*, so the listing is right
only because record and lists agreed before. The refinement maps `holder` to the
leases and `free` to the hosts recorded idle; it needs `LeasedNeverIdle`, without
which a late presence of a held host would be an offer of a host that is not free
to be offered. Each script then is one abstract action: a claim takes, a release
lets go, a presence offers or withdraws, an expiry withdraws or lets go.

### Marketplace_proofs: the sessions

Nothing here assumes anything about how handlers overlap, how many there are, or which
failures happen.

`Typed` is the invariant: what the records, the keys, the wires and the
handlers contain. A handler is a record whose fields depend on the step it is at, so
it says what each step may count on (`TaskShape`): that a claim has
an allocating copy, that a copy with a host is not allocating, that a timer's
handler has no event. From it follow `MarketTypeCorrect`, `MarketLeasedNeverIdle`
and `MarketImplementsAllocation`: each step of a handler is one script of the store,
or leaves the store alone.

`HostsAreLetGoByTheirOwn` goes through the steps that write a lease. A release compares
the lease with the session of its handler (`ReleasesItsOwn`), so a handler that comes
late with a failure or an end changes nothing of another's; a claim takes a host that is
not leased (`ClaimsTheFree`), so it lets none go.

`OverIsOver` is about a session whose record has ended and whose handlers, if any, have
nothing older to write (`Settled`). The lemmas follow a handler of a settled session to
its end: one that has yet to load the record will find it over (`Ignore`), one with a
copy that is over writes that end again, and one that is after its last save writes no
more (`Harmless`, `ResumeSettled`); a handler that starts finds the record over
(`StartSettled`); and a handler that looks for a host, claims or sends has an allocating
copy, so that it works for another session and its script leaves this record alone
(`SettledStep`). That the handlers of a cancelled session do have older copies is why
nothing of the kind holds from the cancellation on (`EndingIsKept`).

### Marketplace_proofs: the pairing

`HostIsReservedOnce` needs nothing: the slot of a reserved host stays taken, since
every heartbeat subtracts the reservation and every claim tests the slot.
`CodesAreUsedOnce` assumes that the faults `overtaken`, `outage` and `quick` are not
among those that may happen (`InTurn`); each of them alone lets a used code be offered
again (`PairingViolated.cfg`). The invariant, `CodeInv`: there is one code at a time
that a heartbeat can still publish or has published, what is under way carries it, and
if it was used the mark in Redis names it.

### SignalingRoom_proofs

It proves, for any instances, sockets, sessions, capacity,
limits and openings, under `RoomAssumption`, that a connected socket with a lease
has its role and its place (`LeasesAreWhole`) and that its lease goes to a
reconnect of its own owner only (`LeasesAreLostToOwners`). `LeaseIsWhole` alone is
not inductive. `IInv` says that a client with a lease is the one its role names,
that whoever is named by the keys has joined, and the shape of both; `JInv` adds
that a lease, a role and a place belong to sockets that were set up by a running
instance, so an expiry or the farewell of a drained instance meets no connected
socket. LEAVE preserves it because it compares the role's client, not its owner;
JOIN because it deletes the lease of the client it takes the role from.

`MessagesAreHeardInOrder` is about the way of a message through three places: the
queue of its sender (`pending`), the `inbox` of each other instance, and what a
client has `heard`. The invariant orders them. Within each place the numbers of one
sender grow; what was heard is older than what is in the inbox of the hearer's
instance, and that is older than what the sender's queue still holds (`Ordered`). It
is preserved because routing takes the head of the queue and puts it at the end of the
inboxes, and because every other step leaves messages out and never swaps two
(`Thinned`). It needs that no instance has a message of its own client in its inbox
(`Placed`), for otherwise a message could be heard twice.

### HostLifecycle_proofs

The invariant has four parts besides the types. `Phased` says at which steps of the
runtime thread the host has a session, and to where the subroutines return. `Roomed`
says that the open room is that of the session until it is terminated, that the
signaling thread is then gone, and that a handler in progress holds an offer of its
own room. `Served` says that the `SessionManager`'s session and the game are those of the host's session,
and there are none of the marketplace without one. `Reported` says that an
acknowledged session is the host's. The crucial steps are `Authorize`, which may come
while the session is being ended (it is harmless because it can only authorize the
session of the room), and `Terminate`, which is safe because `stopWebsocket` has joined
the signaling thread by then. The theorems rest on the assumption that sessions of
the marketplace and of paired players are different and neither is called `none` or
`pair`: all of them are UUIDs.

### HostInput_proofs

Everything in this module is proved for any keys, buttons and queue lengths, and
`StopReleasesAll` for any map of keys to virtual keys, so also when several keys share
one. What is in the queues
does not matter for it. `HeldKeys` says that a key which Windows holds is DOWN in the
state machine or just being released by the handler; `HeldButtons` says of a button
that it is among the reported ones, just being released, or in the hands of a reset.
So the reset that a stop makes finds all of it, and `KeysEmptied` and `ButtonsEmptied`
say that it stays so: a press that a handler holds meanwhile is the only one that can
still come, and the reset has noted it as overtaken. `HandsGone` lets the stop end
only when both handlers have left, so nothing follows it. What is excused is what the
property names: a press that a reset overtook in a handler's hands, and a release that
was not let through to Windows for want of focus.

`QuietFollowsClient` compares what Windows holds with what the player holds when
nothing is on the way, so its invariant `QInv` must say, for each place on the way,
where the release of an input is that has been pressed there. `Chain` says it for one
input that no reset overtook and no release of which was dropped in the Go library
(`overtaken`, `abandoned`), in the order in which a message
travels:

- `GoFollowed`: in the queue of the Go library a press is followed by its release, or
  the player holds the input.
- `PipeFollowed`: in the transport queue a press is followed by its release or by a
  reset, or its release is still to come from the Go library.
- `PressedFollowed`: what the state manager has as Pressed and the player does not hold
  any more has a release or a reset on its way to it, if a press of it is with the
  handlers or Windows holds it.
- `ForwardPressed`, `HandlersFollowed`: what the state manager does not have as Pressed
  has its release behind it, in a handler's queue or hands, with a thread that is about
  to forward it, or in the mark that a full key queue leaves.
- `KeyReported`: the handler will not ignore that release, because the key is among the
  reported ones.

Two things come with it. `SessionOwn` says that the releases in the Go queue are of the
authorized session, since those of another would be refused at the transport queue.
`LeftBehind` says that a stop leaves the state manager empty and its thread at rest,
since the queues are filled again after the next start. An overflow behind the
Go library is the step that makes the invariant what it is: it throws away presses and
releases together and leaves a reset, or a single release, in their place, so a press
must be followed by either.

Where two keys share a virtual key the handler takes one for the other: a press or a
release of the one takes the other off the reported ones, so that the release of the
other is ignored. `QuietFollowsPlayer` is therefore
proved input by input, with no assumption on the constants: of every button, and of
every key whose virtual key no other key has. `QuietFollowsAll` is the property of the
run, for a table in which all are of this kind.

`InputTypeCorrect` adds the lengths of the five queues. An overflow of those before the
handlers leaves the reset and a release there, which is one more than a limit of one.

### PeerMedia_proofs

`NoDropForgotten` compares a sum, so its invariant is a balance (`Balance`): what the
present peer has been given is at most what its track shows, plus what the pending
count, the encoder thread, the queue and the sender hold of it. Each step moves a
duration between two of these. A frame of a former peer may still be in the queue, and
the sender throws it away without passing its duration on; the balance therefore
counts frames of the present generation only, and it must be shown that none of its
durations is carried by an older frame. That follows from the order of frames
(`InOrder`): a frame takes over the duration of older ones only. Durations in the
queue are counted as a set, of pairs of a position and a number (`DurationsOf`), which
makes a push, a take and an eviction additions and subtractions of disjoint sets.

`KeyframesSurvive` is an action property: a step of any thread but the sender, while
there is a peer, that takes a keyframe out of the queue or of the encoder thread's hands
leaves a later one there. The case to be proved is the failed push: a keyframe that the
eviction took out is put back, which cannot fail, since only the encoder thread pushes
and the eviction has left a place.

### PeerAudio_proofs

`BufferOfThePeer` rests on the order in `createPeerConnectionGo`: there is no peer
from before the buffer is cleared until the next one is installed, and without a peer
nothing is buffered. `BufferIsFlushed` rests on `pcMutex`, which is held from the test
of the state to the append; `DrainEnds` on whoever evicts a packet being the one who
pushes the next. `PayloadReturnedOnce` follows from `PlacedOnce`: the buffer, the
queue, the flush of each callback, the hands of each enqueuer, of the producer and of the
sender hold disjoint sets of packets, each once, and every step moves packets between
two of them or drops them.

### StreamProfiles_proofs

`AppliedIsCurrent` and `ActiveIsTrue` are about what is seen between the steps of the
encoding thread; the invariant says what it has in hand meanwhile. A profile taken is
the one last requested as long as it is shown as active (`TakenIsAsked`); the ceiling
is that of the profile in hand, then of the one that waits for an encoder
(`CeilingIsOwn`); the bitrate read for the opening is current unless a change has come
since that is pending or about to be announced (`OpeningIsCurrent`). `FramesFitEncoder`
is about a hazard of the reopening: the thread compares a frame's size with the one it
remembers and not with the encoder's, so it needs that an open encoder always has the
remembered size (`SizeIsLast`), also when a failed opening left that size behind.

### CapturePipeline_proofs

It proves, for any number of callback threads, sizes, queue
length and frames, that no callback is at work once the textures are released
(`ReleaseIsUndisturbed`), that frames are encoded in the order of their arrival
(`FramesAreEncodedInOrder`), that callbacks are serialised and the queue bounded.
The argument is an order of three things: the stop clears the flag before it waits
for the callback mutex, a callback tests the flag after it has taken the mutex, and
keeps the mutex until it leaves. For the order of frames, the invariant `Order`
says that the frames in the queue are sorted, later than the last one encoded, and
earlier than the one in a callback's hands.

`NoTextureLeaks` is a balance, and the textures are counted as a set: the free ones
are pairs of a size and a number (`Textures`), so that returning a texture adds a
pair (`TextureAdded`), taking one removes a pair (`TextureTaken`), and returning
several queued ones at once adds as many pairs (`TexturesReturned`, by a bijection).
`TextureIsAvailable` follows: a callback that looks for a texture is the only one at
work, so no texture is being copied into, and those that are queued and encoded are
fewer than the pool may hold, unless the oldest queued one can be had instead. It
needs a pool of more than one, which the clamp to 2..32 gives.

### CapturePipeline_proofs: the audio

Frames of the audio path are numbered as they are captured. `AudioOrder` says that
the numbers grow from what was sent to the packet in the sender's hands, the queue of
packets, the frame the encoder has, and the ring, each of which is ordered in itself;
`PacketsLeaveInOrder` follows, since overwriting the ring or the queue removes what is
oldest there and puts in what is newest. A start empties the ring but uses the queue
as it is: a packet that a stop left there is sent in the next capture
(`AudioViolated.cfg`), and the order holds across it because the numbers go on.
`NewestFrameSurvives` needs that the newest number is the last one on the way, or was
sent (`NewestThere`, with `NewestLast`): what is overwritten is never the newest, and
the sender empties the queue at its end only after the capture has stopped. A frame
that the encoder fails on is lost; the history `settled` notes it, and what was
captured before a start, and the property is about newer frames.

### What only TLC checks

- Liveness (`HostsReturn`, `RolesAreFreed`, `HostStops`, `EveryFrameTaken`, `EveryFrameLeaves`, `RequestAnswered`,
  `FoundAgain`): the prover has no rule for fairness.
- `NumberedInOrder` (`PeerAudio`) is false for some values of the constants: it holds
  as long as the clock's gaps and the packets in flight are small against `TimeWrap`,
  2^32 in the code.
- `QuietFollowsClient` (`HostInput`) is not proved of Enter and NumpadEnter, which share
  a virtual key (see the bounds): what Windows holds of the one after a release of the
  other is not in the model.

<a id="disagreements-with-the-documentation"></a>
## Disagreements with the documentation

Each configuration below finds a counterexample to the properties named; where it
names several, keep one at a time.

| Configuration | Property | What the code does |
|---|---|---|
| `MarketTwoHosts.cfg` | `OneHostPerSession` | overlapping failovers (a timer run that still awaits Redis when the next one starts, or a timer and an event) each claim a host for one session; "atomically leases one" (`README.md:47-48`) |
| `MarketRevived.cfg` | `EndingIsKept` | a host event that loaded the record before a cancellation saves its old copy over it |
| `MarketUnlocked.cfg` | `PlayerIsLocked` | a cancellation while the request that creates the session still looks for a host releases the player's key, and the request goes on and prepares the session; "Player already has a session" (`Matchmaker.js:716`) |
| `MarketStranded.cfg` | `LostHostFails` | grace periods are started by close events of this process only, so a host that vanishes with a restart is never noticed: the session becomes `ending` when its time is over and stays so for ever (`README.md:55-57`) |
| `PairingViolated.cfg` | `CodeUsedOnce` | a used code is offered again when the host hears no answer for longer than the mark lives, when a heartbeat is handled after a later one, or when the host is restarted within a minute; "keeps a consumed code unavailable until the host publishes a new code" (`Server/__tests__/pairing-rotation.test.js:58`) |
| `SignalingViolated.cfg` | `PeerIsTold` | "Redis cleanup and notify peers" (`ScalableSignalingServer.js:827`): the lease is deleted before `peer-disconnected` is published, so other instances drop the message, and the own instance drops it for its origin; nobody is told |
| | `OpenIsHeard` | a reconnect that closes during its set-up has taken lease and role from the open socket of its owner and gives them up (lines 508-521); the open socket is unheard on other instances |
| `PeerMediaViolated.cfg` | `OwnTrackOnly` | the sender compares generations, waits for the frame's pacing time, then reads the track, which may be the next peer's |
| | `TimelineInOrder` | a keyframe kept from eviction goes back to the tail of the queue, behind the delta frame that needs it |
| `PeerAudioViolated.cfg` | `StateIsOwn` | a callback of a peer that was replaced overwrites `connectionState` (`main.go:2006`); "late callbacks from a closed session are ignored" (`README.md:166-167`) |
| | `OwnAudioOnly` | audio packets carry no generation: one in the sender's hands is written to the next peer's track |
| | `StaleIsReplaced` | a flush of the connection buffer evicts newer packets from the queue; "replaces stale audio" (`README.md:120-121`) |
| `HostInputOverflow.cfg` | `OverflowReleases` | the reset that stands for an overflowed Go queue (`main.go:1449-1465`) carries no session and is refused (`InputTransportLayer.cpp:241`), and the releases in the queue are lost; "Overflow preserves safety releases" (`README.md:140-142`) |
| `HostInputClose.cfg` | `CloseReleases` | the reset that a closing channel sends (`README.md:511-513`) carries no session and is refused once the session is over |
| `AudioViolated.cfg` | `ConsentKept` | an invalidated client of a process loopback is opened again as a loopback of the whole device, without the consent of `README.md:354` |
| | `AudioStopReturns` | `m_stopEncoder` is set and announced without the mutex (`AudioCapturer.cpp:985`): the encoder thread between its test and its wait misses it and the join does not return |
| | `OldAudioStaysOut` | what `StopCapture` clears (lines 426-429) is not all: a packet in the hands of a thread is sent in the next capture |
| `CaptureStop.cfg` | `StopReturns` | the same missed wakeup in `StopCapture` (`CaptureHelpers.cpp:721`, `729`), against `README.md:124-125` |
| `ProfilesViolated.cfg` | `EncoderRetried` | after a reopening that failed, the remembered sizes say the encoder is open, and nothing opens it again (`CaptureHelpers.cpp:646`; `README.md:97`) |
| | `FreshIsKey` | the keyframe request is consumed (`Encoder.cpp:696`) before the codec is given the frame; if it refuses it (728-733), the first frame of a new encoder is encoded without the request; "refreshes IDR/header state" (`README.md:421`) |
| | `CeilingKept` | a report in progress stores a bitrate above the ceiling that was lowered meanwhile (`Encoder.cpp:817`, `1249`) |
| `LifecycleViolated.cfg` | `StopObeyed` | a stop that comes between `StartAsync` and the worker's clearing of the flags is lost (`Runtime.cpp:368`; `docs/SECURITY_ARCHITECTURE.md:32`) |
| | `SessionEndsWithHost` | an offer handled while the host stops leaves a session in the stopped host (`docs/SECURITY_ARCHITECTURE.md:33`) |
| | `InputRevoked` | an offer handled while its session is cleaned up authorizes the input after the revocation (`Runtime.cpp:563`, `Websocket.cpp:222-224`) |
| | `StreamingShown` | a target attached under a connected peer is shown as Ready (`Runtime.cpp:688`) |
| | `BusyIsShown` | a host with a session can be presented as idle |

Seen while modelling, without a configuration: `README.md:52-53` has a launch
timeout and a host disconnect clean the session *before the host returns to idle*,
while `FailOrRetry`, as the code, records the host idle in the step that sends it
the stop. A profile taken by the encoding thread is lost when the capture stops
(`CaptureHelpers.cpp:545`); a change of the bitrate that needs a new encoder is
retried at every frame (640); the 65th marketplace command is dropped
(`Runtime.cpp:476`); LUA_JOIN removes the client it replaces before it finds the
room full; the open socket of a replaced client goes on refreshing the role key of
another owner.

## What is not modelled

- In the marketplace: the catalog, read-only requests, authentication, rate
  limits, metrics, expiry of session records, and the lengths of time: a lease may
  lapse at any moment after its claim, a deadline be found due at any moment.
- In the signaling server: see the abstractions of `SignalingRoom`; several rooms,
  which share nothing but the breaker and the rate limits.
- In the host: target selection from the tray, configuration, the pacing schedule,
  sample arithmetic, D3D and FFmpeg calls, pointer coordinates.
- In Go: SDP and candidates, statistics, the start and stop of the media runtime as
  far as video. Its input queues are in `HostInput`.
- In pairing: hosts of a capacity other than 1, the cache of TURN credentials, what a
  token contains beside the room.
- The parts listed `not_modelled` in `PROJECT.json`, with their reasons. Vendored
  and generated code, scripts and user interface will stay out.

## Plan

1. Adaptive quality: reports, congestion and the thresholds of frame dropping.
2. The negotiation: offers and candidates between `Websocket.cpp` and `main.go`, with
   the candidates that wait for a remote description; the browser page.
3. The initialisation of an audio source with its chain of fallbacks
   (`AudioCapturer.cpp` 1309-2551), of which `AudioCapture` has the outcomes; the
   catalog's clean-up of memberships (`Matchmaker.js:680`); updates and secrets.
