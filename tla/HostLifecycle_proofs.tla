------------------------ MODULE HostLifecycle_proofs ------------------------
(***************************************************************************)
(* What a host keeps of a session, for any sessions, guests and numbers of *)
(* starts, commands and events: the session it runs is the one offers are  *)
(* held against, the SessionManager forgets it and its game ends with it,  *)
(* and its end is reported before it is given up.                          *)
(***************************************************************************)
EXTENDS HostLifecycle, SequenceTheorems, TLAPS

MainType ==
    main \in [pc: {"none", "start", "services", "tick", "select", "look", "clean", "flag",
                   "closePeer", "halt", "join", "launch", "terminate", "off"},
              then: {"none", "launch", "terminate", "off"}, back: {"none", "tick", "select", "off"},
              s: Sessions \cup {None}]
HostType ==
    host \in [state: HostStates, active: Sessions \cup {None},
              last: {"unknown", "new", "connecting", "connected", "lost"}, late: BOOLEAN]
TargetType == target \in [selected: BOOLEAN, attached: BOOLEAN, window: BOOLEAN, game: BOOLEAN]
Queued == [type: {"prepare", "stop"}, s: Sessions]
QueueType == commands \in Seq(Queued) /\ Len(commands) <= past.commands
SocketType ==
    socket \in [pc: {"none", "loop", "run", "asking", "replace", "authorize", "create", "mark",
                     "after", "reset", "done"},
                room: Ids \cup {"pair"}, id: Ids, flag: BOOLEAN, halted: BOOLEAN, linked: BOOLEAN]
SessionType == session \in [state: {"Idle", "Authorized", "Connected", "Reconnecting"}, id: Ids]
PeerType == peer \in [state: {"none", "new", "connecting", "connected", "lost"}, answered: BOOLEAN]
PastType == past \in [starts: 0..MaxStarts, commands: 0..MaxCommands, events: 0..MaxEvents,
                      told: [Sessions -> {"nothing", "acked", "over"}]]
\* The queue is bounded by the commands that were given.
Typed ==
    /\ MainType /\ HostType /\ TargetType /\ QueueType /\ SocketType /\ SessionType
    /\ input \in Ids /\ PeerType /\ stop \in BOOLEAN /\ PastType

\* The steps of stopWebsocket.
Leaving == {"flag", "closePeer", "halt", "join"}

\* Where the runtime thread is with a session and where without one.
Phased ==
    /\ main.pc \in {"none", "start", "services", "launch", "off"} => host.active = None
    /\ main.pc \in {"clean", "terminate"} => host.active # None
    /\ main.pc \in Leaving => main.then # "none" /\ (main.then = "terminate" <=> host.active # None)
    /\ main.pc \in Leaving \cup {"clean", "terminate"} /\ host.active # None => main.back # "none"
    /\ main.pc = "launch" \/ (main.pc \in Leaving /\ main.then = "launch") => main.s # None

\* The room that is open is that of the session until the session is terminated, and then
\* the signaling thread is gone; a handler authorizes only sessions of its room.
Roomed ==
    /\ host.active # None /\ main.pc # "terminate" => socket.room = host.active
    /\ host.active = None => socket.room \notin Sessions
    /\ main.pc = "terminate" => socket.pc = "none"
    /\ socket.pc = "none" => socket.room = None
    /\ socket.pc \in {"asking", "replace", "authorize"} =>
           socket.id \in IF socket.room = "pair" THEN Guests ELSE {socket.room}

\* The session offers are held against, and the launched game, are those of the host.
Served ==
    /\ host.active # None => session.id = host.active
    /\ host.active = None => session.id \notin Sessions
    /\ target.game <=> host.active # None

\* Only the session of the host is acknowledged and not over.
Reported == \A s \in Sessions : past.told[s] = "acked" => host.active = s

IInv == Typed /\ Phased /\ Roomed /\ Served /\ Reported

-----------------------------------------------------------------------------
LEMMA TypedIsTypeOK == Typed => TypeOK
<1> SUFFICES ASSUME Typed PROVE TypeOK
  OBVIOUS
<1>1. Len(commands) <= MaxCommands
  BY LifecycleAssumption DEF Typed, QueueType, PastType
<1> QED
  BY <1>1 DEF Typed, TypeOK, MainType, HostType, TargetType, QueueType, Queued, SocketType,
              SessionType, PeerType, PastType

LEMMA InitIInv == Init => IInv
<1> SUFFICES ASSUME Init PROVE IInv
  OBVIOUS
<1> USE LifecycleAssumption DEF Init, None, Ids
<1>1. Typed
  <2>1. MainType /\ HostType /\ TargetType
    BY DEF MainType, HostType, HostStates, TargetType, NoTarget
  <2>2. SocketType /\ SessionType /\ PeerType
    BY DEF SocketType, NoThread, SessionType, PeerType, NoPeer
  <2>3. PastType /\ QueueType
    BY DEF PastType, QueueType
  <2> QED
    BY <2>1, <2>2, <2>3 DEF Typed
<1>2. Phased /\ Roomed /\ Served /\ Reported
  BY DEF Phased, Leaving, Roomed, NoThread, Served, NoTarget, Reported
<1> QED
  BY <1>1, <1>2 DEF IInv

\* What others ask of the runtime, and what happens to the peer, the window and the time.
Outside ==
    \/ StartAsync \/ StopAsync \/ QueueTargetSelection
    \/ \E type \in {"prepare", "stop"}, s \in Sessions : HandleMarketplaceCommand(type, s)
    \/ PeerMoves \/ WindowCloses \/ TimePasses

\* The signaling thread.
Signaling ==
    \/ Handler \/ on_open \/ on_close \/ PeerDisconnected \/ Deny \/ Approve
    \/ \E id \in Guests \cup Sessions : Offer(id)

LEMMA NextIs == Next <=> Outside \/ Main \/ Signaling
  BY DEF Next, Outside, Signaling

LEMMA SignalingLeaves ==
    ASSUME PastType, Signaling
    PROVE  UNCHANGED <<main, host, target, commands, stop>> /\ past'.told = past.told
<1>1. CASE Handler
  BY <1>1 DEF Handler, SocketLoop, RunHalted, RunReturned, ResetClient, ReplaceSession, Authorize,
              CreatePeerConnection, MarkConnected, SocketOnly
<1>2. CASE on_open \/ Deny \/ Approve
  BY <1>2 DEF on_open, Deny, Approve, SocketOnly
<1>3. CASE on_close \/ PeerDisconnected \/ \E id \in Guests \cup Sessions : Offer(id)
  <2>1. /\ past' = [past EXCEPT !.events = @ + 1]
        /\ UNCHANGED <<main, host, target, commands, stop>>
    BY <1>3 DEF on_close, PeerDisconnected, Offer, SocketOnly
  <2> QED
    BY <2>1 DEF PastType
<1> QED
  BY <1>1, <1>2, <1>3 DEF Signaling

-----------------------------------------------------------------------------
\* The types, one variable at a time.

LEMMA MainKept == ASSUME MainType, QueueType, Next PROVE MainType'
<1> DEFINE Places == {"none", "start", "services", "tick", "select", "look", "clean", "flag",
                      "closePeer", "halt", "join", "launch", "terminate", "off"}
<1>1. ASSUME Main
      PROVE  \/ \E c \in Places : main' = [main EXCEPT !.pc = c]
             \/ Return
             \/ \E c \in {"terminate", "off"} : StopWebsocket(c)
             \/ \E b \in {"tick", "select", "off"} : CleanupSession(b)
             \/ main' = [main EXCEPT !.pc = "select", !.s = None]
             \/ Prepare
             \/ Terminate
  BY <1>1 DEF Main, Start, StartCoreServices, StartFails, FlagSocket, ClosePeer, HaltClient,
              JoinSocket, Stop, NoCommand, ObeyStop, RefusePrepare, Launch, LaunchFails,
              ApplyPendingTargetSelection, DeadlinePassed, AttachTarget, NoTargetYet, TargetGone,
              LookAtPeer, CleanSession, Off, Goto
<1>2. ASSUME NEW c \in Places, main' = [main EXCEPT !.pc = c] PROVE MainType'
  BY <1>2 DEF MainType
<1>3. CASE Return
  BY <1>3 DEF Return, MainType
<1>4. ASSUME NEW c \in {"terminate", "off"}, StopWebsocket(c) PROVE MainType'
  BY <1>4 DEF StopWebsocket, MainType
<1>5. ASSUME NEW b \in {"tick", "select", "off"}, CleanupSession(b) PROVE MainType'
  BY <1>5 DEF CleanupSession, MainType
<1>6. CASE main' = [main EXCEPT !.pc = "select", !.s = None]
  BY <1>6 DEF MainType
<1>7. CASE Prepare
  <2>1. commands # <<>> /\ commands \in Seq(Queued)
    BY <1>7 DEF Prepare, Take, QueueType
  <2>2. Head(commands) \in Queued
    BY <2>1
  <2>3. Head(commands).s \in Sessions
    BY <2>2 DEF Queued
  <2>4. PICK s \in Sessions :
            \/ main' = [main EXCEPT !.pc = "launch", !.then = "none", !.s = s]
            \/ main' = [main EXCEPT !.pc = "flag", !.then = "launch", !.s = s]
    BY <1>7, <2>3 DEF Prepare
  <2> QED
    BY <2>4 DEF MainType
<1>8. CASE Terminate
  <2>1. main' = [main EXCEPT !.pc = main.back, !.back = "none"]
    BY <1>8 DEF Terminate
  <2> QED
    BY <2>1 DEF MainType
<1>9. CASE Outside
  <2>1. main' = main \/ \E c \in Places : main' = [main EXCEPT !.pc = c]
    BY <1>9 DEF Outside, StartAsync, StopAsync, QueueTargetSelection, HandleMarketplaceCommand,
                PeerMoves, WindowCloses, TimePasses
  <2> QED
    BY <1>2, <2>1 DEF MainType
<1>10. CASE Signaling
  BY <1>10 DEF Signaling, Handler, SocketLoop, RunHalted, RunReturned, ResetClient, ReplaceSession,
               Authorize, CreatePeerConnection, MarkConnected, on_open, on_close, PeerDisconnected,
               Deny, Approve, Offer, SocketOnly, MainType
<1> QED
  BY <1>1, <1>2, <1>3, <1>4, <1>5, <1>6, <1>7, <1>8, <1>9, <1>10, NextIs

LEMMA HostKept == ASSUME HostType, MainType, PeerType, Next PROVE HostType'
<1> DEFINE Lasts == {"unknown", "new", "connecting", "connected", "lost"}
<1>1. ASSUME Main
      PROVE  \/ host' = host
             \/ \E st \in HostStates : host' = [host EXCEPT !.state = st]
             \/ \E st \in HostStates : host' = [host EXCEPT !.last = "unknown", !.state = st]
             \/ LookAtPeer
             \/ host' = [host EXCEPT !.active = main.s, !.late = FALSE, !.state = "Preparing"]
             \/ host' = [host EXCEPT !.state = "Idle", !.active = None, !.late = FALSE]
  <2> USE DEF HostStates
  <2>1. CASE Start \/ StartCoreServices \/ StartFails \/ Stop \/ AttachTarget \/ TargetGone
             \/ CleanSession \/ Off \/ ApplyPendingTargetSelection
    BY <2>1 DEF Start, StartCoreServices, StartFails, Stop, AttachTarget, TargetGone, CleanSession,
                Off, ApplyPendingTargetSelection
  <2>2. CASE FlagSocket \/ ClosePeer \/ HaltClient \/ JoinSocket \/ NoCommand \/ ObeyStop
             \/ RefusePrepare \/ Prepare \/ LaunchFails \/ DeadlinePassed \/ NoTargetYet
    BY <2>2 DEF FlagSocket, ClosePeer, HaltClient, JoinSocket, NoCommand, ObeyStop, RefusePrepare,
                Prepare, LaunchFails, DeadlinePassed, NoTargetYet
  <2>3. CASE Launch \/ Terminate
    BY <2>3 DEF Launch, Terminate
  <2> QED
    BY <1>1, <2>1, <2>2, <2>3 DEF Main
<1>2. CASE LookAtPeer
  <2>1. host' = [host EXCEPT !.state = Shown, !.last = PeerState]
    BY <1>2 DEF LookAtPeer
  <2>2. PeerState \in Lasts
    BY DEF PeerState, PeerType
  <2>3. Shown \in HostStates
    BY DEF Shown, HostType, HostStates
  <2> QED
    BY <2>1, <2>2, <2>3 DEF HostType
<1>3. ASSUME NEW st \in HostStates,
             \/ host' = [host EXCEPT !.state = st]
             \/ host' = [host EXCEPT !.last = "unknown", !.state = st]
      PROVE  HostType'
  BY <1>3 DEF HostType
<1>4. CASE \/ host' = [host EXCEPT !.active = main.s, !.late = FALSE, !.state = "Preparing"]
           \/ host' = [host EXCEPT !.state = "Idle", !.active = None, !.late = FALSE]
  BY <1>4 DEF HostType, MainType, HostStates
<1>5. CASE host' = host
  BY <1>5 DEF HostType
<1>6. CASE Outside
  <2>1. host' = host \/ host' = [host EXCEPT !.late = TRUE]
    BY <1>6 DEF Outside, StartAsync, StopAsync, QueueTargetSelection, HandleMarketplaceCommand,
                PeerMoves, WindowCloses, TimePasses
  <2> QED
    BY <2>1 DEF HostType
<1>7. CASE Signaling
  BY <1>5, <1>7 DEF Signaling, Handler, SocketLoop, RunHalted, RunReturned, ResetClient,
              ReplaceSession, Authorize, CreatePeerConnection, MarkConnected, on_open, on_close,
              PeerDisconnected, Deny, Approve, Offer, SocketOnly
<1> QED
  BY <1>1, <1>2, <1>3, <1>4, <1>5, <1>6, <1>7, NextIs

LEMMA TargetKept == ASSUME TargetType, Next PROVE TargetType'
<1>1. ASSUME Main
      PROVE  \/ target' = target
             \/ \E b \in BOOLEAN :
                   target' \in {[Detached EXCEPT !.game = b], [target EXCEPT !.game = b]}
             \/ target' \in {Detached, NoTarget, [Detached EXCEPT !.selected = FALSE]}
             \/ target' \in {[target EXCEPT !.selected = FALSE], [target EXCEPT !.attached = FALSE]}
             \/ target' = [target EXCEPT !.attached = TRUE, !.window = TRUE]
  <2>1. CASE Start \/ StartCoreServices \/ StartFails \/ Stop \/ AttachTarget \/ TargetGone
             \/ CleanSession \/ Off \/ ApplyPendingTargetSelection
    BY <2>1 DEF Start, StartCoreServices, StartFails, Stop, AttachTarget, TargetGone, CleanSession,
                Off, ApplyPendingTargetSelection
  <2>2. CASE FlagSocket \/ ClosePeer \/ HaltClient \/ JoinSocket \/ NoCommand \/ ObeyStop
             \/ RefusePrepare \/ Prepare \/ DeadlinePassed \/ NoTargetYet \/ LookAtPeer
    BY <2>2 DEF FlagSocket, ClosePeer, HaltClient, JoinSocket, NoCommand, ObeyStop, RefusePrepare,
                Prepare, DeadlinePassed, NoTargetYet, LookAtPeer
  <2>3. CASE Launch \/ Terminate \/ LaunchFails
    BY <2>3 DEF Launch, Terminate, LaunchFails
  <2> QED
    BY <1>1, <2>1, <2>2, <2>3 DEF Main
<1>2. ASSUME Outside
      PROVE  \/ target' = target
             \/ target' \in {[target EXCEPT !.selected = TRUE], [target EXCEPT !.window = FALSE]}
  BY <1>2 DEF Outside, StartAsync, StopAsync, QueueTargetSelection, HandleMarketplaceCommand,
              PeerMoves, WindowCloses, TimePasses
<1>3. ASSUME Signaling PROVE target' = target
  BY <1>3 DEF Signaling, Handler, SocketLoop, RunHalted, RunReturned, ResetClient, ReplaceSession,
              Authorize, CreatePeerConnection, MarkConnected, on_open, on_close, PeerDisconnected,
              Deny, Approve, Offer, SocketOnly
<1>4. ASSUME NEW b \in BOOLEAN,
             target' \in {[Detached EXCEPT !.game = b], [target EXCEPT !.game = b]}
      PROVE  TargetType'
  BY <1>4 DEF TargetType, Detached
<1>5. CASE target' \in {target, Detached, NoTarget, [Detached EXCEPT !.selected = FALSE]}
  <2>1. Detached \in [selected: BOOLEAN, attached: BOOLEAN, window: BOOLEAN, game: BOOLEAN]
    BY DEF TargetType, Detached
  <2>2. NoTarget \in [selected: BOOLEAN, attached: BOOLEAN, window: BOOLEAN, game: BOOLEAN]
    BY DEF NoTarget
  <2> QED
    BY <1>5, <2>1, <2>2 DEF TargetType
<1>6. CASE target' \in {[target EXCEPT !.selected = FALSE], [target EXCEPT !.selected = TRUE],
                       [target EXCEPT !.attached = FALSE], [target EXCEPT !.window = FALSE],
                       [target EXCEPT !.attached = TRUE, !.window = TRUE]}
  BY <1>6 DEF TargetType
<1> QED
  BY <1>1, <1>2, <1>3, <1>4, <1>5, <1>6, NextIs

LEMMA QueueKept == ASSUME QueueType, PastType, Next PROVE QueueType' /\ PastType'
<1>0. commands \in Seq(Queued) /\ Len(commands) \in Nat
  BY DEF QueueType
<1>1. ASSUME commands' \in {commands, <<>>} \/ (commands # <<>> /\ commands' = Tail(commands))
      PROVE  commands' \in Seq(Queued) /\ Len(commands') <= Len(commands)
  <2>1. CASE commands' = commands
    BY <1>0, <2>1
  <2>2. CASE commands' = <<>>
    BY <1>0, <2>2
  <2>3. CASE commands # <<>> /\ commands' = Tail(commands)
    <3>1. Tail(commands) \in Seq(Queued) /\ Len(Tail(commands)) = Len(commands) - 1
      BY <1>0, <2>3
    <3> QED
      BY <1>0, <2>3, <3>1
  <2> QED
    BY <1>1, <2>1, <2>2, <2>3
<1>2. ASSUME Main
      PROVE  /\ commands' \in {commands, <<>>} \/ (commands # <<>> /\ commands' = Tail(commands))
             /\ \/ past' = past
                \/ \E s, w : w \in {"acked", "over"} /\ past' = [past EXCEPT !.told[s] = w]
  <2>1. CASE Start \/ StartCoreServices \/ StartFails \/ Stop \/ AttachTarget \/ TargetGone
             \/ CleanSession \/ Off \/ ApplyPendingTargetSelection
    BY <2>1 DEF Start, StartCoreServices, StartFails, Stop, AttachTarget, TargetGone, CleanSession,
                Off, ApplyPendingTargetSelection
  <2>2. CASE FlagSocket \/ ClosePeer \/ HaltClient \/ JoinSocket \/ NoCommand \/ ObeyStop
             \/ RefusePrepare \/ Prepare \/ DeadlinePassed \/ NoTargetYet \/ LookAtPeer
    BY <2>2 DEF FlagSocket, ClosePeer, HaltClient, JoinSocket, NoCommand, ObeyStop, RefusePrepare,
                Prepare, DeadlinePassed, NoTargetYet, LookAtPeer, Take, Told
  <2>3. CASE Launch \/ Terminate \/ LaunchFails
    BY <2>3 DEF Launch, Terminate, LaunchFails, Told
  <2> QED
    BY <1>2, <2>1, <2>2, <2>3 DEF Main
<1>3. ASSUME NEW s, NEW w \in {"acked", "over"}, past' = [past EXCEPT !.told[s] = w]
      PROVE  PastType' /\ past'.commands = past.commands
  BY <1>3 DEF PastType
<1>4. ASSUME Outside,
             ~\E type \in {"prepare", "stop"}, s \in Sessions : HandleMarketplaceCommand(type, s)
      PROVE  /\ commands' = commands
             /\ \/ past' = past
                \/ past.starts < MaxStarts /\ past' = [past EXCEPT !.starts = @ + 1]
                \/ past.events < MaxEvents /\ past' = [past EXCEPT !.events = @ + 1]
  BY <1>4 DEF Outside, StartAsync, StopAsync, QueueTargetSelection, PeerMoves, WindowCloses,
              TimePasses
<1>5. ASSUME Signaling
      PROVE  /\ commands' = commands
             /\ past' = past \/ (past.events < MaxEvents /\ past' = [past EXCEPT !.events = @ + 1])
  BY <1>5 DEF Signaling, Handler, SocketLoop, RunHalted, RunReturned, ResetClient, ReplaceSession,
              Authorize, CreatePeerConnection, MarkConnected, on_open, on_close, PeerDisconnected,
              Deny, Approve, Offer, SocketOnly
<1>6. ASSUME \/ past' = past
             \/ past.starts < MaxStarts /\ past' = [past EXCEPT !.starts = @ + 1]
             \/ past.events < MaxEvents /\ past' = [past EXCEPT !.events = @ + 1]
      PROVE  PastType' /\ past'.commands = past.commands
  BY <1>6, LifecycleAssumption DEF PastType
<1>7. ASSUME NEW type \in {"prepare", "stop"}, NEW s \in Sessions, HandleMarketplaceCommand(type, s)
      PROVE  QueueType' /\ PastType'
  <2> DEFINE c == [type |-> type, s |-> s]
  <2>1. /\ commands' = Append(commands, c) /\ past.commands < MaxCommands
        /\ past' = [past EXCEPT !.commands = @ + 1]
    BY <1>7 DEF HandleMarketplaceCommand
  <2>2. PastType' /\ past'.commands = past.commands + 1 /\ past.commands \in Nat
    BY <2>1, LifecycleAssumption DEF PastType
  <2>3. c \in Queued
    BY DEF Queued
  <2> HIDE DEF c
  <2>4. commands' \in Seq(Queued) /\ Len(commands') = Len(commands) + 1
    BY <1>0, <2>1, <2>3
  <2> QED
    BY <1>0, <2>2, <2>4 DEF QueueType
<1>8. past.commands \in Nat
  BY DEF PastType
<1>9. ASSUME commands' \in Seq(Queued), Len(commands') <= Len(commands),
             past'.commands = past.commands
      PROVE  QueueType'
  BY <1>0, <1>8, <1>9 DEF QueueType
<1> QED
  BY <1>1, <1>2, <1>3, <1>4, <1>5, <1>6, <1>7, <1>9, NextIs

LEMMA SocketKept == ASSUME SocketType, MainType, SessionType, Next PROVE SocketType'
<1>1. ASSUME Main
      PROVE  \/ socket' \in {socket, NoThread, Thread("pair"), Thread(main.s)}
             \/ socket' \in {[socket EXCEPT !.flag = TRUE, !.linked = FALSE],
                             [socket EXCEPT !.halted = TRUE]}
  <2>1. CASE Start \/ StartCoreServices \/ StartFails \/ Stop \/ AttachTarget \/ TargetGone
             \/ CleanSession \/ Off \/ ApplyPendingTargetSelection
    BY <2>1 DEF Start, StartCoreServices, StartFails, Stop, AttachTarget, TargetGone, CleanSession,
                Off, ApplyPendingTargetSelection
  <2>2. CASE FlagSocket \/ ClosePeer \/ HaltClient \/ JoinSocket \/ NoCommand \/ ObeyStop
             \/ RefusePrepare \/ Prepare \/ DeadlinePassed \/ NoTargetYet \/ LookAtPeer
    BY <2>2 DEF FlagSocket, ClosePeer, HaltClient, JoinSocket, NoCommand, ObeyStop, RefusePrepare,
                Prepare, DeadlinePassed, NoTargetYet, LookAtPeer
  <2>3. CASE Launch \/ Terminate \/ LaunchFails
    BY <2>3 DEF Launch, Terminate, LaunchFails
  <2> QED
    BY <1>1, <2>1, <2>2, <2>3 DEF Main
<1>2. ASSUME Outside PROVE socket' = socket
  BY <1>2 DEF Outside, StartAsync, StopAsync, QueueTargetSelection, HandleMarketplaceCommand,
              PeerMoves, WindowCloses, TimePasses
<1>3. ASSUME Signaling
      PROVE  \/ socket' = socket
             \/ \E c \in {"loop", "run", "authorize", "replace", "create", "mark", "after", "reset",
                        "done"} :
                   socket' \in {[socket EXCEPT !.pc = c],
                                [socket EXCEPT !.halted = FALSE, !.pc = c],
                                [socket EXCEPT !.linked = FALSE, !.pc = c],
                                [socket EXCEPT !.id = None, !.pc = c]}
             \/ socket' = [socket EXCEPT !.linked = TRUE]
             \/ \E id \in Guests \cup Sessions, c \in {"authorize", "asking"} :
                   socket' = [socket EXCEPT !.id = id, !.pc = c]
  <2>1. CASE Handler
    BY <2>1 DEF Handler, SocketLoop, RunHalted, RunReturned, ResetClient, ReplaceSession, Authorize,
                CreatePeerConnection, MarkConnected, Step
  <2>2. CASE on_open \/ on_close \/ PeerDisconnected \/ Deny \/ Approve
    BY <2>2 DEF on_open, on_close, PeerDisconnected, Deny, Approve, Step
  <2>3. CASE \E id \in Guests \cup Sessions : Offer(id)
    BY <2>3 DEF Offer
  <2> QED
    BY <1>3, <2>1, <2>2, <2>3 DEF Signaling
<1>4. ASSUME socket' \in {socket, NoThread, Thread("pair"), Thread(main.s)} PROVE SocketType'
  <2>1. main.s \in Ids
    BY DEF MainType, Ids
  <2>2. ASSUME NEW r \in Ids \cup {"pair"}, socket' = Thread(r) PROVE SocketType'
    BY <2>2 DEF SocketType, Thread, NoThread, Ids
  <2>3. CASE socket' = NoThread
    BY <2>3 DEF SocketType, NoThread, Ids
  <2>4. CASE socket' = socket
    BY <2>4 DEF SocketType
  <2> QED
    BY <1>4, <2>1, <2>2, <2>3, <2>4
<1>5. ASSUME \/ socket' \in {[socket EXCEPT !.flag = TRUE, !.linked = FALSE],
                             [socket EXCEPT !.halted = TRUE], [socket EXCEPT !.linked = TRUE]}
      PROVE  SocketType'
  BY <1>5 DEF SocketType
<1>6. ASSUME NEW c \in {"loop", "run", "authorize", "replace", "create", "mark", "after", "reset",
                       "done"},
             socket' \in {[socket EXCEPT !.pc = c], [socket EXCEPT !.halted = FALSE, !.pc = c],
                          [socket EXCEPT !.linked = FALSE, !.pc = c],
                          [socket EXCEPT !.id = None, !.pc = c]}
      PROVE  SocketType'
  <2>1. CASE socket' = [socket EXCEPT !.pc = c]
    BY <2>1 DEF SocketType
  <2>2. CASE socket' = [socket EXCEPT !.halted = FALSE, !.pc = c]
    BY <2>2 DEF SocketType
  <2>3. CASE socket' = [socket EXCEPT !.linked = FALSE, !.pc = c]
    BY <2>3 DEF SocketType
  <2>4. CASE socket' = [socket EXCEPT !.id = None, !.pc = c]
    BY <2>4 DEF SocketType, Ids
  <2> QED
    BY <1>6, <2>1, <2>2, <2>3, <2>4
<1>7. ASSUME NEW id \in Guests \cup Sessions, NEW c \in {"authorize", "asking"},
             socket' = [socket EXCEPT !.id = id, !.pc = c]
      PROVE  SocketType'
  BY <1>7 DEF SocketType, Ids
<1> QED
  BY <1>1, <1>2, <1>3, <1>4, <1>5, <1>6, <1>7, NextIs

LEMMA SessionKept ==
    ASSUME SessionType, SocketType, MainType, PeerType, input \in Ids, stop \in BOOLEAN, Next
    PROVE  SessionType' /\ PeerType' /\ input' \in Ids /\ stop' \in BOOLEAN
<1> DEFINE States == {"Idle", "Authorized", "Connected", "Reconnecting"}
<1>1. ASSUME Main
      PROVE  /\ \/ session' = session
                \/ session' = [state |-> "Authorized", id |-> main.s]
                \/ session' = [state |-> "Idle", id |-> None]
             /\ peer' \in {peer, NoPeer, NewPeer} /\ input' \in {input, None}
             /\ stop' \in BOOLEAN
  <2>1. CASE Start \/ StartCoreServices \/ StartFails \/ Stop \/ AttachTarget \/ TargetGone
             \/ CleanSession \/ Off \/ ApplyPendingTargetSelection
    BY <2>1 DEF Start, StartCoreServices, StartFails, Stop, AttachTarget, TargetGone, CleanSession,
                Off, ApplyPendingTargetSelection
  <2>2. CASE FlagSocket \/ ClosePeer \/ HaltClient \/ JoinSocket \/ NoCommand \/ ObeyStop
             \/ RefusePrepare \/ Prepare \/ DeadlinePassed \/ NoTargetYet \/ LookAtPeer
    BY <2>2 DEF FlagSocket, ClosePeer, HaltClient, JoinSocket, NoCommand, ObeyStop, RefusePrepare,
                Prepare, DeadlinePassed, NoTargetYet, LookAtPeer
  <2>3. CASE Launch \/ Terminate \/ LaunchFails
    BY <2>3 DEF Launch, Terminate, LaunchFails
  <2> QED
    BY <1>1, <2>1, <2>2, <2>3 DEF Main
<1>2. ASSUME Outside
      PROVE  /\ session' = session /\ input' = input /\ stop' \in BOOLEAN
             /\ \/ peer' = peer
                \/ \E to \in {"connecting", "connected", "lost"} :
                      peer' = [peer EXCEPT !.state = to]
  BY <1>2 DEF Outside, StartAsync, StopAsync, QueueTargetSelection, HandleMarketplaceCommand,
              PeerMoves, WindowCloses, TimePasses
<1>3. ASSUME Signaling
      PROVE  /\ \/ session' = session
                \/ \E st \in States : session' = [session EXCEPT !.state = st]
                \/ session' = [state |-> "Authorized", id |-> socket.id]
             /\ peer' \in {peer, NoPeer, [NewPeer EXCEPT !.answered = socket.linked]}
             /\ input' \in {input, None, socket.id} /\ stop' = stop
  <2>1. CASE Handler
    BY <2>1 DEF Handler, SocketLoop, RunHalted, RunReturned, ResetClient, ReplaceSession, Authorize,
                CreatePeerConnection, MarkConnected, SocketOnly
  <2>2. CASE on_open \/ on_close \/ PeerDisconnected \/ Deny \/ Approve
    BY <2>2 DEF on_open, on_close, PeerDisconnected, Deny, Approve, SocketOnly, MarkReconnecting
  <2>3. CASE \E id \in Guests \cup Sessions : Offer(id)
    BY <2>3 DEF Offer, SocketOnly
  <2> QED
    BY <1>3, <2>1, <2>2, <2>3 DEF Signaling
<1>4. main.s \in Ids /\ socket.id \in Ids /\ None \in Ids /\ socket.linked \in BOOLEAN
  BY DEF MainType, SocketType, Ids
<1>5. SessionType'
  <2>1. CASE session' = session \/ \E st \in States : session' = [session EXCEPT !.state = st]
    BY <2>1 DEF SessionType
  <2>2. CASE \E id \in Ids, st \in States : session' = [state |-> st, id |-> id]
    BY <2>2 DEF SessionType
  <2> QED
    BY <1>1, <1>2, <1>3, <1>4, <2>1, <2>2, NextIs
<1>6. PeerType'
  <2>1. CASE \/ peer' = peer
             \/ \E to \in {"connecting", "connected", "lost"} : peer' = [peer EXCEPT !.state = to]
    BY <2>1 DEF PeerType
  <2>2. CASE peer' \in {NoPeer, NewPeer}
    <3>1. NoPeer \in [state: {"none", "new", "connecting", "connected", "lost"}, answered: BOOLEAN]
      BY DEF NoPeer
    <3>2. NewPeer \in [state: {"none", "new", "connecting", "connected", "lost"}, answered: BOOLEAN]
      BY DEF NewPeer
    <3> QED
      BY <2>2, <3>1, <3>2 DEF PeerType
  <2>3. CASE peer' = [NewPeer EXCEPT !.answered = socket.linked]
    BY <1>4, <2>3 DEF PeerType, NewPeer
  <2> QED
    BY <1>1, <1>2, <1>3, <2>1, <2>2, <2>3, NextIs
<1>7. input' \in Ids /\ stop' \in BOOLEAN
  BY <1>1, <1>2, <1>3, <1>4, NextIs
<1> QED
  BY <1>5, <1>6, <1>7

LEMMA TypesKept == ASSUME Typed, [Next]_vars PROVE Typed'
<1>1. CASE Next
  BY <1>1, MainKept, HostKept, TargetKept, QueueKept, SocketKept, SessionKept DEF Typed
<1>2. CASE UNCHANGED vars
  BY <1>2 DEF vars, Typed, MainType, HostType, TargetType, QueueType, SocketType, SessionType,
              PeerType, PastType
<1> QED
  BY <1>1, <1>2

-----------------------------------------------------------------------------
\* Where a step takes the runtime thread, and the signaling thread.

LEMMA MainMoves ==
    ASSUME MainType
    PROVE  /\ \A c : main' = [main EXCEPT !.pc = c] => main'.pc = c
           /\ \A c : StopWebsocket(c) => main'.pc = c \/ (main'.pc = "flag" /\ main'.then = c)
           /\ \A b : CleanupSession(b) => main'.pc = "clean" /\ main'.back = b
  BY DEF MainType, StopWebsocket, CleanupSession

LEMMA PrepareMoves ==
    ASSUME MainType, QueueType, Prepare
    PROVE  /\ main'.s \in Sessions
           /\ main'.pc = "launch" \/ (main'.pc = "flag" /\ main'.then = "launch")
<1>1. commands # <<>> /\ commands \in Seq(Queued)
  BY DEF Prepare, Take, QueueType
<1>2. Head(commands) \in Queued
  BY <1>1
<1>3. Head(commands).s \in Sessions
  BY <1>2 DEF Queued
<1>4. PICK s \in Sessions :
          \/ main' = [main EXCEPT !.pc = "launch", !.then = "none", !.s = s]
          \/ main' = [main EXCEPT !.pc = "flag", !.then = "launch", !.s = s]
  BY <1>3 DEF Prepare
<1> QED
  BY <1>4 DEF MainType

LEMMA TargetKeepsGame ==
    ASSUME TargetType, NEW t \in {[Detached EXCEPT !.selected = FALSE], Detached}
    PROVE  t.game = target.game
  BY DEF TargetType, Detached

LEMMA AttachKeeps ==
    ASSUME TargetType, HostType, AttachTarget
    PROVE  target'.game = target.game /\ host'.active = host.active
  BY DEF TargetType, HostType, AttachTarget

LEMMA SocketMoves ==
    ASSUME SocketType, NEW c,
           \/ socket' = [socket EXCEPT !.pc = c]
           \/ socket' = [socket EXCEPT !.halted = FALSE, !.pc = c]
           \/ socket' = [socket EXCEPT !.linked = FALSE, !.pc = c]
           \/ socket' = [socket EXCEPT !.id = None, !.pc = c]
    PROVE  socket'.pc = c /\ socket'.room = socket.room
  BY DEF SocketType

-----------------------------------------------------------------------------
\* What the steps do to the rest of the invariant.
Parts == Phased /\ Roomed /\ Served /\ Reported

LEMMA OutsideSteps == ASSUME Typed, Parts, Outside PROVE Parts'
<1> USE LifecycleAssumption
    DEF Typed, MainType, HostType, TargetType, SocketType, SessionType, PastType,
        Ids, None, Parts, Phased, Leaving, Roomed, Served, Reported
<1>1. CASE StartAsync
  BY <1>1 DEF StartAsync
<1>2. CASE StopAsync
  BY <1>2 DEF StopAsync
<1>3. CASE QueueTargetSelection
  BY <1>3 DEF QueueTargetSelection
<1>4. CASE PeerMoves
  BY <1>4 DEF PeerMoves
<1>5. CASE WindowCloses
  BY <1>5 DEF WindowCloses
<1>6. CASE TimePasses
  BY <1>6 DEF TimePasses
<1>7. CASE \E type \in {"prepare", "stop"}, s \in Sessions : HandleMarketplaceCommand(type, s)
  BY <1>7 DEF HandleMarketplaceCommand
<1> QED
  BY <1>1, <1>2, <1>3, <1>4, <1>5, <1>6, <1>7 DEF Outside

LEMMA MainSteps == ASSUME Typed, Parts, Main PROVE Parts'
<1> USE LifecycleAssumption
    DEF Typed, MainType, HostType, TargetType, SocketType, SessionType, PastType,
        Ids, None, Parts, Phased, Leaving, Roomed, Served, Reported
<1>1. CASE Start
  BY <1>1 DEF Start, Goto
<1>2. CASE StartCoreServices
  BY <1>2 DEF StartCoreServices, Goto, Thread, NoThread
<1>3. CASE StartFails
  BY <1>3 DEF StartFails, Goto
<1>4. CASE FlagSocket
  BY <1>4 DEF FlagSocket, Goto
<1>5. CASE ClosePeer
  BY <1>5 DEF ClosePeer, Goto
<1>6. CASE HaltClient
  BY <1>6 DEF HaltClient, Goto
<1>7. CASE JoinSocket
  BY <1>7 DEF JoinSocket, Return, NoThread
<1>8. CASE NoCommand
  BY <1>8 DEF NoCommand, Goto
<1>9. CASE RefusePrepare
  BY <1>9 DEF RefusePrepare, Take, Goto, Told
<1>10. CASE Launch
  BY <1>10 DEF Launch, Thread, NoThread, Detached, Told
<1>11. CASE LaunchFails
  BY <1>11 DEF LaunchFails, Detached, Told
<1>12. CASE DeadlinePassed
  BY <1>12 DEF DeadlinePassed, CleanupSession
<1>13. CASE NoTargetYet
  BY <1>13 DEF NoTargetYet, Looks, Goto
<1>14. CASE LookAtPeer
  BY <1>14 DEF LookAtPeer, Looks, Goto
<1>15. CASE CleanSession
  BY <1>15 DEF CleanSession, Detached, StopWebsocket
<1>16. CASE Terminate
  BY <1>16 DEF Terminate, Told
<1>17. CASE Off
  BY <1>17 DEF Off, NoTarget, Goto
<1>18. CASE Stop
  <2>1. /\ main.pc = "tick" /\ host'.active = host.active /\ target'.game = target.game
        /\ UNCHANGED <<socket, session, past>>
    BY <1>18 DEF Stop
  <2>2. CASE host.active = None
    <3>1. main'.pc = "off" \/ (main'.pc = "flag" /\ main'.then = "off")
      BY <1>18, <2>2, MainMoves DEF Stop
    <3> QED
      BY <2>1, <2>2, <3>1
  <2>3. CASE host.active # None
    <3>1. main'.pc = "clean" /\ main'.back = "off"
      BY <1>18, <2>3, MainMoves DEF Stop
    <3> QED
      BY <2>1, <2>3, <3>1
  <2> QED
    BY <2>2, <2>3
<1>19. CASE ObeyStop
  <2>1. /\ main.pc = "tick" /\ UNCHANGED <<host, socket, session, target, past>>
        /\ \/ main'.pc = "select"
           \/ /\ Head(commands).s = host.active
              /\ main'.pc = "clean" /\ main'.back = "select"
    BY <1>19, MainMoves DEF ObeyStop, Take, Goto
  <2>2. commands # <<>> /\ Head(commands).s \in Sessions
    <3>1. commands # <<>> /\ commands \in Seq(Queued)
      BY <1>19 DEF ObeyStop, Take, QueueType
    <3>2. Head(commands) \in Queued
      BY <3>1
    <3> QED
      BY <3>1, <3>2 DEF Queued
  <2> QED
    BY <2>1, <2>2
<1>20. CASE Prepare
  <2>1. /\ host.active = None /\ main.pc = "tick"
        /\ UNCHANGED <<host, socket, session, target, past>>
    BY <1>20 DEF Prepare, Take
  <2>2. /\ main'.s \in Sessions
        /\ main'.pc = "launch" \/ (main'.pc = "flag" /\ main'.then = "launch")
    BY <1>20, PrepareMoves
  <2> QED
    BY <2>1, <2>2
<1>21. CASE ApplyPendingTargetSelection
  <2>1. /\ main.pc = "select" /\ main' = [main EXCEPT !.pc = "look"]
        /\ UNCHANGED <<socket, session, past>>
        /\ \/ UNCHANGED <<target, host>>
           \/ /\ target' = [Detached EXCEPT !.selected = FALSE]
              /\ host' = [host EXCEPT !.state = "WaitingForTarget"]
    BY <1>21 DEF ApplyPendingTargetSelection, Goto
  <2>2. target'.game = target.game
    BY <2>1, TargetKeepsGame
  <2>3. host'.active = host.active
    BY <2>1
  <2> QED
    BY <2>1, <2>2, <2>3
<1>22. CASE AttachTarget
  <2>1. /\ main.pc = "look" /\ main' = [main EXCEPT !.pc = "tick"]
        /\ UNCHANGED <<socket, session, past>>
    BY <1>22 DEF AttachTarget, Looks, Goto
  <2>2. target'.game = target.game /\ host'.active = host.active
    BY <1>22, AttachKeeps
  <2> QED
    BY <2>1, <2>2
<1>23. CASE TargetGone
  <2>1. /\ main.pc = "look" /\ target'.game = target.game /\ host'.active = host.active
        /\ UNCHANGED <<socket, session, past>>
    BY <1>23 DEF TargetGone, Looks, Detached
  <2>2. main'.pc = "tick" \/ (host.active # None /\ main'.pc = "clean" /\ main'.back = "tick")
    BY <1>23 DEF TargetGone, CleanupSession, Goto
  <2> QED
    BY <2>1, <2>2
<1> QED
  BY <1>1, <1>2, <1>3, <1>4, <1>5, <1>6, <1>7, <1>8, <1>9, <1>10, <1>11, <1>12, <1>13, <1>14,
     <1>15, <1>16, <1>17, <1>18, <1>19, <1>20, <1>21, <1>22, <1>23
  DEF Main

LEMMA SignalingSteps == ASSUME Typed, Parts, Signaling PROVE Parts'
<1> USE LifecycleAssumption
    DEF Typed, MainType, HostType, TargetType, SocketType, SessionType, PastType,
        Ids, None, Parts, Phased, Leaving, Roomed, Served, Reported
<1>0. UNCHANGED <<main, host, target>> /\ past'.told = past.told
  BY SignalingLeaves
<1>1. ASSUME socket.pc # "none", socket'.pc \notin {"none", "asking", "replace", "authorize"},
             socket'.room = socket.room, session'.id = session.id
      PROVE  Parts'
  BY <1>0, <1>1
<1>2. CASE ReplaceSession
  BY <1>0, <1>2 DEF ReplaceSession, Step
<1>3. CASE Authorize
  BY <1>0, <1>3 DEF Authorize, Step
<1>4. CASE SocketLoop \/ RunHalted \/ RunReturned \/ ResetClient
  <2>1. socket.pc # "none" /\ session' = session
    BY <1>4 DEF SocketLoop, RunHalted, RunReturned, ResetClient
  <2>2. PICK c \in {"loop", "done", "run", "after", "reset"} :
            \/ socket' = [socket EXCEPT !.pc = c]
            \/ socket' = [socket EXCEPT !.halted = FALSE, !.pc = c]
    BY <1>4 DEF SocketLoop, RunHalted, RunReturned, ResetClient, Step
  <2>3. socket'.pc = c /\ socket'.room = socket.room
    BY <2>2, SocketMoves
  <2> QED
    BY <1>1, <2>1, <2>3
<1>5. CASE CreatePeerConnection \/ MarkConnected
  <2>1. /\ socket.pc # "none" /\ session'.id = session.id
        /\ \/ socket' = [socket EXCEPT !.pc = "mark"]
           \/ socket' = [socket EXCEPT !.id = None, !.pc = "run"]
    BY <1>5 DEF CreatePeerConnection, MarkConnected, Step
  <2>2. socket'.pc \in {"mark", "run"} /\ socket'.room = socket.room
    BY <2>1, SocketMoves
  <2> QED
    BY <1>1, <2>1, <2>2
<1>6. CASE on_open \/ on_close \/ PeerDisconnected \/ Deny
  <2>1. /\ socket.pc # "none" /\ session'.id = session.id
        /\ \/ socket.pc = "run" /\ socket' = socket
           \/ socket.pc = "run" /\ socket' = [socket EXCEPT !.linked = TRUE]
           \/ socket' = [socket EXCEPT !.linked = FALSE, !.pc = "after"]
           \/ socket' = [socket EXCEPT !.id = None, !.pc = "run"]
    BY <1>6 DEF on_open, on_close, PeerDisconnected, Deny, Handles, MarkReconnecting
  <2>2. CASE socket.pc = "run" /\ (socket' = socket \/ socket' = [socket EXCEPT !.linked = TRUE])
    <3>1. socket'.pc = "run" /\ socket'.room = socket.room
      BY <2>2
    <3> QED
      BY <1>1, <2>1, <3>1
  <2>3. CASE \/ socket' = [socket EXCEPT !.linked = FALSE, !.pc = "after"]
             \/ socket' = [socket EXCEPT !.id = None, !.pc = "run"]
    <3>1. socket'.pc \in {"after", "run"} /\ socket'.room = socket.room
      BY <2>3, SocketMoves
    <3> QED
      BY <1>1, <2>1, <3>1
  <2> QED
    BY <2>1, <2>2, <2>3
<1>7. CASE Approve
  BY <1>0, <1>7 DEF Approve, Step
<1>8. ASSUME NEW id \in Guests \cup Sessions, Offer(id) PROVE Parts'
  <2>1. /\ socket.pc = "run" /\ session' = session
        /\ id \in IF socket.room = "pair" THEN Guests ELSE {socket.room}
        /\ \E c \in {"authorize", "asking"} : socket' = [socket EXCEPT !.id = id, !.pc = c]
    BY <1>8 DEF Offer, Handles
  <2> QED
    BY <1>0, <2>1
<1> QED
  BY <1>1, <1>2, <1>3, <1>4, <1>5, <1>6, <1>7, <1>8 DEF Signaling, Handler

LEMMA Invariance == Spec => []IInv
<1>1. IInv /\ [Next]_vars => IInv'
  <2> SUFFICES ASSUME IInv, [Next]_vars PROVE IInv'
    OBVIOUS
  <2>1. Typed'
    BY TypesKept DEF IInv
  <2>2. CASE Next
    <3>1. Parts'
      BY <2>2, NextIs, OutsideSteps, MainSteps, SignalingSteps DEF IInv, Parts
    <3> QED
      BY <2>1, <3>1 DEF IInv, Parts
  <2>3. CASE UNCHANGED vars
    BY <2>1, <2>3 DEF vars, IInv, Phased, Roomed, Served, Reported
  <2> QED
    BY <2>2, <2>3
<1> QED
  BY InitIInv, <1>1, PTL DEF Spec

-----------------------------------------------------------------------------
(* The variables stay within their types, and the queue of commands within its bound. *)
THEOREM LifecycleTypeCorrect == Spec => []TypeOK
<1>1. IInv => TypeOK
  BY TypedIsTypeOK DEF IInv
<1> QED
  BY <1>1, Invariance, PTL

(* The session that runs is the one offers are held against, and its room the one that is
   open: a handler of the room that was left has ended before the next session is
   authorized (ApplyMarketplaceCommand, stopWebsocket, handleOffer). *)
THEOREM ActiveSessionIsServed == Spec => []ActiveIsServed
<1>1. IInv => ActiveIsServed
  BY DEF IInv, Roomed, Served, ActiveIsServed
<1> QED
  BY <1>1, Invariance, PTL

(* Once a session is over, offers are not held against it any more and its game does not
   run, whatever handler was authorizing it as its room was left: that handler has ended
   before the session is terminated (CleanupSession, stopWebsocket).  It says nothing of
   the input authorization and the peer connection that the handler may have set. *)
THEOREM CleanupForgets == Spec => []CleanupForgetsSession
<1>1. IInv => CleanupForgetsSession
  BY DEF IInv, Served, CleanupForgetsSession
<1> QED
  BY <1>1, Invariance, PTL

(* A session that was acknowledged to the marketplace stays with the host, and the host
   with its runtime thread, until its end was reported (CleanupSession, Stop). *)
THEOREM NoSessionIsForgotten == Spec => []NoSessionForgotten
<1>1. IInv => NoSessionForgotten
  <2> SUFFICES ASSUME IInv, NEW s \in Sessions, past.told[s] = "acked"
               PROVE  host.active = s /\ main.pc # "none"
    BY DEF NoSessionForgotten
  <2>1. host.active = s
    BY DEF IInv, Reported
  <2>2. s # None
    BY LifecycleAssumption DEF None
  <2> QED
    BY <2>1, <2>2 DEF IInv, Phased
<1> QED
  BY <1>1, Invariance, PTL

=============================================================================
