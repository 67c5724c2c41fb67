---------------------------- MODULE HostLifecycle ----------------------------
(***************************************************************************)
(* One host process from its start to its stop (src/Host/Runtime.cpp,      *)
(* HostController.cpp, SessionManager.cpp, Websocket.cpp).  The runtime    *)
(* thread starts the services, obeys the marketplace, attaches the game's  *)
(* window, cleans sessions up and stops; the signaling thread connects to  *)
(* the room it was given and handles offers; the UI thread starts and      *)
(* stops the host; the peer connection belongs to Go and to the client.    *)
(*                                                                         *)
(* No lock is held across two objects: a handler of the signaling thread   *)
(* and stopWebsocket on the runtime thread change the session, the input   *)
(* authorization and the peer connection one after the other, and each of  *)
(* those changes is a step.                                                *)
(***************************************************************************)
EXTENDS Naturals, Sequences

CONSTANTS
    Sessions,      \* sessions of the marketplace
    Guests,        \* sessions of players that were paired with the host
    MaxStarts,     \* bound on starts of the host
    MaxCommands,   \* bound on commands of the marketplace, also of its queue
    MaxEvents      \* bound on offers, on losses of the signaling connection, departures
                   \* of the player and selections of a target, together

ASSUME LifecycleAssumption ==
    /\ {MaxStarts, MaxCommands, MaxEvents} \subseteq Nat
    /\ Sessions \cap Guests = {} /\ {"none", "pair"} \cap (Sessions \cup Guests) = {}

VARIABLES
    main,      \* [pc, then, back, s]: the runtime thread; then: after stopWebsocket, back:
               \* after CleanupSession, s: the session to prepare
    host,      \* [state, active, last, late]: state_, activeSessionId_, lastPeerState_, and
               \* whether a deadline has passed
    target,    \* [selected, attached, window, game]: pendingTarget_, captureStarted_,
               \* whether the window exists, whether a launched game runs
    commands,  \* pendingMarketplaceCommands_
    socket,    \* [pc, room, id, flag, halted, linked]: the signaling thread;
               \* flag: g_websocketStopRequested
    session,   \* [state, id]: the SessionManager
    input,     \* the session whose input is accepted
    peer,      \* [state, answered]: the peer connection
    stop,      \* stopRequested_ and the flag of the ShutdownManager
    past       \* [starts, commands, events, told]: bounds, and what was said of each
               \* session to the marketplace

vars == <<main, host, target, commands, socket, session, input, peer, stop, past>>

None == "none"
Ids == Sessions \cup Guests \cup {None}
HostStates == {"Stopped", "Initializing", "Idle", "Preparing", "WaitingForTarget", "Ready",
               "Streaming", "Reconnecting", "Cleaning", "Stopping", "Failed"}

NoThread == [pc |-> "none", room |-> None, id |-> None, flag |-> FALSE, halted |-> FALSE,
             linked |-> FALSE]
NoPeer == [state |-> "none", answered |-> FALSE]
NewPeer == [state |-> "new", answered |-> FALSE]
NoTarget == [selected |-> FALSE, attached |-> FALSE, window |-> FALSE, game |-> FALSE]

TypeOK ==
    /\ main \in [pc: {"none", "start", "services", "tick", "select", "look", "clean", "flag", "closePeer",
                      "halt", "join", "launch", "terminate", "off"},
                 then: {"none", "launch", "terminate", "off"}, back: {"none", "tick", "select", "off"},
                 s: Sessions \cup {None}]
    /\ host \in [state: HostStates, active: Sessions \cup {None},
                 last: {"unknown", "new", "connecting", "connected", "lost"},
                 late: BOOLEAN]
    /\ target \in [selected: BOOLEAN, attached: BOOLEAN, window: BOOLEAN, game: BOOLEAN]
    /\ commands \in Seq([type: {"prepare", "stop"}, s: Sessions]) /\ Len(commands) <= MaxCommands
    /\ socket \in [pc: {"none", "loop", "run", "asking", "replace", "authorize", "create", "mark",
                        "after", "reset", "done"},
                   room: Ids \cup {"pair"}, id: Ids, flag: BOOLEAN, halted: BOOLEAN, linked: BOOLEAN]
    /\ session \in [state: {"Idle", "Authorized", "Connected", "Reconnecting"}, id: Ids]
    /\ input \in Ids
    /\ peer \in [state: {"none", "new", "connecting", "connected", "lost"}, answered: BOOLEAN]
    /\ stop \in BOOLEAN
    /\ past \in [starts: 0..MaxStarts, commands: 0..MaxCommands, events: 0..MaxEvents,
                 told: [Sessions -> {"nothing", "acked", "over"}]]

Init ==
    /\ main = [pc |-> "none", then |-> "none", back |-> "none", s |-> None]
    /\ host = [state |-> "Stopped", active |-> None, last |-> "unknown", late |-> FALSE]
    /\ target = NoTarget
    /\ commands = <<>>
    /\ socket = NoThread
    /\ session = [state |-> "Idle", id |-> None]
    /\ input = None
    /\ peer = NoPeer
    /\ stop = FALSE
    /\ past = [starts |-> 0, commands |-> 0, events |-> 0,
               told |-> [s \in Sessions |-> "nothing"]]

----------------------------------------------------------------------------
(* The UI thread and what others ask of the runtime. *)

\* HostController::StartAsync: the last worker has ended and is joined.
StartAsync ==
    /\ main.pc = "none" /\ past.starts < MaxStarts
    /\ main' = [main EXCEPT !.pc = "start"]
    /\ past' = [past EXCEPT !.starts = @ + 1]
    /\ UNCHANGED <<host, target, commands, socket, session, input, peer, stop>>

\* HostController::StopAsync, RequestStop.
StopAsync ==
    /\ main.pc # "none" /\ ~stop
    /\ stop' = TRUE
    /\ UNCHANGED <<main, host, target, commands, socket, session, input, peer, past>>

QueueTargetSelection ==
    /\ main.pc # "none" /\ past.events < MaxEvents
    /\ target' = [target EXCEPT !.selected = TRUE]
    /\ past' = [past EXCEPT !.events = @ + 1]
    /\ UNCHANGED <<main, host, commands, socket, session, input, peer, stop>>

\* While the control connection is open, from the services' start to their stop.
HandleMarketplaceCommand(type, s) ==
    /\ main.pc \notin {"none", "start", "services"}
    /\ past.commands < MaxCommands
    /\ commands' = Append(commands, [type |-> type, s |-> s])
    /\ past' = [past EXCEPT !.commands = @ + 1]
    /\ UNCHANGED <<main, host, target, socket, session, input, peer, stop>>

----------------------------------------------------------------------------
(* The runtime thread. *)

Goto(pc) == main' = [main EXCEPT !.pc = pc]
Return == main' = [main EXCEPT !.pc = main.then, !.then = "none"]

Start ==
    /\ main.pc = "start"
    /\ stop' = FALSE
    /\ host' = [host EXCEPT !.state = "Initializing"]
    /\ Goto("services")
    /\ UNCHANGED <<target, commands, socket, session, input, peer, past>>

\* The thread of initWebsocket.
Thread(room) == [NoThread EXCEPT !.pc = "loop", !.room = room]

StartCoreServices ==
    /\ main.pc = "services"
    /\ peer' = NewPeer
    /\ socket' = Thread("pair")
    /\ host' = [host EXCEPT !.state = "Idle"]
    /\ Goto("tick")
    /\ UNCHANGED <<target, commands, session, input, stop, past>>

\* The configuration, the media or the registration fails and Stop undoes the rest;
\* with another host running there is nothing to undo.
StartFails ==
    /\ main.pc = "services"
    /\ host' = [host EXCEPT !.state = "Failed", !.last = "unknown"]
    /\ \/ stop' = TRUE /\ target' = [target EXCEPT !.selected = FALSE]
       \/ UNCHANGED <<stop, target>>
    /\ Goto("none")
    /\ UNCHANGED <<commands, socket, session, input, peer, past>>

----------------------------------------------------------------------------
(* stopWebsocket, and then what its caller does next. *)

StopWebsocket(then) ==
    main' = [main EXCEPT !.pc = IF socket.pc = "none" THEN then ELSE "flag",
                         !.then = IF socket.pc = "none" THEN @ ELSE then]

FlagSocket ==
    /\ main.pc = "flag"
    /\ socket' = [socket EXCEPT !.flag = TRUE, !.linked = FALSE]
    /\ Goto("closePeer")
    /\ UNCHANGED <<host, target, commands, session, input, peer, stop, past>>

ClosePeer ==
    /\ main.pc = "closePeer"
    /\ peer' = NoPeer
    /\ Goto("halt")
    /\ UNCHANGED <<host, target, commands, socket, session, input, stop, past>>

HaltClient ==
    /\ main.pc = "halt"
    /\ socket' = [socket EXCEPT !.halted = TRUE]
    /\ Goto("join")
    /\ UNCHANGED <<host, target, commands, session, input, peer, stop, past>>

\* The thread is detached instead.
JoinSocketNever ==
    /\ main.pc = "join"
    /\ Return
    /\ UNCHANGED <<host, target, commands, socket, session, input, peer, stop, past>>

JoinSocket ==
    /\ main.pc = "join" /\ socket.pc = "done"
    /\ socket' = NoThread
    /\ Return
    /\ UNCHANGED <<host, target, commands, session, input, peer, stop, past>>

----------------------------------------------------------------------------
(* The main loop, Run and Tick. *)

CleanupSession(back) == main' = [main EXCEPT !.pc = "clean", !.back = back]
Told(s, what) == past' = [past EXCEPT !.told[s] = what]

StopUncleaned ==
    /\ main.pc = "tick" /\ stop
    /\ host' = [host EXCEPT !.state = "Stopping"]
    /\ StopWebsocket("off") /\ target' = [target EXCEPT !.attached = FALSE]
    /\ UNCHANGED <<commands, socket, session, input, peer, stop, past>>

Stop ==
    /\ main.pc = "tick" /\ stop
    /\ host' = [host EXCEPT !.state = "Stopping"]
    /\ IF host.active = None
       THEN /\ StopWebsocket("off") /\ target' = [target EXCEPT !.attached = FALSE]
       ELSE CleanupSession("off") /\ UNCHANGED target
    /\ UNCHANGED <<commands, socket, session, input, peer, stop, past>>

NoCommand ==
    /\ main.pc = "tick" /\ ~stop /\ commands = <<>>
    /\ Goto("select")
    /\ UNCHANGED <<host, target, commands, socket, session, input, peer, stop, past>>

Take(type) ==
    /\ main.pc = "tick" /\ ~stop /\ commands # <<>>
    /\ Head(commands).type = type
    /\ commands' = Tail(commands)

ObeyStop ==
    /\ Take("stop")
    /\ IF Head(commands).s = host.active THEN CleanupSession("select") ELSE Goto("select")
    /\ UNCHANGED <<host, target, socket, session, input, peer, stop, past>>

\* Acknowledged again, refused because of another session, or invalid.
RefusePrepare ==
    /\ Take("prepare")
    /\ Goto("select")
    /\ IF host.active = Head(commands).s THEN UNCHANGED past ELSE Told(Head(commands).s, "over")
    /\ UNCHANGED <<host, target, socket, session, input, peer, stop>>

Prepare ==
    /\ Take("prepare") /\ host.active = None
    /\ main' = [main EXCEPT !.pc = IF socket.pc = "none" THEN "launch" ELSE "flag",
                            !.then = IF socket.pc = "none" THEN "none" ELSE "launch",
                            !.s = Head(commands).s]
    /\ UNCHANGED <<host, target, socket, session, input, peer, stop, past>>

Detached == [target EXCEPT !.attached = FALSE, !.window = FALSE]

LaunchInOldRoom ==
    /\ main.pc = "launch"
    /\ target' = [Detached EXCEPT !.game = TRUE]
    /\ session' = [state |-> "Authorized", id |-> main.s]
    /\ socket' = Thread("pair")
    /\ host' = [host EXCEPT !.active = main.s, !.late = FALSE, !.state = "Preparing"]
    /\ Told(main.s, "acked")
    /\ main' = [main EXCEPT !.pc = "select", !.s = None]
    /\ UNCHANGED <<commands, input, peer, stop>>

\* The game is launched, the session authorized, and its room entered.
Launch ==
    /\ main.pc = "launch"
    /\ target' = [Detached EXCEPT !.game = TRUE]
    /\ session' = [state |-> "Authorized", id |-> main.s]
    /\ socket' = Thread(main.s)
    /\ host' = [host EXCEPT !.active = main.s, !.late = FALSE, !.state = "Preparing"]
    /\ Told(main.s, "acked")
    /\ main' = [main EXCEPT !.pc = "select", !.s = None]
    /\ UNCHANGED <<commands, input, peer, stop>>

LaunchFails ==
    /\ main.pc = "launch"
    /\ target' = Detached
    /\ Told(main.s, "over")
    /\ main' = [main EXCEPT !.pc = "select", !.s = None]
    /\ UNCHANGED <<host, commands, socket, session, input, peer, stop>>

ApplyPendingTargetSelection ==
    /\ main.pc = "select"
    /\ IF target.selected
       THEN /\ target' = [Detached EXCEPT !.selected = FALSE]
            /\ host' = [host EXCEPT !.state = "WaitingForTarget"]
       ELSE UNCHANGED <<target, host>>
    /\ Goto("look")
    /\ UNCHANGED <<commands, socket, session, input, peer, stop, past>>

\* A deadline: of the launch while there is no window, of the session at any time.
DeadlinePassed ==
    /\ main.pc = "look"
    /\ host.active # None /\ host.late
    /\ CleanupSession("tick")
    /\ UNCHANGED <<host, target, commands, socket, session, input, peer, stop, past>>

Looks == main.pc = "look" /\ ~(host.active # None /\ host.late)

\* The window of the launched game, or of the selected program, is found or not.
AttachTarget ==
    /\ Looks /\ ~target.attached
    /\ host.active # None \/ host.state = "WaitingForTarget"
    /\ \/ /\ target' = [target EXCEPT !.attached = TRUE, !.window = TRUE]
          /\ host' = [host EXCEPT !.state = "Ready"]
       \/ /\ host' = [host EXCEPT !.state = "Failed"]  \* no Direct3D device
          /\ UNCHANGED target
    /\ Goto("tick")
    /\ UNCHANGED <<commands, socket, session, input, peer, stop, past>>

NoTargetYet ==
    /\ Looks /\ ~target.attached
    /\ Goto("tick")
    /\ UNCHANGED <<host, target, commands, socket, session, input, peer, stop, past>>

\* The window is gone: after a time of grace the session fails, or the target is
\* waited for again.
TargetGone ==
    /\ Looks /\ target.attached /\ ~target.window
    /\ \/ Goto("tick") /\ UNCHANGED <<host, target>>
       \/ /\ host.active # None
          /\ CleanupSession("tick")
          /\ UNCHANGED <<host, target>>
       \/ /\ host.active = None
          /\ target' = Detached
          /\ host' = [host EXCEPT !.state = "WaitingForTarget"]
          /\ Goto("tick")
    /\ UNCHANGED <<commands, socket, session, input, peer, stop, past>>

\* getPeerConnectionState reads the same from no peer connection and from a new one.
PeerState == IF peer.state = "none" THEN "new" ELSE peer.state

Shown ==
    CASE PeerState = host.last -> host.state
      [] PeerState = "connected" -> "Streaming"
      [] PeerState = "connecting" -> "Reconnecting"
      [] PeerState = "lost" -> "Ready"
      [] OTHER -> host.state

LookAtPeer ==
    /\ Looks /\ target.attached /\ target.window
    /\ host' = [host EXCEPT !.state = Shown, !.last = PeerState]
    /\ Goto("tick")
    /\ UNCHANGED <<target, commands, socket, session, input, peer, stop, past>>

----------------------------------------------------------------------------
(* CleanupSession and the end of Stop. *)

CleanSession ==
    /\ main.pc = "clean"
    /\ host' = [host EXCEPT !.state = "Cleaning"]
    /\ input' = None
    /\ target' = Detached
    /\ StopWebsocket("terminate")
    /\ UNCHANGED <<commands, socket, session, peer, stop, past>>

\* The session is terminated and its end reported.
Terminate ==
    /\ main.pc = "terminate"
    /\ target' = [target EXCEPT !.game = FALSE]
    /\ session' = [state |-> "Idle", id |-> None]
    /\ Told(host.active, "over")
    /\ host' = [host EXCEPT !.state = "Idle", !.active = None, !.late = FALSE]
    /\ main' = [main EXCEPT !.pc = main.back, !.back = "none"]
    /\ UNCHANGED <<commands, socket, input, peer, stop>>

Off ==
    /\ main.pc = "off"
    /\ target' = NoTarget
    /\ commands' = <<>>
    /\ peer' = NoPeer
    /\ host' = [host EXCEPT !.last = "unknown", !.state = "Stopped"]
    /\ Goto("none")
    /\ UNCHANGED <<socket, session, input, stop, past>>

Main ==
    \/ Start \/ StartCoreServices \/ StartFails
    \/ FlagSocket \/ ClosePeer \/ HaltClient \/ JoinSocket
    \/ Stop \/ NoCommand \/ ObeyStop \/ RefusePrepare \/ Prepare \/ Launch \/ LaunchFails
    \/ ApplyPendingTargetSelection \/ DeadlinePassed \/ AttachTarget \/ NoTargetYet \/ TargetGone
    \/ LookAtPeer \/ CleanSession \/ Terminate \/ Off
----------------------------------------------------------------------------
(* The signaling thread. *)

SocketOnly == UNCHANGED <<main, host, target, commands, stop>>
Step(pc) == socket' = [socket EXCEPT !.pc = pc]
StoppedByHost == stop
Stopped == socket.flag \/ stop

SocketLoop ==
    /\ socket.pc = "loop"
    /\ Step(IF Stopped THEN "done" ELSE "run")
    /\ SocketOnly /\ UNCHANGED <<session, input, peer, past>>

\* run() returns between two handlers.
RunHalted ==
    /\ socket.pc = "run" /\ socket.halted
    /\ Step("after")
    /\ SocketOnly /\ UNCHANGED <<session, input, peer, past>>

RunReturned ==
    /\ socket.pc = "after"
    /\ Step(IF Stopped THEN "done" ELSE "reset")
    /\ SocketOnly /\ UNCHANGED <<session, input, peer, past>>

\* The client is reset; waitForReconnect ends early when the thread is to stop.
ResetClient ==
    /\ socket.pc = "reset"
    /\ socket' = [socket EXCEPT !.halted = FALSE, !.pc = "loop"]
    /\ SocketOnly /\ UNCHANGED <<session, input, peer, past>>

Handles == socket.pc = "run" /\ ~socket.halted

on_open ==
    /\ Handles /\ ~socket.linked
    /\ socket' = [socket EXCEPT !.linked = TRUE]
    /\ SocketOnly /\ UNCHANGED <<session, input, peer, past>>

MarkReconnecting == IF session.id = None THEN session ELSE [session EXCEPT !.state = "Reconnecting"]

\* on_fail and on_close.
on_close ==
    /\ Handles /\ past.events < MaxEvents
    /\ socket' = [socket EXCEPT !.linked = FALSE, !.pc = "after"]
    /\ session' = MarkReconnecting
    /\ peer' = NoPeer
    /\ past' = [past EXCEPT !.events = @ + 1]
    /\ SocketOnly /\ UNCHANGED input

PeerDisconnected ==
    /\ Handles /\ socket.linked /\ past.events < MaxEvents
    /\ session' = MarkReconnecting
    /\ input' = None
    /\ peer' = NoPeer
    /\ past' = [past EXCEPT !.events = @ + 1]
    /\ SocketOnly /\ UNCHANGED socket

\* A room of the marketplace carries its own session; the operator is asked about any
\* session but the authorized one.
Offer(id) ==
    /\ Handles /\ socket.linked /\ past.events < MaxEvents
    /\ id \in IF socket.room = "pair" THEN Guests ELSE {socket.room}
    /\ socket' = [socket EXCEPT !.id = id, !.pc = IF session.id = id THEN "authorize" ELSE "asking"]
    /\ past' = [past EXCEPT !.events = @ + 1]
    /\ SocketOnly /\ UNCHANGED <<session, input, peer>>

Deny ==
    /\ socket.pc = "asking"
    /\ socket' = [socket EXCEPT !.id = None, !.pc = "run"]
    /\ SocketOnly /\ UNCHANGED <<session, input, peer, past>>

Approve ==
    /\ socket.pc = "asking"
    /\ Step(IF session.id = None THEN "authorize" ELSE "replace")
    /\ SocketOnly /\ UNCHANGED <<session, input, peer, past>>

ReplaceSession ==
    /\ socket.pc = "replace"
    /\ input' = None
    /\ peer' = NoPeer
    /\ Step("authorize")
    /\ SocketOnly /\ UNCHANGED <<session, past>>

Authorize ==
    /\ socket.pc = "authorize"
    /\ session' = [state |-> "Authorized", id |-> socket.id]
    /\ input' = socket.id
    /\ Step("create")
    /\ SocketOnly /\ UNCHANGED <<peer, past>>

\* The answer is sent if the connection is there.
CreatePeerConnection ==
    /\ socket.pc = "create"
    /\ \/ /\ peer' = [NewPeer EXCEPT !.answered = socket.linked]
          /\ Step("mark")
       \/ /\ peer' = NoPeer
          /\ socket' = [socket EXCEPT !.id = None, !.pc = "run"]
    /\ SocketOnly /\ UNCHANGED <<session, input, past>>

MarkConnected ==
    /\ socket.pc = "mark"
    /\ session' = IF session.id = socket.id THEN [session EXCEPT !.state = "Connected"] ELSE session
    /\ socket' = [socket EXCEPT !.id = None, !.pc = "run"]
    /\ SocketOnly /\ UNCHANGED <<input, peer, past>>

Handler ==
    \/ SocketLoop \/ RunHalted \/ RunReturned \/ ResetClient
    \/ ReplaceSession \/ Authorize \/ CreatePeerConnection \/ MarkConnected

----------------------------------------------------------------------------
(* The peer connection, the window and the time. *)

\* Lost is disconnected or failed.
PeerMoves ==
    /\ peer.answered
    /\ \E to \in {"connecting", "connected", "lost"} :
        /\ <<peer.state, to>> \in {<<"new", "connecting">>, <<"connecting", "connected">>,
                <<"connecting", "lost">>, <<"connected", "lost">>, <<"lost", "connected">>}
        /\ peer' = [peer EXCEPT !.state = to]
    /\ UNCHANGED <<main, host, target, commands, socket, session, input, stop, past>>

WindowCloses ==
    /\ target.attached /\ target.window
    /\ target' = [target EXCEPT !.window = FALSE]
    /\ UNCHANGED <<main, host, commands, socket, session, input, peer, stop, past>>

TimePasses ==
    /\ host.active # None /\ ~host.late
    /\ host' = [host EXCEPT !.late = TRUE]
    /\ UNCHANGED <<main, target, commands, socket, session, input, peer, stop, past>>

----------------------------------------------------------------------------
Next ==
    \/ StartAsync \/ StopAsync \/ QueueTargetSelection
    \/ \E type \in {"prepare", "stop"}, s \in Sessions : HandleMarketplaceCommand(type, s)
    \/ Main \/ Handler
    \/ on_open \/ on_close \/ PeerDisconnected \/ Deny \/ Approve
    \/ \E id \in Guests \cup Sessions : Offer(id)
    \/ PeerMoves \/ WindowCloses \/ TimePasses

Spec == Init /\ [][Next]_vars

\* Both threads are scheduled and deadlines pass; nobody has to answer the dialog.
FairSpec == Spec /\ WF_vars(Main) /\ WF_vars(Handler) /\ WF_vars(TimePasses)

----------------------------------------------------------------------------
(* The session that runs is the one that offers are held against, and its room the
   one that is open, whatever the previous room's last handler was doing when it was
   left (ApplyMarketplaceCommand, handleOffer). *)
ActiveIsServed ==
    main.pc = "tick" /\ host.active # None =>
        session.id = host.active /\ socket.room = host.active /\ target.game

(* Once a session is over the SessionManager does not hold it any more and its game does
   not run, also when an offer was being handled as it ended: no later offer, candidate
   or stream profile passes for it without the operator (CleanupSession, handleOffer).
   What that offer gave to the input layer and to Go is not covered: InputRevoked. *)
CleanupForgetsSession == host.active = None => session.id \notin Sessions /\ ~target.game

(* A session that was acknowledged to the marketplace stays with the host until its
   end was reported, whether it ends by command, by time, with its game or with the
   host (CleanupSession, Stop). *)
NoSessionForgotten == \A s \in Sessions : past.told[s] = "acked" => host.active = s /\ main.pc # "none"

(* A host that was asked to stop while it runs has stopped, unless a dialog of the
   signaling thread waits for the operator's answer (Run, Stop, stopWebsocket). *)
HostStops ==
    stop /\ main.pc \notin {"none", "start"} ~> main.pc = "none" \/ socket.pc = "asking"

(* Stop and the emergency hotkey end the streaming (SECURITY_ARCHITECTURE.md:32), also
   when they come as the host starts.  For a first start: a second one finds the flag of
   the first. *)
StopObeyed == stop /\ main.pc # "none" ~> main.pc = "none" \/ socket.pc = "asking"

(* When the workstation is locked the session ends (SECURITY_ARCHITECTURE.md:33):
   a stopped host has none. *)
SessionEndsWithHost == main.pc = "none" => session.id = None

(* The cleanup revokes the session's input (CleanupSession): a handler that is between
   Authorize and createPeerConnection as its room is left gives it back. *)
InputRevoked == main.pc = "tick" /\ host.active = None => input \notin Sessions

(* A player who is connected to a captured game is shown as streaming, once the main
   loop has looked (Tick). *)
StreamingShown ==
    main.pc = "look" /\ target.attached /\ peer.state = "connected" /\ host.last = "connected"
        => host.state = "Streaming"

(* While a session runs the host is not presented as idle (MarketplacePresence). *)
BusyIsShown ==
    main.pc = "look" /\ host.active # None => host.state \notin {"Idle", "WaitingForTarget"}
=============================================================================
