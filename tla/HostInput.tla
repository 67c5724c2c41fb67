----------------------------- MODULE HostInput -----------------------------
(***************************************************************************)
(* Keyboard and mouse on the host: data channels, the Go queues, the loop  *)
(* that polls them, the transport queue, the state manager, the queues and *)
(* threads of the two handlers, and what Windows believes is held.  Resets *)
(* run on whichever thread calls resetAllInput, beside all of these.       *)
(*                                                                         *)
(* A step is one critical section or one call of SendInput: a decision     *)
(* about a key and its effect are two steps, with another thread's reset   *)
(* possibly in between.                                                    *)
(***************************************************************************)
EXTENDS Naturals, Sequences, FiniteSets, Functions

CONSTANTS
    Keys, Buttons,  \* supported key codes, mouse buttons
    Vk,             \* Vk[k]: the virtual key of a key code
    Forbidden,      \* pairs of keys that are never held together (Alt+Tab...)
    Sessions, NoSession,
    GoCap,          \* maxKeyboardMessages and maxMouseMessages
    TransportCap,   \* maxPendingMessages
    HandlerCap,     \* the larger of 16 and maxPendingMessages
    MaxEvents       \* bound: what players, sessions, the window and timers do

ASSUME InputAssumption ==
    /\ NoSession \notin Sessions /\ Keys \cap Buttons = {}
    /\ \A p \in Forbidden : p \subseteq Keys
    /\ {GoCap, TransportCap, HandlerCap} \subseteq Nat \ {0} /\ MaxEvents \in Nat

VARIABLES
    clientHeld, clientSession, keySeq,  \* the player's page
    events,             \* what happened so far, a bound only
    goKeys, goMouse,    \* messageQueue and mouseQueue of the Go library
    authorized,         \* authorizedSessionId
    pion, tq, proc,     \* pionMessageLoop, messageQueue, processingLoop
    pressed,            \* what the state manager holds as Pressed
    kq, mq, kb, ms,     \* queues and threads of the key and mouse handlers
    reported,           \* clientReportedKeysDown and clientReportedMouseButtonsDown
    fsm,                \* keys the KeyStateFSM has DOWN
    expected,           \* expectedSeq
    spill,              \* what an overflow of the key queue has left to do
    reset,              \* resets in progress, by the thread that runs them
    phase,              \* of the integration layer and the handlers
    os, focus,          \* keys Windows holds; target window is in front
    overtaken,      \* history: downs under way when what undoes them ran
    abandoned,      \* history: releases that a full queue or a closed channel lost
    withheld        \* history: releases not injected

player == <<clientHeld, clientSession, keySeq>>
client == <<player, events>>
transport == <<goKeys, goMouse, authorized, pion, tq, proc, pressed>>
handlers == <<kq, mq, kb, ms, reported, fsm, expected, spill>>
history == <<overtaken, abandoned, withheld>>
windows == <<os, focus, history>>
vars == <<client, transport, handlers, reset, phase, windows>>

Inputs == Keys \cup Buttons
NoInput == "none"
Threads == {"pion", "control", "recovery"}
Messages == [type : {"down", "up", "move", "reset"}, input : Inputs \cup {NoInput},
             session : Sessions \cup {NoSession}, seq : Nat]
Up(i) == [type |-> "up", input |-> i, session |-> NoSession, seq |-> 0]
Reset == [type |-> "reset", input |-> NoInput, session |-> NoSession, seq |-> 0]
Idle == [at |-> "wait"]
Leaving == [at |-> "leave"]
Gone == [at |-> "gone"]
IsRelease(m) == m.type \in {"up", "reset"}

TypeOK ==
    /\ clientHeld \subseteq Inputs /\ clientSession \in Sessions \cup {NoSession}
    /\ events \in 0 .. MaxEvents /\ keySeq \in 0 .. MaxEvents
    /\ \A q \in {goKeys, goMouse, tq, kq, mq} : q \in Seq(Messages)
    /\ Len(goKeys) <= GoCap + 1 /\ Len(goMouse) <= GoCap + 1
    /\ Len(tq) <= TransportCap + 1 /\ Len(kq) <= HandlerCap /\ Len(mq) <= HandlerCap
    /\ authorized \in Sessions \cup {NoSession}
    /\ pion.at \in {"wait", "push"} /\ proc.at \in {"wait", "state", "forward"}
    /\ kb.at \in {"wait", "fsm", "inject", "leave", "gone"}
    /\ ms.at \in {"wait", "inject", "leave", "gone"}
    /\ pressed \subseteq Inputs /\ reported \subseteq Inputs /\ fsm \subseteq Keys
    /\ os \subseteq Inputs /\ expected \in Nat /\ focus \in BOOLEAN
    /\ spill \in {"none", "release", "forget"}
    /\ reset \in [Threads -> [at : {"idle", "state", "forward", "keys", "buttons", "inject"},
                              out : SUBSET Inputs, then : {"done", "close", "clear"}]]
    /\ phase \in {"running", "joining", "resetting", "cleared", "stopped"}
    /\ overtaken \cup abandoned \cup withheld \subseteq Inputs

Init ==
    /\ clientHeld = {} /\ clientSession = NoSession /\ events = 0 /\ keySeq = 0
    /\ goKeys = <<>> /\ goMouse = <<>> /\ authorized = NoSession
    /\ pion = Idle /\ tq = <<>> /\ proc = Idle /\ pressed = {}
    /\ kq = <<>> /\ mq = <<>> /\ kb = Idle /\ ms = Idle
    /\ reported = {} /\ fsm = {} /\ expected = 0 /\ spill = "none"
    /\ reset = [t \in Threads |-> [at |-> "idle", out |-> {}, then |-> "done"]]
    /\ phase = "running" /\ os = {} /\ focus = TRUE
    /\ overtaken = {} /\ abandoned = {} /\ withheld = {}
-----------------------------------------------------------------------------
(* Key-downs under way: in the Go library, past the session check but not  *)
(* in the state manager, decided there, in the handlers, in their hands.   *)
Downs(q) == {m.input : m \in {n \in q : n.type = "down"}}
Ups(q) == {m.input : m \in {n \in q : n.type = "up"}}
InGo == Downs(Range(goKeys))
InThePipe ==
    Downs(Range(tq) \cup (IF pion.at = "push" THEN {pion.msg} ELSE {})
                   \cup (IF proc.at = "state" THEN {proc.msg} ELSE {}))
(* Releases that are lost when the queue is emptied, and when a channel    *)
(* closes: nobody will send those of what the player still held.           *)
Discarded == IF Len(goKeys) < GoCap THEN {} ELSE Ups(Range(goKeys))
Severed == clientHeld \cup Discarded
BeingForwarded == IF proc.at = "forward" THEN Downs(proc.out) ELSE {}
InHand(thread) == IF thread.at \in {"fsm", "inject"} THEN Downs({thread.ev}) ELSE {}
InTheHandlers ==
    BeingForwarded \cup Downs(Range(kq) \cup Range(mq)) \cup InHand(kb) \cup InHand(ms)

(* SendInput, unless the target window is not in front; downs that a       *)
(* release of everything leaves on their way are noted.                    *)
InjectBut(downs, ups, underWay) ==
    /\ os' = IF focus THEN (os \cup downs) \ ups ELSE os
    /\ withheld' = IF focus THEN withheld \ (downs \cup ups) ELSE withheld \cup (ups \cap os)
    /\ LET undone == IF focus THEN ups \ (InGo \cup InThePipe \cup InTheHandlers) ELSE {}
       IN /\ overtaken' = (overtaken \ undone) \cup underWay
          /\ abandoned' = abandoned \ undone
    /\ UNCHANGED focus

Inject(downs, ups) == InjectBut(downs, ups, {})

(* KeyStateFSM::releaseAllKeys, the injection under its mutex.             *)
ReleaseFsm ==
    /\ fsm' = {}
    /\ InjectBut({}, fsm, InHand(kb))

(* A full queue is emptied but for one reset; of the message that did not  *)
(* fit only a release is kept.                                             *)
GoEnqueue(q, m) ==
    IF Len(q) >= GoCap
    THEN IF IsRelease(m) THEN <<Reset, m>> ELSE <<Reset>>
    ELSE Append(q, m)

GoMouseEnqueue(q, m) ==
    IF m.type = "move" /\ q # <<>> /\ q[Len(q)].type = "move"
    THEN [q EXCEPT ![Len(q)] = m]
    ELSE GoEnqueue(q, m)
-----------------------------------------------------------------------------
Happens == events < MaxEvents /\ events' = events + 1

(* The player.  Keys and buttons go through the reliable channel, and keys *)
(* are numbered; moves go through the other.                               *)
Transition(type, i) ==
    /\ Happens /\ clientSession # NoSession
    /\ keySeq' = IF i \in Keys THEN keySeq + 1 ELSE keySeq
    /\ goKeys' = GoEnqueue(goKeys, [type |-> type, input |-> i, session |-> clientSession,
                                    seq |-> IF i \in Keys THEN keySeq + 1 ELSE 0])
    /\ abandoned' = abandoned \cup (Discarded \ {i})
    /\ UNCHANGED <<clientSession, goMouse, authorized, pion, tq, proc, pressed,
                   handlers, reset, phase, os, focus, overtaken, withheld>>

Press(i) ==
    /\ i \notin clientHeld
    /\ clientHeld' = clientHeld \cup {i}
    /\ Transition("down", i)

Release(i) ==
    /\ i \in clientHeld
    /\ clientHeld' = clientHeld \ {i}
    /\ Transition("up", i)

MovePointer ==
    /\ Happens /\ clientSession # NoSession
    /\ goMouse' = GoMouseEnqueue(goMouse, [Reset EXCEPT !.type = "move", !.session = clientSession])
    /\ UNCHANGED <<clientHeld, clientSession, keySeq, goKeys, authorized, pion, tq, proc,
                   pressed, handlers, reset, phase, windows>>
-----------------------------------------------------------------------------
(* pionMessageLoop: the next message, keyboard first, and its session.     *)
PionTake ==
    /\ phase \in {"running", "joining"} /\ pion = Idle /\ reset["pion"].at = "idle"
    /\ \E q \in {goKeys, goMouse} :
        /\ q # <<>> /\ (goKeys # <<>> => q = goKeys)
        /\ goKeys' = IF goKeys # <<>> THEN Tail(goKeys) ELSE goKeys
        /\ goMouse' = IF goKeys # <<>> THEN goMouse ELSE Tail(goMouse)
        /\ pion' = IF authorized # NoSession /\ Head(q).session = authorized
                   THEN [at |-> "push", msg |-> Head(q)]
                   ELSE Idle
    /\ UNCHANGED <<client, authorized, tq, proc, pressed, handlers, reset, phase, windows>>

(* The rest of enqueueMessage; an overflow resets all input on this thread.*)
PionPush ==
    /\ pion.at = "push"
    /\ pion' = Idle
    /\ LET m == pion.msg
           merges == m.type = "move" /\ tq # <<>> /\ tq[Len(tq)].type = "move"
           overflow == ~merges /\ Len(tq) >= TransportCap
       IN /\ tq' = IF merges THEN [tq EXCEPT ![Len(tq)] = m]
                   ELSE IF ~overflow THEN Append(tq, m)
                   ELSE IF IsRelease(m) THEN <<Reset, m>> ELSE <<Reset>>
          /\ reset' = IF overflow THEN [reset EXCEPT !["pion"].at = "state"] ELSE reset
    /\ UNCHANGED <<client, goKeys, goMouse, authorized, proc, pressed, handlers, phase, windows>>

(* processingLoop takes a message and works on it outside the lock.        *)
ProcTake ==
    /\ phase = "running" /\ proc = Idle /\ tq # <<>>
    /\ tq' = Tail(tq)
    /\ proc' = [at |-> "state", msg |-> Head(tq)]
    /\ UNCHANGED <<client, goKeys, goMouse, authorized, pion, pressed, handlers, reset, phase,
                   windows>>

(* Mutant: a full queue is emptied, and nothing is released after it.      *)
KeyEnqueueKeeps(e) ==
    /\ spill = "none"
    /\ kq' = IF Len(kq) < HandlerCap THEN Append(kq, e) ELSE <<e>>
    /\ UNCHANGED <<mq, spill, reported, fsm, windows>>

(* KeyInputHandler::enqueueMessage up to its unlock: a full queue is       *)
(* emptied, and all keys are released after that.                          *)
KeyEnqueue(e) ==
    /\ spill = "none"
    /\ IF Len(kq) < HandlerCap
       THEN kq' = Append(kq, e) /\ UNCHANGED <<spill, reported, fsm, windows>>
       ELSE /\ kq' = <<e>>
            /\ spill' = "release"
            /\ UNCHANGED <<reported, fsm, windows>>
    /\ UNCHANGED mq

(* The same of the mouse, with the buttons the handler has seen pressed.   *)
MouseEnqueue(e) ==
    /\ IF Len(mq) < HandlerCap
       THEN mq' = Append(mq, e) /\ UNCHANGED <<reported, windows>>
       ELSE /\ mq' = <<e>>
            /\ reported' = reported \ Buttons
            /\ InjectBut({}, reported \cap Buttons, InHand(ms))
    /\ UNCHANGED <<kq, fsm, spill>>

(* inputMessageHandler                                                     *)
Dispatch(e) ==
    /\ IF e.input \in Keys THEN KeyEnqueue(e) ELSE MouseEnqueue(e)
    /\ UNCHANGED <<kb, ms, expected>>

(* processInputMessage: a transition that changes nothing is discarded.    *)
ProcState ==
    /\ proc.at = "state"
    /\ LET m == proc.msg
           duplicate == m.type # "move" /\ (m.type = "down") = (m.input \in pressed)
       IN IF m.type = "reset"
          THEN /\ pressed' = {}
               /\ proc' = IF pressed = {} THEN Idle
                          ELSE [at |-> "forward", out |-> {Up(i) : i \in pressed}]
          ELSE /\ pressed' = CASE m.type = "down" -> pressed \cup {m.input}
                               [] m.type = "up" -> pressed \ {m.input}
                               [] OTHER -> pressed
               /\ proc' = IF duplicate THEN Idle ELSE [at |-> "forward", out |-> {m}]
    /\ UNCHANGED <<client, goKeys, goMouse, authorized, pion, tq, handlers, reset, phase, windows>>

ProcForward ==
    /\ proc.at = "forward"
    /\ \E e \in proc.out :
        /\ Dispatch(e)
        /\ proc' = IF proc.out = {e} THEN Idle ELSE [proc EXCEPT !.out = @ \ {e}]
    /\ UNCHANGED <<client, goKeys, goMouse, authorized, pion, tq, pressed, reset, phase>>

(* checkForStuckKeys, with the times left open.                            *)
CheckForStuckKeys ==
    /\ Happens /\ phase = "running" /\ reset["recovery"].at = "idle"
    /\ \E ks \in SUBSET (pressed \cap Keys) \ {{}} :
        /\ pressed' = pressed \ ks
        /\ reset' = [reset EXCEPT !["recovery"].at = "forward", !["recovery"].out = ks]
        /\ overtaken' = overtaken \cup (ks \cap BeingForwarded)
    /\ UNCHANGED <<player, goKeys, goMouse, authorized, pion, tq, proc, handlers, phase,
                   os, focus, abandoned, withheld>>
-----------------------------------------------------------------------------
SameVk(k) == {r \in reported \cap Keys : Vk[r] = Vk[k]}

(* processSequence: a gap releases all keys, unless one did so less than a *)
(* second ago.                                                             *)
ProcessSequence(n) ==
    /\ expected' = n + 1
    /\ IF expected > 0 /\ n > expected
       THEN ReleaseFsm \/ UNCHANGED <<fsm, windows>>
       ELSE UNCHANGED <<fsm, windows>>

(* messagePollingLoop: sequence number, forbidden combinations, bookkeeping*)
KeyTake ==
    /\ phase = "running" /\ kb = Idle /\ kq # <<>>
    /\ kq' = Tail(kq)
    /\ ProcessSequence(Head(kq).seq)
    /\ LET e == Head(kq)
           k == e.input
           forbidden == \E r \in reported \cap Keys : {r, k} \in Forbidden
       IN IF e.type = "down"
          THEN IF forbidden
               THEN kb' = Idle /\ UNCHANGED reported
               ELSE /\ kb' = [at |-> "fsm", ev |-> e]
                    /\ reported' = (reported \ SameVk(k)) \cup {k}
          ELSE /\ kb' = IF SameVk(k) = {} THEN Idle ELSE [at |-> "fsm", ev |-> e]
               /\ reported' = reported \ SameVk(k)
    /\ UNCHANGED <<client, transport, mq, ms, spill, reset, phase>>

(* Both threads leave their loops when the shutdown flag is up.            *)
Done == IF phase = "running" THEN Idle ELSE Leaving

InjectEvent(e) ==
    IF e.type = "down" THEN Inject({e.input}, {}) ELSE Inject({}, {e.input})

(* processKeyEvent: only a change of state is accepted and injected.       *)
KeyFsm ==
    /\ kb.at = "fsm"
    /\ LET e == kb.ev
       IN IF (e.type = "down") = (e.input \in fsm)
          THEN kb' = Done /\ UNCHANGED fsm
          ELSE /\ fsm' = IF e.type = "down" THEN fsm \cup {e.input} ELSE fsm \ {e.input}
               /\ kb' = [kb EXCEPT !.at = "inject"]
    /\ UNCHANGED <<client, transport, kq, mq, ms, reported, expected, spill, reset, phase, windows>>

KeyInject ==
    /\ kb.at = "inject"
    /\ kb' = Done
    /\ InjectEvent(kb.ev)
    /\ UNCHANGED <<client, transport, kq, mq, ms, reported, fsm, expected, spill, reset, phase>>

(* The rest of an overflow of the key queue.                               *)
SpillRelease ==
    /\ spill = "release"
    /\ spill' = "forget"
    /\ ReleaseFsm
    /\ UNCHANGED <<client, transport, kq, mq, kb, ms, reported, expected, reset, phase>>

SpillForget ==
    /\ spill = "forget"
    /\ spill' = "none"
    /\ reported' = reported \ Keys
    /\ overtaken' = overtaken \cup (reported \cap (fsm \cup InHand(kb)))
    /\ UNCHANGED <<client, transport, kq, mq, kb, ms, fsm, expected, reset, phase, os, focus,
                   abandoned, withheld>>

(* mouseMessagePollingLoop                                                 *)
MouseTake ==
    /\ phase = "running" /\ ms = Idle /\ mq # <<>>
    /\ mq' = Tail(mq)
    /\ LET e == Head(mq)
           ignored == e.type = "move" \/ (e.type = "down") = (e.input \in reported)
       IN IF ignored
          THEN ms' = Idle /\ UNCHANGED reported
          ELSE /\ reported' = IF e.type = "down" THEN reported \cup {e.input}
                              ELSE reported \ {e.input}
               /\ ms' = [at |-> "inject", ev |-> e]
    /\ UNCHANGED <<client, transport, kq, kb, fsm, expected, spill, reset, phase, windows>>

MouseInject ==
    /\ ms.at = "inject"
    /\ ms' = Done
    /\ InjectEvent(ms.ev)
    /\ UNCHANGED <<client, transport, kq, mq, kb, reported, fsm, expected, spill, reset, phase>>
-----------------------------------------------------------------------------
(* resetAllInput on thread t: emergencyReleaseAllKeys of the state manager,*)
(* its events, releaseAllKeysEmergency, releaseAllButtonsEmergency.        *)
ResetState(t) ==
    /\ reset[t].at = "state"
    /\ pressed' = {}
    /\ reset' = [reset EXCEPT ![t].at = IF pressed = {} THEN "keys" ELSE "forward",
                              ![t].out = pressed]
    /\ overtaken' = overtaken \cup BeingForwarded
    /\ UNCHANGED <<client, goKeys, goMouse, authorized, pion, tq, proc, handlers, phase,
                   os, focus, abandoned, withheld>>

ResetForward(t) ==
    /\ reset[t].at = "forward"
    /\ \E i \in reset[t].out :
        /\ Dispatch(Up(i))
        /\ reset' = [reset EXCEPT ![t].out = @ \ {i},
                        ![t].at = IF reset[t].out # {i} THEN "forward"
                                  ELSE IF t = "recovery" THEN "idle" ELSE "keys"]
    /\ UNCHANGED <<client, transport, phase>>

ResetKeys(t) ==
    /\ reset[t].at = "keys"
    /\ ReleaseFsm
    /\ reset' = [reset EXCEPT ![t].at = "buttons"]
    /\ UNCHANGED <<client, transport, kq, mq, kb, ms, reported, expected, spill, phase>>

ResetButtons(t) ==
    /\ reset[t].at = "buttons"
    /\ reported' = reported \ Buttons
    /\ reset' = [reset EXCEPT ![t].at = "inject", ![t].out = reported \cap Buttons]
    /\ overtaken' = overtaken \cup InHand(ms)
    /\ UNCHANGED <<client, transport, kq, mq, kb, ms, fsm, expected, spill, phase, os, focus,
                   abandoned, withheld>>

ResetInject(t) ==
    /\ reset[t].at = "inject"
    /\ Inject({}, reset[t].out)
    /\ reset' = [reset EXCEPT ![t].at = "idle", ![t].out = {}]
    /\ UNCHANGED <<client, transport, handlers, phase>>

ResetStep(t) ==
    \/ ResetState(t) \/ ResetForward(t) \/ ResetKeys(t) \/ ResetButtons(t) \/ ResetInject(t)
-----------------------------------------------------------------------------
ControlIdle == reset["control"].at = "idle" /\ phase = "running"

(* handleOffer: the session is authorized and a peer created.              *)
AuthorizeSession(s) ==
    /\ ControlIdle /\ reset["control"].then = "done" /\ clientSession = NoSession
    /\ authorized \in {NoSession, s}
    /\ authorized' = s /\ clientSession' = s
    /\ goKeys' = <<>> /\ goMouse' = <<>>
    /\ abandoned' = IF authorized = s THEN abandoned \cup Ups(Range(goKeys)) ELSE abandoned
    /\ UNCHANGED <<clientHeld, keySeq, events, pion, tq, proc, pressed, handlers, reset, phase,
                   os, focus, overtaken, withheld>>

(* The peer connection closes: its channels put resets into the Go queues. *)
ChannelsClose ==
    /\ clientSession' = NoSession /\ clientHeld' = {}
    /\ goKeys' = GoEnqueue(goKeys, Reset)
    /\ goMouse' = GoEnqueue(goMouse, Reset)
    /\ UNCHANGED keySeq

(* peer-disconnected, a new player's offer, or CleanupSession.             *)
EndSession ==
    /\ Happens /\ ControlIdle /\ reset["control"].then = "done"
    /\ authorized # NoSession
    /\ authorized' = NoSession
    /\ ChannelsClose
    /\ reset' = [reset EXCEPT !["control"].at = "state"]
    /\ overtaken' = overtaken \cup InThePipe
    /\ UNCHANGED <<pion, tq, proc, pressed, handlers, phase, os, focus, abandoned, withheld>>

(* on_close and on_fail of the signaling socket: reset, then close.        *)
SignalingLost ==
    /\ Happens /\ ControlIdle /\ reset["control"].then = "done"
    /\ clientSession # NoSession
    /\ reset' = [reset EXCEPT !["control"].at = "state", !["control"].then = "close"]
    /\ UNCHANGED <<player, transport, handlers, phase, windows>>

CloseAfterReset ==
    /\ ControlIdle /\ reset["control"].then = "close"
    /\ reset' = [reset EXCEPT !["control"].then = "done"]
    /\ ChannelsClose
    /\ abandoned' = abandoned \cup Severed
    /\ UNCHANGED <<events, authorized, pion, tq, proc, pressed, handlers, phase, os, focus, overtaken,
                   withheld>>

(* The player's channels close on their own.                               *)
ChannelLost ==
    /\ Happens /\ clientSession # NoSession
    /\ ChannelsClose
    /\ abandoned' = abandoned \cup Severed
    /\ UNCHANGED <<authorized, pion, tq, proc, pressed, handlers, reset, phase, os, focus,
                   overtaken, withheld>>

(* HostRuntime::Stop raises the shutdown flag; Layer::stop, Manager::stop  *)
(* and the two handlers follow.                                            *)
Stop ==
    /\ Happens /\ ControlIdle /\ reset["control"].then = "done"
    /\ phase' = "joining"
    /\ ChannelsClose
    /\ abandoned' = abandoned \cup Severed
    /\ UNCHANGED <<authorized, pion, tq, proc, pressed, handlers, reset, os, focus, overtaken,
                   withheld>>

ThreadsJoined ==
    /\ phase = "joining" /\ pion = Idle /\ proc = Idle
    /\ reset["pion"].at = "idle"
    /\ phase' = "resetting"
    /\ reset' = [reset EXCEPT !["control"].at = "state", !["control"].then = "clear"]
    /\ UNCHANGED <<client, transport, handlers, windows>>

QueueCleared ==
    /\ phase = "resetting" /\ reset["control"].at = "idle" /\ reset["recovery"].at = "idle"
    /\ phase' = "cleared"
    /\ reset' = [reset EXCEPT !["control"].then = "done"]
    /\ tq' = <<>>
    /\ UNCHANGED <<client, goKeys, goMouse, authorized, pion, proc, pressed, handlers, windows>>

(* Mutant: the thread ends and forgets what it held.                       *)
MouseForgets ==
    /\ \/ ms = Leaving
       \/ ms = Idle /\ phase # "running" /\ (mq # <<>> \/ phase = "cleared")
    /\ ms' = Gone
    /\ reported' = reported \ Buttons
    /\ UNCHANGED <<client, transport, kq, mq, kb, fsm, expected, spill, reset, phase, windows>>

(* A thread that leaves its loop releases what was reported; one that      *)
(* waits is woken by a message, or by the cleanup of its handler.          *)
MouseLeaves ==
    /\ \/ ms = Leaving
       \/ ms = Idle /\ phase # "running" /\ (mq # <<>> \/ phase = "cleared")
    /\ ms' = Gone
    /\ reported' = reported \ Buttons
    /\ Inject({}, reported \cap Buttons)
    /\ UNCHANGED <<client, transport, kq, mq, kb, fsm, expected, spill, reset, phase>>

KeysLeave ==
    /\ \/ kb = Leaving
       \/ /\ kb = Idle /\ phase # "running"
          /\ kq # <<>> \/ (phase = "cleared" /\ ms = Gone)
    /\ kb' = Gone
    /\ reported' = reported \ Keys
    /\ Inject({}, reported \cap Keys)
    /\ UNCHANGED <<client, transport, kq, mq, ms, fsm, expected, spill, reset, phase>>

Stopped ==
    /\ phase = "cleared" /\ ms = Gone /\ kb = Gone /\ spill = "none"
    /\ phase' = "stopped"
    /\ UNCHANGED <<client, transport, handlers, reset, windows>>

(* StartCoreServices.  The state machine of the keys is not reset.         *)
Start ==
    /\ phase = "stopped"
    /\ phase' = "running"
    /\ kq' = <<>> /\ mq' = <<>> /\ reported' = {} /\ kb' = Idle /\ ms' = Idle
    /\ UNCHANGED <<client, transport, fsm, expected, spill, reset, windows>>

FocusChanges ==
    /\ Happens
    /\ focus' = ~focus
    /\ UNCHANGED <<player, transport, handlers, reset, phase, os, history>>
-----------------------------------------------------------------------------
Control ==
    \/ \E s \in Sessions : AuthorizeSession(s)
    \/ EndSession \/ SignalingLost \/ CloseAfterReset
    \/ Stop \/ ThreadsJoined \/ QueueCleared \/ MouseLeaves \/ KeysLeave \/ Stopped \/ Start

Pipeline ==
    \/ PionTake \/ PionPush \/ ProcTake \/ ProcState \/ ProcForward
    \/ KeyTake \/ KeyFsm \/ KeyInject \/ MouseTake \/ MouseInject
    \/ SpillRelease \/ SpillForget
    \/ \E t \in Threads : ResetStep(t)

Next ==
    \/ \E i \in Inputs : Press(i) \/ Release(i)
    \/ MovePointer \/ ChannelLost \/ FocusChanges \/ CheckForStuckKeys
    \/ Control \/ Pipeline

Spec == Init /\ [][Next]_vars
-----------------------------------------------------------------------------
Quiet ==
    /\ phase = "running" /\ spill = "none"
    /\ goKeys = <<>> /\ goMouse = <<>> /\ tq = <<>> /\ kq = <<>> /\ mq = <<>>
    /\ pion = Idle /\ proc = Idle /\ kb = Idle /\ ms = Idle
    /\ \A t \in Threads : reset[t].at = "idle" /\ reset[t].then = "done"

(* When everything sent has been worked off, nothing is held that the      *)
(* player does not hold, but for three losses of a release: a full Go      *)
(* queue or a closing channel dropped it, the reset sent in its place      *)
(* being refused; a reset overtook the press; or the target window was not *)
(* in front.  No other overflow, reset, gap or duplicate loses one.        *)
QuietFollowsClient == Quiet => os \subseteq clientHeld \cup overtaken \cup abandoned \cup withheld

(* README: "Overflow preserves safety releases".  With nothing but presses *)
(* and releases, all worked off, what the player let go of is released.    *)
OverflowReleases == Quiet /\ events = keySeq => os \subseteq clientHeld \cup overtaken

(* Shutdown releases everything, whatever was still in the queues, but for *)
(* what a reset overtook and what the window in front kept held.           *)
StoppedReleasesAll == phase = "stopped" => os \subseteq overtaken \cup withheld

(* After a channel of the player closed, and the reset it sends went       *)
(* through, nothing is held any more.                                      *)
CloseReleases ==
    Quiet /\ clientSession = NoSession => os \subseteq overtaken \cup withheld
=============================================================================
