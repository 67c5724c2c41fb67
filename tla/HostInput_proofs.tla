-------------------------- MODULE HostInput_proofs --------------------------
(***************************************************************************)
(* For any keys, buttons, virtual keys, queue lengths and events: a stop   *)
(* leaves nothing held but what a reset could not reach or was not let     *)
(* through to Windows; and when nothing is on the way, Windows holds what  *)
(* the player holds, but for what is excused.                              *)
(*                                                                         *)
(* The queues do not matter for the stop.  A key that Windows holds is     *)
(* DOWN in the state machine or is just being released, and a button is    *)
(* among the reported ones, is just being released, or is in the hands of  *)
(* a reset; so the reset of a stop finds it.  After that only a press      *)
(* already in the hands of a handler can still come, which it has noted.   *)
(*                                                                         *)
(* For the quiet state the queues are what matters: behind each press on   *)
(* its way, and each input that Windows holds, there is its release, or a  *)
(* reset that makes one, or the player still holds it (Chain).             *)
(***************************************************************************)
EXTENDS HostInput, TLAPS

\* What a queue or a thread may hold: a press or release of a key in that of the keys,
\* and of a button, or a move, in that of the mouse.
Sendable == {m \in Messages : m.type \in {"reset", "move"} \/ m.input \in Inputs}
Decided == {m \in Messages : m.type = "move" \/ m.input \in Inputs}
KeyEvents == {m \in Messages : m.input \in Keys}
MouseEvents == {m \in Messages : m.type = "move" \/ m.input \in Buttons}
ResetStates == [at : {"idle", "state", "forward", "keys", "buttons", "inject"},
                out : SUBSET Inputs, then : {"done", "close", "clear"}]

Shape ==
    /\ clientSession \in Sessions \cup {NoSession} /\ keySeq \in Nat
    /\ goKeys \in Seq(Sendable) /\ goMouse \in Seq(Sendable) /\ tq \in Seq(Sendable)
    /\ pion = Idle \/ pion \in [at : {"push"}, msg : Sendable]
    /\ proc = Idle \/ proc \in [at : {"state"}, msg : Sendable]
                   \/ proc \in [at : {"forward"}, out : SUBSET Decided]
    /\ kq \in Seq(KeyEvents) /\ mq \in Seq(MouseEvents)
    /\ kb \in {Idle, Leaving, Gone} \/ kb \in [at : {"fsm", "inject"}, ev : KeyEvents]
    /\ ms \in {Idle, Leaving, Gone}
       \/ ms \in [at : {"inject"}, ev : {e \in MouseEvents : e.input \in Buttons}]
    /\ pressed \subseteq Inputs /\ reported \subseteq Inputs /\ fsm \subseteq Keys /\ os \subseteq Inputs
    /\ reset \in [Threads -> ResetStates]
    /\ phase \in {"running", "joining", "resetting", "cleared", "stopped"}

\* Which resets can be at work: recovery only forwards, and the polling thread has
\* left when the reset of the stop begins.
Resting ==
    /\ pion # Idle => reset["pion"].at = "idle"
    /\ reset["recovery"].at \in {"idle", "forward"}
    /\ phase \notin {"running", "joining"} => pion = Idle /\ reset["pion"].at = "idle"
    /\ phase \in {"joining", "cleared", "stopped"} => reset["control"].at = "idle"

\* What Windows holds and nothing excuses.
Uncovered == os \ (overtaken \cup withheld)

Releasing(thread, i) == thread.at = "inject" /\ thread.ev.type # "down" /\ thread.ev.input = i
Pressing(thread) == thread.at = "inject" /\ thread.ev.type = "down"

HeldKeys == \A k \in Keys : k \in Uncovered => k \in fsm \/ Releasing(kb, k)

HeldButtons ==
    \A b \in Buttons : b \in Uncovered =>
        \/ b \in reported \/ Releasing(ms, b)
        \/ \E t \in Threads : reset[t].at = "inject" /\ b \in reset[t].out

PressedKey == Pressing(kb) => kb.ev.input \in fsm \cup overtaken
PressedButton == Pressing(ms) => ms.ev.input \in reported \cup overtaken

\* The reset of a stop has dealt with the keys, and with the buttons.
KeysDone ==
    \/ phase \in {"cleared", "stopped"}
    \/ phase = "resetting" /\ reset["control"].at \in {"buttons", "inject", "idle"}
ButtonsDone ==
    \/ phase \in {"cleared", "stopped"}
    \/ phase = "resetting" /\ reset["control"].at \in {"inject", "idle"}

KeysEmptied ==
    KeysDone => /\ \A k \in Keys : k \in Uncovered => Releasing(kb, k)
                /\ InHand(kb) \subseteq overtaken
ButtonsEmptied ==
    ButtonsDone => /\ \A b \in Buttons : b \in Uncovered =>
                        \/ Releasing(ms, b)
                        \/ reset["control"].at = "inject" /\ b \in reset["control"].out
                   /\ InHand(ms) \subseteq overtaken

HandsGone == phase = "stopped" => kb = Gone /\ ms = Gone

Holds == HeldKeys /\ HeldButtons /\ PressedKey /\ PressedButton /\ KeysEmptied /\ ButtonsEmptied
IInv == Shape /\ Resting /\ HandsGone /\ Holds

-----------------------------------------------------------------------------
(* What the queues and the threads hold. *)

LEMMA MessagesMade ==
  /\ Reset \in Sendable
  /\ \A i \in Inputs : Up(i) \in Decided /\ Up(i).input = i /\ Up(i).type = "up"
  /\ \A type \in {"down", "up"}, i \in Inputs, s \in Sessions \cup {NoSession}, n \in Nat :
         [type |-> type, input |-> i, session |-> s, seq |-> n] \in Sendable
  /\ \A s \in Sessions \cup {NoSession} : [Reset EXCEPT !.type = "move", !.session = s] \in Sendable
<1>1. Reset \in Sendable
  BY DEF Reset, Sendable, Messages
<1>2. \A i \in Inputs : Up(i) \in Decided /\ Up(i).input = i /\ Up(i).type = "up"
  BY DEF Up, Decided, Messages
<1>3. \A type \in {"down", "up"}, i \in Inputs, s \in Sessions \cup {NoSession}, n \in Nat :
         [type |-> type, input |-> i, session |-> s, seq |-> n] \in Sendable
  BY DEF Sendable, Messages
<1>4. \A s \in Sessions \cup {NoSession} : [Reset EXCEPT !.type = "move", !.session = s] \in Sendable
  BY DEF Reset, Sendable, Messages
<1> QED
  BY <1>1, <1>2, <1>3, <1>4

LEMMA Enqueued ==
  ASSUME NEW q \in Seq(Sendable), NEW m \in Sendable
  PROVE  /\ <<Reset>> \in Seq(Sendable) /\ <<Reset, m>> \in Seq(Sendable) /\ Append(q, m) \in Seq(Sendable)
         /\ GoEnqueue(q, m) \in Seq(Sendable) /\ GoMouseEnqueue(q, m) \in Seq(Sendable)
<1>1. <<Reset>> \in Seq(Sendable) /\ <<Reset, m>> \in Seq(Sendable) /\ Append(q, m) \in Seq(Sendable)
  <2>1. Reset \in Sendable
    BY MessagesMade
  <2>2. \A r \in Sendable : <<r>> \in Seq(Sendable) /\ <<r, m>> \in Seq(Sendable)
    OBVIOUS
  <2> QED
    BY <2>1, <2>2
<1>2. GoEnqueue(q, m) \in Seq(Sendable)
  BY <1>1 DEF GoEnqueue
<1>3. q # <<>> => [q EXCEPT ![Len(q)] = m] \in Seq(Sendable)
  OBVIOUS
<1> QED
  BY <1>1, <1>2, <1>3 DEF GoMouseEnqueue

(* Each step on a reset makes another reset. *)
Places == {"idle", "state", "forward", "keys", "buttons", "inject"}

LEMMA ResetAt ==
  ASSUME reset \in [Threads -> ResetStates], NEW t \in Threads, NEW at \in Places
  PROVE  [reset EXCEPT ![t].at = at] \in [Threads -> ResetStates]
BY Zenon DEF ResetStates, Places

LEMMA ResetThen ==
  ASSUME reset \in [Threads -> ResetStates], NEW t \in Threads, NEW then \in {"done", "close", "clear"}
  PROVE  [reset EXCEPT ![t].then = then] \in [Threads -> ResetStates]
BY Zenon DEF ResetStates

LEMMA ResetAtOut ==
  ASSUME reset \in [Threads -> ResetStates], NEW t \in Threads, NEW at \in Places, NEW out \in SUBSET Inputs
  PROVE  [reset EXCEPT ![t].at = at, ![t].out = out] \in [Threads -> ResetStates]
BY Zenon DEF ResetStates, Places

LEMMA ResetAtThen ==
  ASSUME reset \in [Threads -> ResetStates], NEW t \in Threads, NEW at \in Places,
         NEW then \in {"done", "close", "clear"}
  PROVE  [reset EXCEPT ![t].at = at, ![t].then = then] \in [Threads -> ResetStates]
BY Zenon DEF ResetStates, Places

LEMMA ResetOutAt ==
  ASSUME reset \in [Threads -> ResetStates], NEW t \in Threads, NEW at \in Places, NEW S
  PROVE  [reset EXCEPT ![t].out = @ \ S, ![t].at = at] \in [Threads -> ResetStates]
<1> DEFINE o == reset[t].out \ S
<1>1. o \in SUBSET Inputs
  BY DEF ResetStates
<1>2. [reset EXCEPT ![t].out = @ \ S, ![t].at = at] = [reset EXCEPT ![t].out = o, ![t].at = at]
  BY Zenon
<1> HIDE DEF o
<1>3. [reset EXCEPT ![t].out = o, ![t].at = at] \in [Threads -> ResetStates]
  BY <1>1, Zenon DEF ResetStates, Places
<1> QED
  BY <1>2, <1>3

LEMMA ResetsKept ==
  Shape /\ (\/ PionPush \/ CheckForStuckKeys \/ \E t \in Threads : ResetStep(t)
            \/ EndSession \/ SignalingLost \/ CloseAfterReset \/ ThreadsJoined \/ QueueCleared)
    => reset' \in [Threads -> ResetStates]
<1> SUFFICES ASSUME Shape,
                    \/ PionPush \/ CheckForStuckKeys \/ \E t \in Threads : ResetStep(t)
                    \/ EndSession \/ SignalingLost \/ CloseAfterReset \/ ThreadsJoined \/ QueueCleared
             PROVE  reset' \in [Threads -> ResetStates]
  OBVIOUS
<1>0. /\ reset \in [Threads -> ResetStates] /\ pressed \in SUBSET Inputs /\ reported \in SUBSET Inputs
      /\ {"pion", "control", "recovery"} = Threads
  BY DEF Shape, Threads
<1>1. CASE PionPush
  BY <1>0, <1>1, ResetAt DEF PionPush, Places
<1>2. CASE CheckForStuckKeys
  <2>1. PICK ks \in SUBSET pressed :
           reset' = [reset EXCEPT !["recovery"].at = "forward", !["recovery"].out = ks]
    BY <1>2 DEF CheckForStuckKeys
  <2>2. ks \in SUBSET Inputs
    BY <1>0
  <2> QED
    BY <1>0, <2>1, <2>2, ResetAtOut DEF Places
<1>3. ASSUME NEW t \in Threads, ResetState(t) PROVE reset' \in [Threads -> ResetStates]
  <2> DEFINE at == IF pressed = {} THEN "keys" ELSE "forward"
  <2>1. reset' = [reset EXCEPT ![t].at = at, ![t].out = pressed]
    BY <1>3 DEF ResetState
  <2>2. at \in Places
    BY DEF Places
  <2> HIDE DEF at
  <2> QED
    BY <1>0, <2>1, <2>2, ResetAtOut
<1>4. ASSUME NEW t \in Threads, ResetForward(t) PROVE reset' \in [Threads -> ResetStates]
  <2>1. PICK i : reset' = [reset EXCEPT ![t].out = @ \ {i},
                             ![t].at = IF reset[t].out # {i} THEN "forward"
                                       ELSE IF t = "recovery" THEN "idle" ELSE "keys"]
    BY <1>4 DEF ResetForward
  <2> DEFINE at == IF reset[t].out # {i} THEN "forward" ELSE IF t = "recovery" THEN "idle" ELSE "keys"
  <2>2. at \in Places /\ reset' = [reset EXCEPT ![t].out = @ \ {i}, ![t].at = at]
    BY <2>1 DEF Places
  <2> HIDE DEF at
  <2> QED
    BY <1>0, <2>2, ResetOutAt
<1>5. ASSUME NEW t \in Threads, ResetKeys(t) PROVE reset' \in [Threads -> ResetStates]
  <2>1. reset' = [reset EXCEPT ![t].at = "buttons"]
    BY <1>5 DEF ResetKeys
  <2> QED
    BY <1>0, <2>1, ResetAt DEF Places
<1>6. ASSUME NEW t \in Threads, ResetButtons(t) PROVE reset' \in [Threads -> ResetStates]
  <2> DEFINE out == reported \cap Buttons
  <2>1. reset' = [reset EXCEPT ![t].at = "inject", ![t].out = out]
    BY <1>6 DEF ResetButtons
  <2>2. out \in SUBSET Inputs
    BY <1>0
  <2> HIDE DEF out
  <2> QED
    BY <1>0, <2>1, <2>2, ResetAtOut DEF Places
<1>7. ASSUME NEW t \in Threads, ResetInject(t) PROVE reset' \in [Threads -> ResetStates]
  <2>1. reset' = [reset EXCEPT ![t].at = "idle", ![t].out = {}]
    BY <1>7 DEF ResetInject
  <2>2. {} \in SUBSET Inputs
    OBVIOUS
  <2> QED
    BY <1>0, <2>1, <2>2, ResetAtOut DEF Places
<1>8. CASE EndSession
  BY <1>0, <1>8, ResetAt DEF EndSession, Places
<1>9. CASE SignalingLost
  BY <1>0, <1>9, ResetAtThen DEF SignalingLost, Places
<1>10. CASE CloseAfterReset
  BY <1>0, <1>10, ResetThen DEF CloseAfterReset
<1>11. CASE ThreadsJoined
  BY <1>0, <1>11, ResetAtThen DEF ThreadsJoined, Places
<1>12. CASE QueueCleared
  BY <1>0, <1>12, ResetThen DEF QueueCleared
<1> QED
  BY <1>1, <1>2, <1>3, <1>4, <1>5, <1>6, <1>7, <1>8, <1>9, <1>10, <1>11, <1>12 DEF ResetStep

(* The player and the Go library. *)
LEMMA PlayerShape ==
  Shape /\ (\/ \E i \in Inputs : Press(i) \/ Release(i)
            \/ MovePointer \/ ChannelLost \/ FocusChanges) => Shape'
<1> SUFFICES ASSUME Shape,
                    \/ \E i \in Inputs : Press(i) \/ Release(i)
                    \/ MovePointer \/ ChannelLost \/ FocusChanges
             PROVE  Shape'
  OBVIOUS
<1> USE DEF Shape
<1>1. ASSUME NEW i \in Inputs, NEW type \in {"down", "up"}, Transition(type, i) PROVE Shape'
  <2> DEFINE n == IF i \in Keys THEN keySeq + 1 ELSE 0
             m == [type |-> type, input |-> i, session |-> clientSession, seq |-> n]
  <2>1. m \in Sendable
    <3>1. n \in Nat /\ clientSession \in Sessions \cup {NoSession}
      OBVIOUS
    <3> HIDE DEF n
    <3> QED
      BY <3>1, MessagesMade
  <2>2. goKeys' = GoEnqueue(goKeys, m)
    BY <1>1 DEF Transition, m
  <2> HIDE DEF m
  <2>3. goKeys' \in Seq(Sendable)
    BY <2>1, <2>2, Enqueued
  <2> QED
    BY <1>1, <2>3 DEF Transition, handlers
<1>2. CASE MovePointer
  <2> DEFINE m == [Reset EXCEPT !.type = "move", !.session = clientSession]
  <2>1. m \in Sendable
    BY MessagesMade
  <2>2. goMouse' = GoMouseEnqueue(goMouse, m)
    BY <1>2 DEF MovePointer
  <2> HIDE DEF m
  <2>3. goMouse' \in Seq(Sendable)
    BY <2>1, <2>2, Enqueued
  <2> QED
    BY <1>2, <2>3 DEF MovePointer, handlers, windows
<1>3. CASE ChannelLost
  <2>1. goKeys' \in Seq(Sendable) /\ goMouse' \in Seq(Sendable)
    BY <1>3, Enqueued, MessagesMade DEF ChannelLost, ChannelsClose
  <2> QED
    BY <1>3, <2>1 DEF ChannelLost, ChannelsClose, handlers
<1>4. CASE FocusChanges
  BY <1>4 DEF FocusChanges, player, transport, handlers
<1> QED
  BY <1>1, <1>2, <1>3, <1>4 DEF Press, Release

(* The loops up to the handlers. *)
LEMMA LoopShape == Shape /\ (PionTake \/ PionPush \/ ProcTake \/ ProcState \/ CheckForStuckKeys) => Shape'
<1> SUFFICES ASSUME Shape, PionTake \/ PionPush \/ ProcTake \/ ProcState \/ CheckForStuckKeys
             PROVE  Shape'
  OBVIOUS
<1> USE DEF Shape
<1>1. CASE PionTake
  <2>1. \A q \in {goKeys, goMouse} : q # <<>> => Head(q) \in Sendable /\ Tail(q) \in Seq(Sendable)
    OBVIOUS
  <2>2. goKeys' \in Seq(Sendable) /\ goMouse' \in Seq(Sendable)
    BY <1>1, <2>1 DEF PionTake
  <2>3. pion' = Idle \/ pion' \in [at : {"push"}, msg : Sendable]
    BY <1>1, <2>1 DEF PionTake
  <2> QED
    BY <1>1, <2>2, <2>3 DEF PionTake, client, player, handlers, windows
<1>2. CASE PionPush
  <2> DEFINE m == pion.msg
  <2>1. m \in Sendable
    BY <1>2 DEF PionPush, Idle
  <2>2. \/ tq # <<>> /\ tq' = [tq EXCEPT ![Len(tq)] = m]
        \/ tq' = Append(tq, m) \/ tq' = <<Reset, m>> \/ tq' = <<Reset>>
    BY <1>2 DEF PionPush
  <2> HIDE DEF m
  <2>3. tq' \in Seq(Sendable)
    <3>1. <<Reset, m>> \in Seq(Sendable) /\ <<Reset>> \in Seq(Sendable) /\ Append(tq, m) \in Seq(Sendable)
      BY <2>1, Enqueued
    <3>2. tq # <<>> => [tq EXCEPT ![Len(tq)] = m] \in Seq(Sendable)
      BY <2>1
    <3> QED
      BY <2>2, <3>1, <3>2
  <2>4. reset' \in [Threads -> ResetStates]
    BY <1>2, ResetsKept
  <2> QED
    BY <1>2, <2>3, <2>4 DEF PionPush, client, player, handlers, windows
<1>3. CASE ProcTake
  <2>1. Head(tq) \in Sendable /\ Tail(tq) \in Seq(Sendable)
    BY <1>3 DEF ProcTake
  <2> QED
    BY <1>3, <2>1 DEF ProcTake, client, player, handlers, windows
<1>4. CASE ProcState
  <2> DEFINE m == proc.msg
  <2>1. m \in Sendable
    BY <1>4 DEF ProcState, Idle
  <2>2. pressed' \subseteq Inputs
    BY <1>4, <2>1 DEF ProcState, Sendable
  <2>3. {Up(i) : i \in pressed} \subseteq Decided
    <3>1. pressed \subseteq Inputs
      OBVIOUS
    <3>2. \A i \in pressed : Up(i) \in Decided
      BY <3>1, MessagesMade
    <3> HIDE DEF Shape
    <3> QED
      BY <3>2, Zenon
  <2>4. m.type # "reset" => m \in Decided
    BY <2>1 DEF Sendable, Decided
  <2>5. \/ proc' = Idle
        \/ proc' = [at |-> "forward", out |-> {Up(i) : i \in pressed}]
        \/ m.type # "reset" /\ proc' = [at |-> "forward", out |-> {m}]
    BY <1>4 DEF ProcState
  <2> HIDE DEF m
  <2>6. proc' = Idle \/ proc' \in [at : {"forward"}, out : SUBSET Decided]
    BY <2>3, <2>4, <2>5
  <2> QED
    BY <1>4, <2>2, <2>6 DEF ProcState, client, player, handlers, windows
<1>5. CASE CheckForStuckKeys
  <2>1. PICK ks \in SUBSET Inputs :
           /\ pressed' = pressed \ ks
           /\ reset' = [reset EXCEPT !["recovery"].at = "forward", !["recovery"].out = ks]
    BY <1>5 DEF CheckForStuckKeys
  <2>2. reset' \in [Threads -> ResetStates]
    BY <1>5, ResetsKept
  <2> QED
    BY <1>5, <2>1, <2>2 DEF CheckForStuckKeys, player, handlers
<1> QED
  BY <1>1, <1>2, <1>3, <1>4, <1>5

(* Dispatch puts an event into the queue of its handler. *)
LEMMA DispatchShape ==
  ASSUME Shape, NEW e \in Decided, Dispatch(e)
  PROVE  /\ kq' \in Seq(KeyEvents) /\ mq' \in Seq(MouseEvents)
         /\ reported' \subseteq Inputs /\ fsm' \subseteq Keys /\ os' \subseteq Inputs
         /\ kb' = kb /\ ms' = ms
<1> USE DEF Shape
<1>1. CASE e.input \in Keys
  <2>1. e \in KeyEvents
    BY <1>1 DEF Decided, KeyEvents
  <2>2. Append(kq, e) \in Seq(KeyEvents) /\ <<e>> \in Seq(KeyEvents)
    BY <2>1
  <2> QED
    BY <1>1, <2>2 DEF Dispatch, KeyEnqueue, windows
<1>2. CASE e.input \notin Keys
  <2>1. e \in MouseEvents
    BY <1>2 DEF Decided, MouseEvents, Inputs
  <2>2. Append(mq, e) \in Seq(MouseEvents) /\ <<e>> \in Seq(MouseEvents)
    BY <2>1
  <2> QED
    BY <1>2, <2>2 DEF Dispatch, MouseEnqueue, InjectBut, windows
<1> QED
  BY <1>1, <1>2

LEMMA ForwardShape ==
  Shape /\ (ProcForward \/ \E t \in Threads : ResetForward(t)) => Shape'
<1> SUFFICES ASSUME Shape, ProcForward \/ \E t \in Threads : ResetForward(t) PROVE Shape'
  OBVIOUS
<1>1. CASE ProcForward
  <2>1. PICK e \in proc.out :
           Dispatch(e) /\ proc' = IF proc.out = {e} THEN Idle ELSE [proc EXCEPT !.out = @ \ {e}]
    BY <1>1 DEF ProcForward
  <2>2. proc \in [at : {"forward"}, out : SUBSET Decided]
    BY <1>1 DEF ProcForward, Shape, Idle
  <2>3. proc' = Idle \/ proc' \in [at : {"forward"}, out : SUBSET Decided]
    BY <2>1, <2>2
  <2>4. e \in Decided
    BY <2>2
  <2> QED
    BY <1>1, <2>1, <2>3, <2>4, DispatchShape DEF ProcForward, Shape, client, player
<1>2. ASSUME NEW t \in Threads, ResetForward(t) PROVE Shape'
  <2>1. PICK i \in reset[t].out :
           /\ Dispatch(Up(i))
           /\ reset' = [reset EXCEPT ![t].out = @ \ {i},
                          ![t].at = IF reset[t].out # {i} THEN "forward"
                                    ELSE IF t = "recovery" THEN "idle" ELSE "keys"]
    BY <1>2 DEF ResetForward
  <2>2. reset \in [Threads -> ResetStates]
    BY DEF Shape
  <2>3. reset' \in [Threads -> ResetStates]
    BY <1>2, ResetsKept DEF ResetStep
  <2>4. Up(i) \in Decided
    BY <2>2, MessagesMade DEF ResetStates
  <2>5. /\ kq' \in Seq(KeyEvents) /\ mq' \in Seq(MouseEvents)
        /\ reported' \subseteq Inputs /\ fsm' \subseteq Keys /\ os' \subseteq Inputs
        /\ kb' = kb /\ ms' = ms
    BY <2>1, <2>4, DispatchShape
  <2>6. UNCHANGED <<client, transport, phase>>
    BY <1>2 DEF ResetForward
  <2> QED
    BY <2>3, <2>5, <2>6 DEF Shape, client, player, transport
<1> QED
  BY <1>1, <1>2

LEMMA InjectedInputs ==
  ASSUME NEW D, NEW U, NEW W, InjectBut(D, U, W), os \subseteq Inputs, D \subseteq Inputs
  PROVE  os' \subseteq Inputs
  BY DEF InjectBut

LEMMA EventInputs ==
  ASSUME NEW e, e.input \in Inputs, InjectEvent(e), os \subseteq Inputs
  PROVE  os' \subseteq Inputs
  BY InjectedInputs DEF InjectEvent, Inject

(* The threads of the handlers. *)
LEMMA HandlerShape ==
  Shape /\ (\/ KeyTake \/ KeyFsm \/ KeyInject \/ MouseTake \/ MouseInject \/ SpillRelease \/ SpillForget
            \/ MouseLeaves \/ KeysLeave) => Shape'
<1> SUFFICES ASSUME Shape,
                    \/ KeyTake \/ KeyFsm \/ KeyInject \/ MouseTake \/ MouseInject \/ SpillRelease
                    \/ SpillForget \/ MouseLeaves \/ KeysLeave
             PROVE  Shape'
  OBVIOUS
<1> USE DEF Shape
<1>1. CASE KeyTake
  <2>1. Head(kq) \in KeyEvents /\ Tail(kq) \in Seq(KeyEvents)
    BY <1>1 DEF KeyTake
  <2> DEFINE e == Head(kq)
  <2>2. kb' = Idle \/ kb' = [at |-> "fsm", ev |-> e]
    BY <1>1 DEF KeyTake
  <2>3. e.input \in Keys
    BY <2>1 DEF KeyEvents
  <2>4. reported' \subseteq Inputs
    BY <1>1, <2>3 DEF KeyTake, Inputs
  <2>5. os' \subseteq Inputs /\ fsm' \subseteq Keys
    BY <1>1, InjectedInputs DEF KeyTake, ProcessSequence, ReleaseFsm, windows
  <2>6. kq' \in Seq(KeyEvents)
    BY <1>1, <2>1 DEF KeyTake
  <2> HIDE DEF e
  <2> QED
    BY <1>1, <2>1, <2>2, <2>4, <2>5, <2>6 DEF KeyTake, client, player, transport, e
<1>2. CASE KeyFsm
  <2>1. kb.ev \in KeyEvents /\ kb.ev.input \in Keys
    BY <1>2 DEF KeyFsm, KeyEvents, Idle, Leaving, Gone
  <2>2. fsm' \subseteq Keys
    BY <1>2, <2>1 DEF KeyFsm
  <2>3. kb' \in {Idle, Leaving, Gone} \/ kb' \in [at : {"fsm", "inject"}, ev : KeyEvents]
    <3>1. kb \in [at : {"fsm", "inject"}, ev : KeyEvents]
      BY <1>2 DEF KeyFsm, Idle, Leaving, Gone
    <3>2. kb' \in {Idle, Leaving} \/ kb' = [kb EXCEPT !.at = "inject"]
      BY <1>2 DEF KeyFsm, Done
    <3> HIDE DEF Shape
    <3> QED
      BY <3>1, <3>2
  <2> QED
    BY <1>2, <2>2, <2>3 DEF KeyFsm, client, player, transport, windows
<1>3. CASE KeyInject
  <2>1. kb.ev.input \in Inputs
    BY <1>3 DEF KeyInject, KeyEvents, Idle, Leaving, Gone, Inputs
  <2>2. os' \subseteq Inputs
    BY <1>3, <2>1, EventInputs DEF KeyInject
  <2> QED
    BY <1>3, <2>2 DEF KeyInject, Done, client, player, transport
<1>4. CASE MouseTake
  <2>1. Head(mq) \in MouseEvents /\ Tail(mq) \in Seq(MouseEvents)
    BY <1>4 DEF MouseTake
  <2>2. Head(mq).type # "move" => Head(mq) \in {e \in MouseEvents : e.input \in Buttons}
    BY <2>1 DEF MouseEvents
  <2>3. reported' \subseteq Inputs
    BY <1>4, <2>1 DEF MouseTake, MouseEvents, Inputs
  <2>4. ms' = Idle \/ ms' \in [at : {"inject"}, ev : {e \in MouseEvents : e.input \in Buttons}]
    BY <1>4, <2>2 DEF MouseTake
  <2> QED
    BY <1>4, <2>1, <2>3, <2>4 DEF MouseTake, client, player, transport, windows
<1>5. CASE MouseInject
  <2>1. ms.ev.input \in Inputs
    BY <1>5 DEF MouseInject, Idle, Leaving, Gone, Inputs
  <2>2. os' \subseteq Inputs
    BY <1>5, <2>1, EventInputs DEF MouseInject
  <2> QED
    BY <1>5, <2>2 DEF MouseInject, Done, client, player, transport
<1>6. CASE SpillRelease
  <2>1. os' \subseteq Inputs /\ fsm' \subseteq Keys
    <3>1. fsm' = {} /\ InjectBut({}, fsm, InHand(kb)) /\ os \subseteq Inputs
      BY <1>6 DEF SpillRelease, ReleaseFsm
    <3> HIDE DEF Shape
    <3> QED
      BY <3>1, InjectedInputs
  <2> QED
    BY <1>6, <2>1 DEF SpillRelease, client, player, transport
<1>7. CASE SpillForget
  BY <1>7 DEF SpillForget, client, player, transport
<1>8. CASE MouseLeaves
  <2>1. os' \subseteq Inputs
    <3>1. InjectBut({}, reported \cap Buttons, {}) /\ os \subseteq Inputs
      BY <1>8 DEF MouseLeaves, Inject
    <3> HIDE DEF Shape
    <3> QED
      BY <3>1, InjectedInputs
  <2> QED
    BY <1>8, <2>1 DEF MouseLeaves, client, player, transport
<1>9. CASE KeysLeave
  <2>1. os' \subseteq Inputs
    <3>1. InjectBut({}, reported \cap Keys, {}) /\ os \subseteq Inputs
      BY <1>9 DEF KeysLeave, Inject
    <3> HIDE DEF Shape
    <3> QED
      BY <3>1, InjectedInputs
  <2> QED
    BY <1>9, <2>1 DEF KeysLeave, client, player, transport
<1> QED
  BY <1>1, <1>2, <1>3, <1>4, <1>5, <1>6, <1>7, <1>8, <1>9

(* The resets, and what starts and stops. *)
LEMMA ControlShape ==
  Shape /\ (\/ \E t \in Threads : ResetState(t) \/ ResetKeys(t) \/ ResetButtons(t) \/ ResetInject(t)
            \/ \E s \in Sessions : AuthorizeSession(s)
            \/ EndSession \/ SignalingLost \/ CloseAfterReset
            \/ Stop \/ ThreadsJoined \/ QueueCleared \/ Stopped \/ Start) => Shape'
<1> SUFFICES ASSUME Shape,
                    \/ \E t \in Threads : ResetState(t) \/ ResetKeys(t) \/ ResetButtons(t) \/ ResetInject(t)
                    \/ \E s \in Sessions : AuthorizeSession(s)
                    \/ EndSession \/ SignalingLost \/ CloseAfterReset
                    \/ Stop \/ ThreadsJoined \/ QueueCleared \/ Stopped \/ Start
             PROVE  Shape'
  OBVIOUS
<1> USE DEF Shape
<1>1. ASSUME NEW t \in Threads, ResetState(t) PROVE Shape'
  <2>1. reset' \in [Threads -> ResetStates]
    BY <1>1, ResetsKept DEF ResetStep
  <2> QED
    BY <1>1, <2>1 DEF ResetState, client, player, handlers
<1>2. ASSUME NEW t \in Threads, ResetKeys(t) PROVE Shape'
  <2>1. reset' \in [Threads -> ResetStates]
    BY <1>2, ResetsKept DEF ResetStep
  <2>2. os' \subseteq Inputs /\ fsm' \subseteq Keys
    <3>1. InjectBut({}, fsm, InHand(kb)) /\ os \subseteq Inputs /\ fsm' = {}
      BY <1>2 DEF ResetKeys, ReleaseFsm
    <3> HIDE DEF Shape
    <3> QED
      BY <3>1, InjectedInputs
  <2> QED
    BY <1>2, <2>1, <2>2 DEF ResetKeys, client, player, transport
<1>3. ASSUME NEW t \in Threads, ResetButtons(t) PROVE Shape'
  <2>1. reset' \in [Threads -> ResetStates]
    BY <1>3, ResetsKept DEF ResetStep
  <2> QED
    BY <1>3, <2>1 DEF ResetButtons, client, player, transport
<1>4. ASSUME NEW t \in Threads, ResetInject(t) PROVE Shape'
  <2>1. reset' \in [Threads -> ResetStates]
    BY <1>4, ResetsKept DEF ResetStep
  <2>2. os' \subseteq Inputs
    <3>1. InjectBut({}, reset[t].out, {}) /\ os \subseteq Inputs
      BY <1>4 DEF ResetInject, Inject
    <3> HIDE DEF Shape
    <3> QED
      BY <3>1, InjectedInputs
  <2> QED
    BY <1>4, <2>1, <2>2 DEF ResetInject, client, player, transport, handlers
<1>5. ASSUME NEW s \in Sessions, AuthorizeSession(s) PROVE Shape'
  BY <1>5 DEF AuthorizeSession, handlers, windows
<1>6. ASSUME ChannelsClose
      PROVE  /\ goKeys' \in Seq(Sendable) /\ goMouse' \in Seq(Sendable)
             /\ clientSession' = NoSession /\ keySeq' = keySeq
  BY <1>6, Enqueued, MessagesMade DEF ChannelsClose
<1>7. CASE EndSession
  <2>1. reset' \in [Threads -> ResetStates]
    BY <1>7, ResetsKept
  <2> QED
    BY <1>6, <1>7, <2>1 DEF EndSession, handlers
<1>8. CASE SignalingLost
  <2>1. reset' \in [Threads -> ResetStates]
    BY <1>8, ResetsKept
  <2> QED
    BY <1>8, <2>1 DEF SignalingLost, player, transport, handlers, windows
<1>9. CASE CloseAfterReset
  <2>1. reset' \in [Threads -> ResetStates]
    BY <1>9, ResetsKept
  <2> QED
    BY <1>6, <1>9, <2>1 DEF CloseAfterReset, handlers
<1>10. CASE Stop
  BY <1>6, <1>10 DEF Stop, handlers
<1>11. CASE ThreadsJoined
  <2>1. reset' \in [Threads -> ResetStates]
    BY <1>11, ResetsKept
  <2> QED
    BY <1>11, <2>1 DEF ThreadsJoined, client, player, transport, handlers, windows
<1>12. CASE QueueCleared
  <2>1. reset' \in [Threads -> ResetStates]
    BY <1>12, ResetsKept
  <2> QED
    BY <1>12, <2>1 DEF QueueCleared, client, player, handlers, windows
<1>13. CASE Stopped
  BY <1>13 DEF Stopped, client, player, transport, handlers, windows
<1>14. CASE Start
  BY <1>14 DEF Start, client, player, transport, windows
<1> QED
  BY <1>1, <1>2, <1>3, <1>4, <1>5, <1>7, <1>8, <1>9, <1>10, <1>11, <1>12, <1>13, <1>14

LEMMA ShapeStep == Shape /\ [Next]_vars => Shape'
<1>1. Shape /\ UNCHANGED vars => Shape'
  BY DEF Shape, vars, client, player, transport, handlers, windows
<1> QED
  BY <1>1, PlayerShape, LoopShape, ForwardShape, HandlerShape, ControlShape
     DEF Next, Control, Pipeline, ResetStep

-----------------------------------------------------------------------------
(* Which resets are at work, and when. *)

Steady == UNCHANGED <<reset, phase, pion>>

LEMMA SteadySteps ==
  [Next]_vars =>
      \/ Steady
      \/ PionTake \/ PionPush \/ CheckForStuckKeys
      \/ \E t \in Threads : ResetStep(t)
      \/ EndSession \/ SignalingLost \/ CloseAfterReset \/ Stop \/ ThreadsJoined \/ QueueCleared
      \/ Stopped \/ Start
<1> USE DEF Steady
<1>1. ASSUME \/ \E i \in Inputs : Press(i) \/ Release(i)
             \/ MovePointer \/ ChannelLost \/ FocusChanges \/ \E s \in Sessions : AuthorizeSession(s)
      PROVE  Steady
  BY <1>1 DEF Press, Release, Transition, MovePointer, ChannelLost, FocusChanges, AuthorizeSession, transport
<1>2. ASSUME ProcTake \/ ProcState \/ ProcForward PROVE Steady
  BY <1>2 DEF ProcTake, ProcState, ProcForward
<1>3. ASSUME KeyTake \/ KeyFsm \/ KeyInject \/ MouseTake \/ MouseInject \/ SpillRelease \/ SpillForget
             \/ MouseLeaves \/ KeysLeave
      PROVE  Steady
  BY <1>3 DEF KeyTake, KeyFsm, KeyInject, MouseTake, MouseInject, SpillRelease, SpillForget, MouseLeaves,
       KeysLeave, transport
<1>4. UNCHANGED vars => Steady
  BY DEF vars, transport
<1> QED
  BY <1>1, <1>2, <1>3, <1>4 DEF Next, Control, Pipeline

LEMMA RestingStep == Shape /\ Resting /\ [Next]_vars => Resting'
<1> SUFFICES ASSUME Shape, Resting, [Next]_vars PROVE Resting'
  OBVIOUS
<1>0. reset \in [Threads -> ResetStates] /\ Threads = {"pion", "control", "recovery"}
  BY DEF Shape, Threads
<1> USE DEF Resting
<1>1. CASE Steady
  BY <1>1 DEF Steady
<1>2. CASE PionTake
  BY <1>2 DEF PionTake
<1>3. CASE PionPush
  BY <1>0, <1>3 DEF PionPush, Idle, ResetStates
<1>4. CASE CheckForStuckKeys
  <2>1. PICK ks : reset' = [reset EXCEPT !["recovery"].at = "forward", !["recovery"].out = ks]
    BY <1>4 DEF CheckForStuckKeys
  <2> QED
    BY <1>0, <1>4, <2>1 DEF CheckForStuckKeys, ResetStates
<1>5. ASSUME NEW t \in Threads, ResetStep(t) PROVE Resting'
  <2>1. reset[t].at # "idle" /\ phase' = phase
    BY <1>5 DEF ResetStep, ResetState, ResetForward, ResetKeys, ResetButtons, ResetInject
  <2>2. \A u \in Threads : u # t => reset'[u] = reset[u]
    BY <1>0, <1>5 DEF ResetStep, ResetState, ResetForward, ResetKeys, ResetButtons, ResetInject
  <2>3. pion' = pion
    BY <1>5 DEF ResetStep, ResetState, ResetForward, ResetKeys, ResetButtons, ResetInject, transport
  <2>4. t = "recovery" => reset'[t].at \in {"idle", "forward"}
    <3> SUFFICES ASSUME t = "recovery" PROVE reset'[t].at \in {"idle", "forward"}
      OBVIOUS
    <3>1. ResetForward(t)
      BY <1>5 DEF ResetStep, ResetState, ResetKeys, ResetButtons, ResetInject
    <3> QED
      BY <1>0, <3>1 DEF ResetForward, ResetStates
  <2>5. \A u \in Threads : reset[u].at = "idle" => reset'[u].at = "idle"
    BY <2>1, <2>2
  <2>6. reset'["recovery"].at \in {"idle", "forward"}
    BY <1>0, <2>2, <2>4
  <2>7. /\ reset["pion"].at = "idle" => reset'["pion"].at = "idle"
        /\ reset["control"].at = "idle" => reset'["control"].at = "idle"
    BY <1>0, <2>5
  <2> QED
    BY <2>1, <2>3, <2>6, <2>7
<1>6. CASE EndSession \/ SignalingLost \/ CloseAfterReset
  <2>1. phase = "running" /\ phase' = phase /\ pion' = pion
    BY <1>6 DEF EndSession, SignalingLost, CloseAfterReset, ControlIdle, transport
  <2>2. \A u \in Threads : u # "control" => reset'[u] = reset[u]
    BY <1>0, <1>6 DEF EndSession, SignalingLost, CloseAfterReset
  <2> QED
    BY <1>0, <2>1, <2>2
<1>7. CASE Stop
  BY <1>7 DEF Stop, ControlIdle
<1>8. CASE ThreadsJoined
  <2>1. \A u \in Threads : u # "control" => reset'[u] = reset[u]
    BY <1>0, <1>8 DEF ThreadsJoined
  <2> QED
    BY <1>0, <1>8, <2>1 DEF ThreadsJoined, transport
<1>9. CASE QueueCleared
  <2>1. \A u \in Threads : reset'[u].at = reset[u].at
    BY <1>0, <1>9 DEF QueueCleared, ResetStates
  <2> QED
    BY <1>0, <1>9, <2>1 DEF QueueCleared
<1>10. CASE Stopped
  BY <1>10 DEF Stopped, transport
<1>11. CASE Start
  BY <1>11 DEF Start, transport
<1> QED
  BY <1>1, <1>2, <1>3, <1>4, <1>5, <1>6, <1>7, <1>8, <1>9, <1>10, <1>11, SteadySteps

-----------------------------------------------------------------------------
(* What a step does to what the two handlers hold. *)

\* A step that injects nothing and leaves the handlers as they are, but for what is
\* reported of keys.
Untouched ==
    /\ UNCHANGED <<os, withheld, fsm, kb, ms>>
    /\ overtaken \subseteq overtaken'
    /\ \A b \in Buttons : b \in reported' <=> b \in reported
    /\ \A t \in Threads : reset[t].at = "inject" => reset'[t] = reset[t]
    /\ (KeysDone' => KeysDone) /\ (ButtonsDone' => ButtonsDone)
    /\ phase' = "stopped" => \/ phase = "stopped"
                             \/ kb = Gone /\ ms = Gone

Handling ==
    \/ ProcForward \/ KeyTake \/ KeyFsm \/ KeyInject \/ SpillRelease \/ MouseTake \/ MouseInject
    \/ \E t \in Threads : ResetForward(t) \/ ResetKeys(t) \/ ResetButtons(t) \/ ResetInject(t)
    \/ MouseLeaves \/ KeysLeave \/ Start

LEMMA HandlingSteps == Shape /\ Resting /\ [Next]_vars => Untouched \/ Handling
<1> SUFFICES ASSUME Shape, Resting, [Next]_vars PROVE Untouched \/ Handling
  OBVIOUS
<1>0. reset \in [Threads -> ResetStates] /\ Threads = {"pion", "control", "recovery"}
  BY DEF Shape, Threads
<1> HIDE DEF Shape
<1> USE DEF Untouched
<1>1. ASSUME \/ \E i \in Inputs : Press(i) \/ Release(i)
             \/ MovePointer \/ ChannelLost \/ FocusChanges \/ \E s \in Sessions : AuthorizeSession(s)
             \/ PionTake \/ ProcTake \/ ProcState \/ UNCHANGED vars
      PROVE  Untouched
  <2>1. UNCHANGED <<os, withheld, overtaken, handlers, reset, phase>>
    BY <1>1 DEF Press, Release, Transition, MovePointer, ChannelLost, FocusChanges, AuthorizeSession, PionTake,
         ProcTake, ProcState, vars, windows, history, transport
  <2> QED
    BY <2>1 DEF handlers, KeysDone, ButtonsDone
<1>2. CASE PionPush
  <2>1. UNCHANGED <<windows, handlers, phase>> /\ pion # Idle
    BY <1>2 DEF PionPush, Idle
  <2>2. \A t \in Threads : t # "pion" => reset'[t] = reset[t]
    BY <1>0, <1>2 DEF PionPush
  <2> QED
    BY <1>0, <2>1, <2>2 DEF handlers, windows, history, KeysDone, ButtonsDone, Resting
<1>3. CASE CheckForStuckKeys
  <2>1. UNCHANGED <<os, withheld, handlers, phase>> /\ overtaken \subseteq overtaken'
    BY <1>3 DEF CheckForStuckKeys
  <2>2. \A t \in Threads : t # "recovery" => reset'[t] = reset[t]
    BY <1>0, <1>3 DEF CheckForStuckKeys
  <2> QED
    BY <1>0, <2>1, <2>2 DEF handlers, KeysDone, ButtonsDone, Resting
<1>4. ASSUME NEW t \in Threads, ResetState(t) PROVE Untouched
  <2>1. UNCHANGED <<os, withheld, handlers, phase>> /\ overtaken \subseteq overtaken' /\ reset[t].at = "state"
    BY <1>4 DEF ResetState
  <2>2. \A u \in Threads : u # t => reset'[u] = reset[u]
    BY <1>0, <1>4 DEF ResetState
  <2>3. reset'[t].at \in {"keys", "forward"}
    BY <1>0, <1>4 DEF ResetState, ResetStates
  <2> QED
    BY <1>0, <2>1, <2>2, <2>3 DEF handlers, KeysDone, ButtonsDone
<1>5. CASE EndSession \/ SignalingLost \/ CloseAfterReset
  <2>1. UNCHANGED <<os, withheld, handlers, phase>> /\ overtaken \subseteq overtaken'
        /\ reset["control"].at = "idle" /\ phase = "running"
    BY <1>5 DEF EndSession, SignalingLost, CloseAfterReset, ControlIdle, windows, history
  <2>2. \A t \in Threads : t # "control" => reset'[t] = reset[t]
    BY <1>0, <1>5 DEF EndSession, SignalingLost, CloseAfterReset
  <2> QED
    BY <1>0, <2>1, <2>2 DEF handlers, KeysDone, ButtonsDone
<1>6. CASE Stop
  BY <1>6 DEF Stop, handlers, KeysDone, ButtonsDone
<1>7. CASE ThreadsJoined
  <2>1. UNCHANGED <<windows, handlers>> /\ phase = "joining" /\ phase' = "resetting"
    BY <1>7 DEF ThreadsJoined
  <2>2. \A t \in Threads : t # "control" => reset'[t] = reset[t]
    BY <1>0, <1>7 DEF ThreadsJoined
  <2>3. reset'["control"].at = "state" /\ reset["control"].at = "idle"
    BY <1>0, <1>7, <2>1 DEF ThreadsJoined, ResetStates, Resting
  <2> QED
    BY <1>0, <2>1, <2>2, <2>3 DEF handlers, windows, history, KeysDone, ButtonsDone
<1>8. CASE QueueCleared
  <2>1. \A t \in Threads : reset[t].at = "inject" => reset'[t] = reset[t]
    BY <1>0, <1>8 DEF QueueCleared
  <2> QED
    BY <1>8, <2>1 DEF QueueCleared, handlers, windows, history, KeysDone, ButtonsDone
<1>9. CASE Stopped
  BY <1>9 DEF Stopped, handlers, windows, history, KeysDone, ButtonsDone
<1>10. CASE SpillForget
  <2>1. reported' = reported \ Keys /\ UNCHANGED <<os, withheld, fsm, kb, ms, reset, phase>>
        /\ overtaken \subseteq overtaken'
    BY <1>10 DEF SpillForget
  <2> QED
    BY <2>1, InputAssumption DEF KeysDone, ButtonsDone
<1> QED
  BY <1>1, <1>2, <1>3, <1>4, <1>5, <1>6, <1>7, <1>8, <1>9, <1>10
     DEF Next, Control, Pipeline, ResetStep, Handling

LEMMA HandsGoneStep == Shape /\ Resting /\ HandsGone /\ [Next]_vars => HandsGone'
<1> SUFFICES ASSUME Shape, Resting, HandsGone, [Next]_vars, phase' = "stopped" PROVE kb' = Gone /\ ms' = Gone
  BY DEF HandsGone
<1>1. CASE Untouched
  BY <1>1 DEF Untouched, HandsGone
<1>2. CASE Handling
  <2>1. phase = "stopped"
    BY <1>2 DEF Handling, ProcForward, KeyTake, KeyFsm, KeyInject, SpillRelease, MouseTake, MouseInject,
         ResetForward, ResetKeys, ResetButtons, ResetInject, MouseLeaves, KeysLeave, Start
  <2>2. kb = Gone /\ ms = Gone
    BY <2>1 DEF HandsGone
  <2>3. ASSUME \/ ProcForward \/ SpillRelease
               \/ \E t \in Threads : ResetForward(t) \/ ResetKeys(t) \/ ResetButtons(t) \/ ResetInject(t)
        PROVE  kb' = kb /\ ms' = ms
    BY <2>3 DEF ProcForward, Dispatch, SpillRelease, ResetForward, ResetKeys, ResetButtons, ResetInject, handlers
  <2> QED
    BY <1>2, <2>1, <2>2, <2>3 DEF Handling, KeyTake, KeyFsm, KeyInject, MouseTake, MouseInject, MouseLeaves,
         KeysLeave, Start, Gone, Idle, Leaving
<1> QED
  BY <1>1, <1>2, HandlingSteps

-----------------------------------------------------------------------------
(* What SendInput changes. *)

LEMMA Hand ==
  ASSUME NEW thread, NEW i
  PROVE  i \in InHand(thread) <=>
             thread.at \in {"fsm", "inject"} /\ thread.ev.type = "down" /\ thread.ev.input = i
  BY DEF InHand, Downs

LEMMA Injected ==
  ASSUME NEW D, NEW U, NEW W, InjectBut(D, U, W)
  PROVE  /\ \A i \in Uncovered' : i \notin U /\ i \notin W /\ (i \in D \/ i \in Uncovered)
         /\ W \subseteq overtaken'
         /\ \A i \in InHand(kb) \cup InHand(ms) : i \in overtaken => i \in overtaken'
         /\ U = {} => overtaken \subseteq overtaken'
<1>1. InHand(kb) \cup InHand(ms) \subseteq InTheHandlers
  BY DEF InTheHandlers
<1> DEFINE H == InTheHandlers
           undone == IF focus THEN U \ (InGo \cup InThePipe \cup H) ELSE {}
<1>2. /\ os' = IF focus THEN (os \cup D) \ U ELSE os
      /\ withheld' = IF focus THEN withheld \ (D \cup U) ELSE withheld \cup (U \cap os)
      /\ overtaken' = (overtaken \ undone) \cup W
  BY DEF InjectBut
<1>3. undone \subseteq U /\ undone \cap H = {}
  OBVIOUS
<1> HIDE DEF H, undone
<1>4. InHand(kb) \cup InHand(ms) \subseteq H
  BY <1>1 DEF H
<1>5. \A i \in Uncovered' : i \notin U /\ i \notin W /\ (i \in D \/ i \in Uncovered)
  BY <1>2, <1>3 DEF Uncovered
<1> QED
  BY <1>2, <1>3, <1>4, <1>5

LEMMA UntouchedHolds == Shape /\ Holds /\ Untouched => Holds'
<1> SUFFICES ASSUME Shape, Holds, Untouched PROVE Holds'
  OBVIOUS
<1>1. UNCHANGED <<os, withheld, fsm, kb, ms>> /\ overtaken \subseteq overtaken'
  BY DEF Untouched
<1>2. Uncovered' \subseteq Uncovered
  BY <1>1 DEF Uncovered
<1>3. HeldKeys'
  BY <1>1, <1>2 DEF Holds, HeldKeys, Releasing
<1>4. HeldButtons'
  BY <1>1, <1>2 DEF Holds, HeldButtons, Releasing, Untouched
<1>5. PressedKey'
  BY <1>1 DEF Holds, PressedKey, Pressing
<1>6. PressedButton'
  <2>1. Pressing(ms) => ms.ev.input \in Buttons
    BY DEF Pressing, Shape, Idle, Leaving, Gone
  <2> QED
    BY <1>1, <2>1 DEF Holds, PressedButton, Pressing, Untouched
<1>7. KeysEmptied'
  BY <1>1, <1>2 DEF Holds, KeysEmptied, Releasing, InHand, Untouched
<1>8. ButtonsEmptied'
  BY <1>1, <1>2 DEF Holds, ButtonsEmptied, Releasing, InHand, Untouched, Threads
<1> QED
  BY <1>3, <1>4, <1>5, <1>6, <1>7, <1>8 DEF Holds

-----------------------------------------------------------------------------
(* What a handler or a reset does. *)

SameButtons == \A b \in Buttons : b \in reported' <=> b \in reported

\* A release of all keys or buttons at once, on whichever thread.
LEMMA Released ==
  ASSUME Shape, Holds, NEW U, NEW W, InjectBut({}, U, W), kb' = kb, ms' = ms,
         fsm' = fsm \/ (fsm = U /\ fsm' = {} /\ InHand(kb) \subseteq W),
         SameButtons \/ (U = reported \cap Buttons /\ InHand(ms) \subseteq W),
         \A t \in Threads : reset[t].at = "inject" => reset'[t] = reset[t] \/ reset[t].out \subseteq U,
         KeysDone' => KeysDone \/ (fsm = U /\ InHand(kb) \subseteq W),
         ButtonsDone' => ButtonsDone
  PROVE  Holds'
<1>0. /\ \A i \in Uncovered' : i \notin U /\ i \in Uncovered
      /\ W \subseteq overtaken'
      /\ \A i \in InHand(kb) \cup InHand(ms) : i \in overtaken => i \in overtaken'
  <2>1. /\ \A i \in Uncovered' : i \notin U /\ i \notin W /\ (i \in {} \/ i \in Uncovered)
        /\ W \subseteq overtaken'
        /\ \A i \in InHand(kb) \cup InHand(ms) : i \in overtaken => i \in overtaken'
    BY Injected
  <2> QED
    BY <2>1
<1>1. /\ HeldKeys /\ HeldButtons /\ PressedKey /\ PressedButton /\ KeysEmptied /\ ButtonsEmptied
  BY DEF Holds
<1> HIDE DEF Shape
<1>2. HeldKeys'
  BY <1>0, <1>1 DEF HeldKeys, Releasing
<1>3. HeldButtons'
  BY <1>0, <1>1 DEF HeldButtons, Releasing, SameButtons
<1>4. PressedKey'
  <2>1. Pressing(kb) => kb.ev.input \in InHand(kb)
    BY Hand DEF Pressing
  <2> QED
    BY <1>0, <1>1, <2>1 DEF PressedKey, Pressing
<1>5. PressedButton'
  <2>1. Pressing(ms) => ms.ev.input \in InHand(ms)
    BY Hand DEF Pressing
  <2>2. Pressing(ms) => ms.ev.input \in Buttons
    BY DEF Pressing, Shape, Idle, Leaving, Gone
  <2> QED
    BY <1>0, <1>1, <2>1, <2>2 DEF PressedButton, Pressing, SameButtons
<1>6. KeysEmptied'
  <2>1. InHand(kb)' = InHand(kb)
    BY DEF InHand
  <2>2. CASE KeysDone
    BY <1>0, <1>1, <2>1, <2>2 DEF KeysEmptied, Releasing
  <2>3. CASE fsm = U /\ InHand(kb) \subseteq W
    BY <1>0, <1>1, <2>1, <2>3 DEF KeysEmptied, HeldKeys, Releasing
  <2> QED
    BY <2>2, <2>3 DEF KeysEmptied
<1>7. ButtonsEmptied'
  <2>1. InHand(ms)' = InHand(ms)
    BY DEF InHand
  <2> QED
    BY <1>0, <1>1, <2>1 DEF ButtonsEmptied, Releasing, Threads
<1> QED
  BY <1>2, <1>3, <1>4, <1>5, <1>6, <1>7 DEF Holds

\* A queue that overflows: nothing, or a release of the buttons.
LEMMA DispatchHolds ==
  ASSUME Shape, Holds, NEW e, Dispatch(e), phase' = phase,
         \A t \in Threads : reset[t].at = "inject" => reset'[t] = reset[t],
         KeysDone' => KeysDone, ButtonsDone' => ButtonsDone
  PROVE  Holds'
<1>1. CASE UNCHANGED <<windows, reported, fsm>>
  <2>1. Untouched
    BY <1>1 DEF Dispatch, windows, history, Untouched
  <2> QED
    BY <2>1, UntouchedHolds
<1>2. CASE fsm' = fsm /\ InjectBut({}, reported \cap Buttons, InHand(ms))
  <2> DEFINE U == reported \cap Buttons
             W == InHand(ms)
  <2>1. InjectBut({}, U, W) /\ U = reported \cap Buttons /\ InHand(ms) \subseteq W
    BY <1>2
  <2>2. kb' = kb /\ ms' = ms
    BY DEF Dispatch
  <2>3. /\ fsm' = fsm \/ (fsm = U /\ fsm' = {} /\ InHand(kb) \subseteq W)
        /\ SameButtons \/ (U = reported \cap Buttons /\ InHand(ms) \subseteq W)
        /\ \A t \in Threads : reset[t].at = "inject" => reset'[t] = reset[t] \/ reset[t].out \subseteq U
        /\ KeysDone' => KeysDone \/ (fsm = U /\ InHand(kb) \subseteq W)
    BY <1>2, <2>1
  <2> HIDE DEF U, W
  <2> QED
    BY <2>1, <2>2, <2>3, Released
<1> QED
  BY <1>1, <1>2 DEF Dispatch, KeyEnqueue, MouseEnqueue

LEMMA ForwardHolds ==
  ASSUME Shape, Holds, ProcForward \/ \E t \in Threads : ResetForward(t) PROVE Holds'
<1>1. CASE ProcForward
  <2>1. PICK e : Dispatch(e)
    BY <1>1 DEF ProcForward
  <2>2. phase' = phase /\ reset' = reset
    BY <1>1 DEF ProcForward
  <2> QED
    BY <2>1, <2>2, DispatchHolds DEF KeysDone, ButtonsDone
<1>2. ASSUME NEW t \in Threads, ResetForward(t) PROVE Holds'
  <2>1. PICK i : /\ Dispatch(Up(i))
                 /\ reset' = [reset EXCEPT ![t].out = @ \ {i},
                                ![t].at = IF reset[t].out # {i} THEN "forward"
                                          ELSE IF t = "recovery" THEN "idle" ELSE "keys"]
    BY <1>2 DEF ResetForward
  <2>2. phase' = phase /\ reset[t].at = "forward" /\ reset \in [Threads -> ResetStates]
    BY <1>2 DEF ResetForward, Shape
  <2>3. \A u \in Threads : u # t => reset'[u] = reset[u]
    BY <2>1, <2>2
  <2>4. reset'[t].at \in {"forward", "idle", "keys"} /\ (t = "control" => reset'[t].at # "idle")
    BY <2>1, <2>2 DEF ResetStates
  <2>5. /\ \A u \in Threads : reset[u].at = "inject" => reset'[u] = reset[u]
        /\ (KeysDone' => KeysDone) /\ (ButtonsDone' => ButtonsDone)
    <3>1. CASE t = "control"
      BY <2>2, <2>3, <2>4, <3>1 DEF KeysDone, ButtonsDone
    <3>2. CASE t # "control"
      BY <2>2, <2>3, <3>2 DEF KeysDone, ButtonsDone, Threads
    <3> QED
      BY <3>1, <3>2
  <2> QED
    BY <2>1, <2>2, <2>5, DispatchHolds
<1> QED
  BY <1>1, <1>2

LEMMA ReleaseAllHolds ==
  ASSUME Shape, Resting, Holds,
         \/ SpillRelease
         \/ \E t \in Threads : ResetKeys(t) \/ ResetInject(t)
  PROVE  Holds'
<1> DEFINE U == fsm
           W == InHand(kb)
<1>1. ASSUME ReleaseFsm PROVE InjectBut({}, U, W) /\ fsm = U /\ fsm' = {} /\ InHand(kb) \subseteq W
  BY <1>1 DEF ReleaseFsm
<1> HIDE DEF U, W
<1>2. CASE SpillRelease
  <2>1. ReleaseFsm /\ UNCHANGED <<kb, ms, reported, reset, phase>>
    BY <1>2 DEF SpillRelease
  <2> QED
    BY <1>1, <2>1, Released DEF SameButtons, KeysDone, ButtonsDone
<1>3. ASSUME NEW t \in Threads, ResetKeys(t) PROVE Holds'
  <2>1. ReleaseFsm /\ UNCHANGED <<kb, ms, reported, phase>> /\ reset[t].at = "keys"
    BY <1>3 DEF ResetKeys
  <2>2. /\ \A u \in Threads : u # t => reset'[u] = reset[u]
        /\ reset'[t].at = "buttons"
    BY <1>3 DEF ResetKeys, Shape, ResetStates
  <2>3. \A u \in Threads : reset[u].at = "inject" => reset'[u] = reset[u]
    BY <2>1, <2>2
  <2>4. ButtonsDone' => ButtonsDone
    BY <2>1, <2>2 DEF ButtonsDone, Threads
  <2> QED
    BY <1>1, <2>1, <2>3, <2>4, Released DEF SameButtons
<1>4. ASSUME NEW t \in Threads, ResetInject(t) PROVE Holds'
  <2> DEFINE V == reset[t].out
  <2>1. InjectBut({}, V, {}) /\ UNCHANGED <<kb, ms, fsm, reported, phase>> /\ reset[t].at = "inject"
    BY <1>4 DEF ResetInject, Inject, handlers
  <2>2. \A u \in Threads : u # t => reset'[u] = reset[u]
    BY <1>4 DEF ResetInject, Shape
  <2>3. \A u \in Threads : reset[u].at = "inject" => reset'[u] = reset[u] \/ reset[u].out \subseteq V
    BY <2>2
  <2>4. (KeysDone' => KeysDone) /\ (ButtonsDone' => ButtonsDone)
    BY <2>1, <2>2 DEF KeysDone, ButtonsDone, Threads
  <2> HIDE DEF V
  <2> QED
    BY <2>1, <2>3, <2>4, Released DEF SameButtons
<1> QED
  BY <1>2, <1>3, <1>4

\* Only the reset of the stop can be about to take the buttons once threads are joined.
LEMMA ResetButtonsHolds ==
  ASSUME Shape, Resting, Holds, NEW t \in Threads, ResetButtons(t) PROVE Holds'
<1>1. /\ reported' = reported \ Buttons /\ UNCHANGED <<kb, ms, fsm, os, withheld, phase>>
      /\ overtaken' = overtaken \cup InHand(ms) /\ reset[t].at = "buttons"
  BY DEF ResetButtons
<1>2. /\ \A u \in Threads : u # t => reset'[u] = reset[u]
      /\ reset'[t].at = "inject" /\ reset'[t].out = reported \cap Buttons
  BY DEF ResetButtons, Shape, ResetStates
<1>3. Uncovered' \subseteq Uncovered
  BY <1>1 DEF Uncovered
<1>4. InHand(kb)' = InHand(kb) /\ InHand(ms)' = InHand(ms)
  BY <1>1 DEF InHand
<1> HIDE DEF Shape
<1>5. HeldKeys' /\ PressedKey'
  BY <1>1, <1>3 DEF Holds, HeldKeys, PressedKey, Releasing, Pressing
<1>6. HeldButtons'
  <2> SUFFICES ASSUME NEW b \in Buttons, b \in Uncovered'
               PROVE  (\/ b \in reported \/ Releasing(ms, b)
                       \/ \E u \in Threads : reset[u].at = "inject" /\ b \in reset[u].out)'
    BY DEF HeldButtons
  <2>1. \/ b \in reported \/ Releasing(ms, b)
        \/ \E u \in Threads : reset[u].at = "inject" /\ b \in reset[u].out
    BY <1>3 DEF Holds, HeldButtons
  <2>2. CASE b \in reported
    BY <1>2, <2>2
  <2>3. CASE Releasing(ms, b)
    BY <1>1, <2>3 DEF Releasing
  <2>4. ASSUME NEW u \in Threads, reset[u].at = "inject" /\ b \in reset[u].out
        PROVE  reset'[u].at = "inject" /\ b \in reset'[u].out
    BY <1>1, <1>2, <2>4
  <2> QED
    BY <2>1, <2>2, <2>3, <2>4
<1>7. PressedButton'
  BY <1>1, Hand DEF Holds, PressedButton, Pressing
<1>8. KeysEmptied'
  <2>1. KeysDone' => KeysDone
    BY <1>1, <1>2 DEF KeysDone, Threads
  <2> QED
    BY <1>1, <1>3, <1>4, <2>1 DEF Holds, KeysEmptied, Releasing
<1>9. ButtonsEmptied'
  <2> SUFFICES ASSUME ButtonsDone'
               PROVE  /\ \A b \in Buttons : b \in Uncovered' =>
                            \/ Releasing(ms', b)
                            \/ reset'["control"].at = "inject" /\ b \in reset'["control"].out
                      /\ InHand(ms) \subseteq overtaken'
    BY <1>4 DEF ButtonsEmptied, Releasing
  <2>1. phase \notin {"running", "joining"}
    BY <1>1 DEF ButtonsDone
  <2>2. t = "control"
    BY <1>1, <2>1 DEF Resting, Threads
  <2>3. \A u \in Threads : reset[u].at # "inject"
    BY <1>1, <2>1, <2>2 DEF Resting, Threads
  <2>4. \A b \in Buttons : b \in Uncovered' => b \in reported \/ Releasing(ms, b)
    BY <1>3, <2>3 DEF Holds, HeldButtons
  <2> QED
    BY <1>1, <1>2, <2>2, <2>4 DEF Releasing
<1> QED
  BY <1>5, <1>6, <1>7, <1>8, <1>9 DEF Holds

\* The thread of the keys: a key that is let go is DOWN no more, but in its hands.
LEMMA KeyTakeHolds ==
  ASSUME Shape, Holds, KeyTake PROVE Holds'
<1>1. /\ phase = "running" /\ kb = Idle /\ UNCHANGED <<phase, ms, reset>>
      /\ kb'.at \in {"wait", "fsm"}
  <2>1. phase = "running" /\ kb = Idle /\ UNCHANGED <<phase, ms, reset>>
    BY DEF KeyTake
  <2>2. kb' = Idle \/ kb' = [at |-> "fsm", ev |-> Head(kq)]
    BY DEF KeyTake
  <2> QED
    BY <2>1, <2>2 DEF Idle
<1>2. SameButtons
  <2>1. kq # <<>> /\ Head(kq) \in KeyEvents
    BY DEF KeyTake, Shape
  <2>2. Head(kq).input \notin Buttons
    BY <2>1, InputAssumption DEF KeyEvents
  <2>3. \/ reported' = reported
        \/ reported' = (reported \ SameVk(Head(kq).input)) \cup {Head(kq).input}
        \/ reported' = reported \ SameVk(Head(kq).input)
    BY DEF KeyTake
  <2>4. SameVk(Head(kq).input) \cap Buttons = {}
    BY InputAssumption DEF SameVk
  <2> QED
    BY <2>2, <2>3, <2>4 DEF SameButtons
<1>3. /\ \A i \in Uncovered' : i \in Uncovered /\ (i \in fsm => i \in fsm')
      /\ \A i \in InHand(ms) : i \in overtaken => i \in overtaken'
  <2>1. CASE ReleaseFsm
    <3>1. InjectBut({}, fsm, InHand(kb))
      BY <2>1 DEF ReleaseFsm
    <3>2. /\ \A i \in Uncovered' : i \notin fsm /\ (i \in {} \/ i \in Uncovered)
          /\ \A i \in InHand(kb) \cup InHand(ms) : i \in overtaken => i \in overtaken'
      BY <3>1, Injected
    <3> QED
      BY <3>2
  <2>2. CASE UNCHANGED <<fsm, windows>>
    BY <2>2 DEF windows, history, Uncovered
  <2> QED
    BY <2>1, <2>2 DEF KeyTake, ProcessSequence
<1>4. HeldKeys'
  BY <1>1, <1>3 DEF Holds, HeldKeys, Releasing, Idle
<1>5. HeldButtons'
  BY <1>1, <1>2, <1>3 DEF Holds, HeldButtons, Releasing, SameButtons
<1>6. PressedKey'
  BY <1>1 DEF PressedKey, Pressing
<1>7. PressedButton'
  <2>1. Pressing(ms) => ms.ev.input \in InHand(ms) /\ ms.ev.input \in Buttons
    BY Hand DEF Pressing, Shape, Idle, Leaving, Gone
  <2> QED
    BY <1>1, <1>2, <1>3, <2>1 DEF Holds, PressedButton, Pressing, SameButtons
<1>8. KeysEmptied' /\ ButtonsEmptied'
  BY <1>1 DEF KeysEmptied, ButtonsEmptied, KeysDone, ButtonsDone
<1> QED
  BY <1>4, <1>5, <1>6, <1>7, <1>8 DEF Holds

LEMMA KeyFsmHolds ==
  ASSUME Shape, Holds, KeyFsm PROVE Holds'
<1> DEFINE i == kb.ev.input
<1>1. /\ kb.at = "fsm" /\ UNCHANGED <<ms, reset, phase, reported, os, overtaken, withheld>>
      /\ \/ kb' \in {Idle, Leaving} /\ fsm' = fsm
         \/ /\ kb' = [kb EXCEPT !.at = "inject"]
            /\ fsm' = IF kb.ev.type = "down" THEN fsm \cup {i} ELSE fsm \ {i}
  BY DEF KeyFsm, Done, windows, history
<1>2. kb \in [at : {"fsm", "inject"}, ev : KeyEvents]
  BY <1>1 DEF Shape, Idle, Leaving, Gone
<1>3. \/ kb'.at \notin {"fsm", "inject"} /\ fsm' = fsm
      \/ /\ kb'.at = "inject" /\ kb'.ev = kb.ev
         /\ fsm' = IF kb.ev.type = "down" THEN fsm \cup {i} ELSE fsm \ {i}
  BY <1>1, <1>2 DEF Idle, Leaving
<1>4. Uncovered' = Uncovered
  BY <1>1 DEF Uncovered
<1>5. HeldKeys'
  BY <1>1, <1>3, <1>4 DEF Holds, HeldKeys, Releasing
<1>6. HeldButtons' /\ PressedButton'
  BY <1>1, <1>4 DEF Holds, HeldButtons, PressedButton, Releasing, Pressing
<1>7. PressedKey'
  BY <1>3 DEF PressedKey, Pressing
<1>8. KeysEmptied'
  <2>1. KeysDone' => KeysDone
    BY <1>1 DEF KeysDone
  <2>2. \A k : k \in InHand(kb)' => k \in InHand(kb)
    BY <1>1, <1>3 DEF InHand, Downs
  <2> QED
    BY <1>1, <1>4, <2>1, <2>2 DEF Holds, KeysEmptied, Releasing
<1>9. ButtonsEmptied'
  BY <1>1, <1>4 DEF Holds, ButtonsEmptied, ButtonsDone, Releasing, InHand
<1> QED
  BY <1>5, <1>6, <1>7, <1>8, <1>9 DEF Holds

\* What is injected: a press that has been accepted, or a release.
LEMMA InjectedEvent ==
  ASSUME NEW e, InjectEvent(e)
  PROVE  /\ e.type = "down" => /\ \A i \in Uncovered' : i \in Uncovered \/ i = e.input
                               /\ overtaken \subseteq overtaken'
         /\ e.type # "down" => \A i \in Uncovered' : i \in Uncovered /\ i # e.input
         /\ \A i \in Uncovered' : i \notin overtaken'
         /\ \A i \in InHand(kb) \cup InHand(ms) : i \in overtaken => i \in overtaken'
<1>1. \A i \in Uncovered' : i \notin overtaken'
  BY DEF Uncovered
<1>2. CASE e.type = "down"
  <2>1. InjectBut({e.input}, {}, {})
    BY <1>2 DEF InjectEvent, Inject
  <2>2. /\ \A i \in Uncovered' : i \in {e.input} \/ i \in Uncovered
        /\ \A i \in InHand(kb) \cup InHand(ms) : i \in overtaken => i \in overtaken'
        /\ overtaken \subseteq overtaken'
    BY <2>1, Injected
  <2> QED
    BY <1>1, <1>2, <2>2
<1>3. CASE e.type # "down"
  <2>1. InjectBut({}, {e.input}, {})
    BY <1>3 DEF InjectEvent, Inject
  <2>2. /\ \A i \in Uncovered' : i \notin {e.input} /\ (i \in {} \/ i \in Uncovered)
        /\ \A i \in InHand(kb) \cup InHand(ms) : i \in overtaken => i \in overtaken'
    BY <2>1, Injected
  <2> QED
    BY <1>1, <1>3, <2>2
<1> QED
  BY <1>2, <1>3

LEMMA KeyInjectHolds ==
  ASSUME Shape, Holds, KeyInject PROVE Holds'
<1>1. /\ kb.at = "inject" /\ kb' \in {Idle, Leaving} /\ InjectEvent(kb.ev)
      /\ UNCHANGED <<ms, reset, phase, reported, fsm>>
  BY DEF KeyInject, Done
<1>2. kb'.at \notin {"fsm", "inject"}
  BY <1>1 DEF Idle, Leaving
<1>3. kb.ev.input \in Keys
  BY <1>1 DEF Shape, KeyEvents, Idle, Leaving, Gone
<1>4. kb.ev.input \notin Buttons
  BY <1>3, InputAssumption
<1>5. kb.ev.type = "down" => kb.ev.input \in InHand(kb)
  BY <1>1, Hand
<1> HIDE DEF Shape
<1>6. \A i \in Uncovered' : i # kb.ev.input => i \in Uncovered
  BY <1>1, InjectedEvent
<1>7. HeldKeys'
  <2>1. CASE kb.ev.type = "down"
    <3>1. \A i \in Uncovered' : i = kb.ev.input => i \in fsm
      BY <1>1, <2>1, InjectedEvent DEF Holds, PressedKey, Pressing
    <3> QED
      BY <1>1, <1>6, <2>1, <3>1 DEF Holds, HeldKeys, Releasing
  <2>2. CASE kb.ev.type # "down"
    BY <1>1, <2>2, InjectedEvent DEF Holds, HeldKeys, Releasing
  <2> QED
    BY <2>1, <2>2
<1>8. HeldButtons'
  BY <1>1, <1>4, <1>6 DEF Holds, HeldButtons, Releasing
<1>9. PressedKey'
  BY <1>2 DEF PressedKey, Pressing
<1>10. PressedButton'
  <2>1. Pressing(ms) => ms.ev.input \in InHand(ms)
    BY Hand DEF Pressing
  <2> QED
    BY <1>1, <2>1, InjectedEvent DEF Holds, PressedButton, Pressing
<1>11. KeysEmptied'
  <2> SUFFICES ASSUME KeysDone PROVE (\A k \in Keys : k \notin Uncovered') /\ InHand(kb)' = {}
    BY <1>1 DEF KeysEmptied, KeysDone
  <2>1. InHand(kb)' = {}
    BY <1>2 DEF InHand
  <2>2. InHand(kb) \subseteq overtaken /\ \A k \in Keys : k \in Uncovered => Releasing(kb, k)
    BY DEF Holds, KeysEmptied
  <2>3. CASE kb.ev.type = "down"
    BY <1>1, <1>5, <2>1, <2>2, <2>3, InjectedEvent DEF Releasing
  <2>4. CASE kb.ev.type # "down"
    BY <1>1, <2>1, <2>2, <2>4, InjectedEvent DEF Releasing
  <2> QED
    BY <2>3, <2>4
<1>12. ButtonsEmptied'
  <2>1. InHand(ms)' = InHand(ms) /\ (ButtonsDone' => ButtonsDone)
    BY <1>1 DEF InHand, ButtonsDone
  <2>2. InHand(ms) \subseteq overtaken => InHand(ms) \subseteq overtaken'
    BY <1>1, InjectedEvent
  <2> QED
    BY <1>1, <1>4, <1>6, <2>1, <2>2 DEF Holds, ButtonsEmptied, Releasing
<1> QED
  BY <1>7, <1>8, <1>9, <1>10, <1>11, <1>12 DEF Holds

\* The thread of the mouse, in the same way with what is reported of buttons.
LEMMA MouseTakeHolds ==
  ASSUME Shape, Holds, MouseTake PROVE Holds'
<1> DEFINE e == Head(mq)
<1>1. /\ phase = "running" /\ ms = Idle /\ UNCHANGED <<phase, kb, fsm, reset, os, overtaken, withheld>>
      /\ \/ ms' = Idle /\ reported' = reported
         \/ /\ ms' = [at |-> "inject", ev |-> e]
            /\ reported' = IF e.type = "down" THEN reported \cup {e.input} ELSE reported \ {e.input}
  BY DEF MouseTake, windows, history
<1> HIDE DEF e
<1>2. \/ ms'.at = "wait" /\ reported' = reported
      \/ /\ ms'.at = "inject" /\ ms'.ev = e
         /\ reported' = IF e.type = "down" THEN reported \cup {e.input} ELSE reported \ {e.input}
  BY <1>1 DEF Idle
<1>3. Uncovered' = Uncovered
  BY <1>1 DEF Uncovered
<1>4. HeldButtons'
  <2>1. \A i : ~Releasing(ms, i)
    BY <1>1 DEF Releasing, Idle
  <2> QED
    BY <1>1, <1>2, <1>3, <2>1 DEF Holds, HeldButtons, Releasing
<1>5. HeldKeys' /\ PressedKey'
  BY <1>1, <1>3 DEF Holds, HeldKeys, PressedKey, Releasing, Pressing
<1>6. PressedButton'
  BY <1>2 DEF PressedButton, Pressing
<1>7. KeysEmptied' /\ ButtonsEmptied'
  BY <1>1 DEF KeysEmptied, ButtonsEmptied, KeysDone, ButtonsDone
<1> QED
  BY <1>4, <1>5, <1>6, <1>7 DEF Holds

LEMMA MouseInjectHolds ==
  ASSUME Shape, Holds, MouseInject PROVE Holds'
<1>1. /\ ms.at = "inject" /\ ms' \in {Idle, Leaving} /\ InjectEvent(ms.ev)
      /\ UNCHANGED <<kb, reset, phase, reported, fsm>>
  BY DEF MouseInject, Done
<1>2. ms'.at \notin {"fsm", "inject"}
  BY <1>1 DEF Idle, Leaving
<1>3. ms.ev.input \in Buttons
  BY <1>1 DEF Shape, Idle, Leaving, Gone
<1>4. ms.ev.input \notin Keys
  BY <1>3, InputAssumption
<1>5. ms.ev.type = "down" => ms.ev.input \in InHand(ms)
  BY <1>1, Hand
<1> HIDE DEF Shape
<1>6. \A i \in Uncovered' : i # ms.ev.input => i \in Uncovered
  BY <1>1, InjectedEvent
<1>7. HeldButtons'
  <2>1. CASE ms.ev.type = "down"
    <3>1. \A i \in Uncovered' : i = ms.ev.input => i \in reported
      BY <1>1, <2>1, InjectedEvent DEF Holds, PressedButton, Pressing
    <3> QED
      BY <1>1, <1>6, <2>1, <3>1 DEF Holds, HeldButtons, Releasing
  <2>2. CASE ms.ev.type # "down"
    BY <1>1, <2>2, InjectedEvent DEF Holds, HeldButtons, Releasing
  <2> QED
    BY <2>1, <2>2
<1>8. HeldKeys'
  BY <1>1, <1>4, <1>6 DEF Holds, HeldKeys, Releasing
<1>9. PressedButton'
  BY <1>2 DEF PressedButton, Pressing
<1>10. PressedKey'
  <2>1. Pressing(kb) => kb.ev.input \in InHand(kb)
    BY Hand DEF Pressing
  <2> QED
    BY <1>1, <2>1, InjectedEvent DEF Holds, PressedKey, Pressing
<1>11. ButtonsEmptied'
  <2> SUFFICES ASSUME ButtonsDone
               PROVE  /\ \A b \in Buttons : b \in Uncovered' =>
                            reset["control"].at = "inject" /\ b \in reset["control"].out
                      /\ InHand(ms)' = {}
    BY <1>1 DEF ButtonsEmptied, ButtonsDone
  <2>1. InHand(ms)' = {}
    BY <1>2 DEF InHand
  <2>2. /\ InHand(ms) \subseteq overtaken
        /\ \A b \in Buttons : b \in Uncovered =>
              Releasing(ms, b) \/ (reset["control"].at = "inject" /\ b \in reset["control"].out)
    BY DEF Holds, ButtonsEmptied
  <2>3. CASE ms.ev.type = "down"
    BY <1>1, <1>5, <2>1, <2>2, <2>3, InjectedEvent DEF Releasing
  <2>4. CASE ms.ev.type # "down"
    BY <1>1, <2>1, <2>2, <2>4, InjectedEvent DEF Releasing
  <2> QED
    BY <2>3, <2>4
<1>12. KeysEmptied'
  <2>1. InHand(kb)' = InHand(kb) /\ (KeysDone' => KeysDone)
    BY <1>1 DEF InHand, KeysDone
  <2>2. InHand(kb) \subseteq overtaken => InHand(kb) \subseteq overtaken'
    BY <1>1, InjectedEvent
  <2> QED
    BY <1>1, <1>4, <1>6, <2>1, <2>2 DEF Holds, KeysEmptied, Releasing
<1> QED
  BY <1>7, <1>8, <1>9, <1>10, <1>11, <1>12 DEF Holds

\* A thread that leaves lets go of what is reported, and Start of nothing that is held.
LEMMA MouseLeavesHolds ==
  ASSUME Shape, Holds, MouseLeaves PROVE Holds'
<1>1. /\ ms \in {Idle, Leaving} /\ ms' = Gone /\ UNCHANGED <<kb, fsm, reset, phase>>
      /\ reported' = reported \ Buttons /\ InjectBut({}, reported \cap Buttons, {})
  BY DEF MouseLeaves, Inject
<1>2. /\ \A i \in Uncovered' : i \notin reported \cap Buttons /\ i \in Uncovered
      /\ \A i \in InHand(kb) : i \in overtaken => i \in overtaken'
  <2>1. /\ \A i \in Uncovered' : i \notin reported \cap Buttons /\ (i \in {} \/ i \in Uncovered)
        /\ \A i \in InHand(kb) \cup InHand(ms) : i \in overtaken => i \in overtaken'
    BY <1>1, Injected
  <2> QED
    BY <2>1
<1>3. ms.at # "inject" /\ ms'.at \notin {"fsm", "inject"}
  BY <1>1 DEF Idle, Leaving, Gone
<1> HIDE DEF Shape
<1>4. HeldKeys'
  BY <1>1, <1>2 DEF Holds, HeldKeys, Releasing
<1>5. HeldButtons'
  BY <1>1, <1>2, <1>3 DEF Holds, HeldButtons, Releasing
<1>6. PressedKey'
  <2>1. Pressing(kb) => kb.ev.input \in InHand(kb)
    BY Hand DEF Pressing
  <2> QED
    BY <1>1, <1>2, <2>1 DEF Holds, PressedKey, Pressing
<1>7. PressedButton'
  BY <1>3 DEF PressedButton, Pressing
<1>8. KeysEmptied'
  <2>1. InHand(kb)' = InHand(kb) /\ (KeysDone' => KeysDone)
    BY <1>1 DEF InHand, KeysDone
  <2> QED
    BY <1>1, <1>2, <2>1 DEF Holds, KeysEmptied, Releasing
<1>9. ButtonsEmptied'
  <2>1. InHand(ms)' = {} /\ (ButtonsDone' => ButtonsDone)
    BY <1>1, <1>3 DEF InHand, ButtonsDone
  <2> QED
    BY <1>1, <1>2, <1>3, <2>1 DEF Holds, ButtonsEmptied, Releasing
<1> QED
  BY <1>4, <1>5, <1>6, <1>7, <1>8, <1>9 DEF Holds

LEMMA KeysLeaveHolds ==
  ASSUME Shape, Holds, KeysLeave PROVE Holds'
<1>1. /\ kb \in {Idle, Leaving} /\ kb' = Gone /\ UNCHANGED <<ms, fsm, reset, phase>>
      /\ reported' = reported \ Keys /\ InjectBut({}, reported \cap Keys, {})
  BY DEF KeysLeave, Inject
<1>2. /\ \A i \in Uncovered' : i \in Uncovered
      /\ \A i \in InHand(ms) : i \in overtaken => i \in overtaken'
  <2>1. /\ \A i \in Uncovered' : i \in {} \/ i \in Uncovered
        /\ \A i \in InHand(kb) \cup InHand(ms) : i \in overtaken => i \in overtaken'
    BY <1>1, Injected
  <2> QED
    BY <2>1
<1>3. kb.at # "inject" /\ kb'.at \notin {"fsm", "inject"}
  BY <1>1 DEF Idle, Leaving, Gone
<1>4. \A b \in Buttons : b \in reported' <=> b \in reported
  BY <1>1, InputAssumption
<1>5. PressedButton'
  <2>1. Pressing(ms) => ms.ev.input \in InHand(ms)
    BY Hand DEF Pressing
  <2>2. Pressing(ms) => ms.ev.input \in Buttons
    BY DEF Pressing, Shape, Idle, Leaving, Gone
  <2> QED
    BY <1>1, <1>2, <1>4, <2>1, <2>2 DEF Holds, PressedButton, Pressing
<1> HIDE DEF Shape
<1>6. HeldKeys'
  BY <1>1, <1>2, <1>3 DEF Holds, HeldKeys, Releasing
<1>7. HeldButtons'
  BY <1>1, <1>2, <1>4 DEF Holds, HeldButtons, Releasing
<1>8. PressedKey'
  BY <1>3 DEF PressedKey, Pressing
<1>9. KeysEmptied'
  <2>1. InHand(kb)' = {} /\ (KeysDone' => KeysDone)
    BY <1>1, <1>3 DEF InHand, KeysDone
  <2> QED
    BY <1>1, <1>2, <1>3, <2>1 DEF Holds, KeysEmptied, Releasing
<1>10. ButtonsEmptied'
  <2>1. InHand(ms)' = InHand(ms) /\ (ButtonsDone' => ButtonsDone)
    BY <1>1 DEF InHand, ButtonsDone
  <2> QED
    BY <1>1, <1>2, <2>1 DEF Holds, ButtonsEmptied, Releasing
<1> QED
  BY <1>5, <1>6, <1>7, <1>8, <1>9, <1>10 DEF Holds

LEMMA StartHolds ==
  ASSUME Shape, Resting, HandsGone, Holds, Start PROVE Holds'
<1>1. /\ phase = "stopped" /\ phase' = "running" /\ kb' = Idle /\ ms' = Idle
      /\ UNCHANGED <<fsm, reset, os, overtaken, withheld>>
  BY DEF Start, windows, history
<1>2. kb = Gone /\ ms = Gone /\ reset["control"].at = "idle"
  BY <1>1 DEF HandsGone, Resting
<1>3. \A i : ~Releasing(kb, i) /\ ~Releasing(ms, i)
  BY <1>2 DEF Releasing, Gone
<1>4. ~Pressing(kb)' /\ ~Pressing(ms)'
  BY <1>1 DEF Pressing, Idle
<1>5. Uncovered' = Uncovered
  BY <1>1 DEF Uncovered
<1>6. \A b \in Buttons : b \notin Uncovered
  BY <1>1, <1>2, <1>3 DEF Holds, ButtonsEmptied, ButtonsDone
<1>7. HeldKeys' /\ HeldButtons'
  BY <1>1, <1>3, <1>5, <1>6 DEF Holds, HeldKeys, HeldButtons
<1>8. PressedKey' /\ PressedButton'
  BY <1>4 DEF PressedKey, PressedButton
<1>9. KeysEmptied' /\ ButtonsEmptied'
  BY <1>1 DEF KeysEmptied, ButtonsEmptied, KeysDone, ButtonsDone
<1> QED
  BY <1>7, <1>8, <1>9 DEF Holds

-----------------------------------------------------------------------------
LEMMA InitIInv == Init => IInv
<1> SUFFICES ASSUME Init PROVE IInv
  OBVIOUS
<1> USE DEF Init
<1>1. reset \in [Threads -> ResetStates]
  BY DEF ResetStates, Threads
<1>2. Shape
  BY <1>1 DEF Shape
<1>3. Resting /\ HandsGone
  BY DEF Resting, HandsGone, Threads
<1>4. Holds
  BY DEF Holds, HeldKeys, HeldButtons, PressedKey, PressedButton, KeysEmptied, ButtonsEmptied, KeysDone,
     ButtonsDone, Uncovered, Pressing, Idle
<1> QED
  BY <1>2, <1>3, <1>4 DEF IInv

LEMMA IInvStep == IInv /\ [Next]_vars => IInv'
<1> SUFFICES ASSUME Shape, Resting, HandsGone, Holds, [Next]_vars PROVE IInv'
  BY DEF IInv
<1>1. Shape' /\ Resting' /\ HandsGone'
  BY ShapeStep, RestingStep, HandsGoneStep
<1>2. CASE Untouched
  BY <1>2, UntouchedHolds, <1>1 DEF IInv
<1>3. CASE Handling
  <2>1. Holds'
    BY <1>3, ForwardHolds, ReleaseAllHolds, ResetButtonsHolds, KeyTakeHolds, KeyFsmHolds, KeyInjectHolds,
       MouseTakeHolds, MouseInjectHolds, MouseLeavesHolds, KeysLeaveHolds, StartHolds DEF Handling
  <2> QED
    BY <1>1, <2>1 DEF IInv
<1> QED
  BY <1>2, <1>3, HandlingSteps

LEMMA StoppedReleased == IInv => StoppedReleasesAll
<1> SUFFICES ASSUME IInv, phase = "stopped" PROVE os \subseteq overtaken \cup withheld
  BY DEF StoppedReleasesAll
<1>1. kb = Gone /\ ms = Gone /\ reset["control"].at = "idle"
  BY DEF IInv, HandsGone, Resting
<1>2. \A i : ~Releasing(kb, i) /\ ~Releasing(ms, i)
  BY <1>1 DEF Releasing, Gone
<1>3. \A i \in Inputs : i \notin Uncovered
  BY <1>1, <1>2 DEF IInv, Holds, KeysEmptied, ButtonsEmptied, KeysDone, ButtonsDone, Inputs
<1>4. os \subseteq Inputs
  BY DEF IInv, Shape
<1> QED
  BY <1>3, <1>4 DEF Uncovered

(* HostRuntime::Stop resets all input once the polling threads are joined, *)
(* and each handler lets go of what it has when its thread leaves: when    *)
(* the host has stopped, Windows holds nothing but what was overtaken by a *)
(* reset on its way to SendInput, or what the window in front kept from    *)
(* being released.                                                         *)
THEOREM StopReleasesAll == Spec => []StoppedReleasesAll
  BY StoppedReleased, InitIInv, IInvStep, PTL DEF Spec

-----------------------------------------------------------------------------
(* The rest of the type: counters, the lengths of the queues, histories. *)

Histories == overtaken \cup abandoned \cup withheld \subseteq Inputs

Counts ==
    /\ clientHeld \subseteq Inputs /\ authorized \in Sessions \cup {NoSession}
    /\ events \in Nat /\ events <= MaxEvents /\ keySeq \in Nat /\ keySeq <= events
    /\ expected \in Nat /\ focus \in BOOLEAN /\ spill \in {"none", "release", "forget"}

Lengths ==
    /\ Len(goKeys) <= GoCap + 1 /\ Len(goMouse) <= GoCap + 1
    /\ Len(tq) <= TransportCap + 1 /\ Len(kq) <= HandlerCap /\ Len(mq) <= HandlerCap

LEMMA DownInputs ==
  ASSUME Shape
  PROVE  /\ InThePipe \subseteq Inputs /\ Ups(Range(goKeys)) \subseteq Inputs
         /\ BeingForwarded \subseteq Inputs /\ InHand(kb) \subseteq Inputs /\ InHand(ms) \subseteq Inputs
<1>1. ASSUME NEW S, S \subseteq Sendable \cup Decided PROVE Downs(S) \subseteq Inputs
  BY <1>1 DEF Downs, Sendable, Decided
<1>2. ASSUME NEW S, NEW q \in Seq(S) PROVE Range(q) \subseteq S
  BY <1>2 DEF Range
<1>3. Ups(Range(goKeys)) \subseteq Inputs
  BY <1>2 DEF Ups, Shape, Sendable
<1>4. InThePipe \subseteq Inputs
  <2>1. Range(tq) \subseteq Sendable
    BY <1>2 DEF Shape
  <2>2. pion.at = "push" => pion.msg \in Sendable
    BY DEF Shape, Idle
  <2>3. proc.at = "state" => proc.msg \in Sendable
    BY DEF Shape, Idle
  <2> QED
    BY <1>1, <2>1, <2>2, <2>3 DEF InThePipe
<1>5. BeingForwarded \subseteq Inputs
  <2>1. proc.at = "forward" => proc.out \subseteq Decided
    BY DEF Shape, Idle
  <2> QED
    BY <1>1, <2>1 DEF BeingForwarded
<1>6. InHand(kb) \subseteq Inputs
  <2>1. kb.at \in {"fsm", "inject"} => kb.ev.input \in Inputs
    BY DEF Shape, KeyEvents, Inputs, Idle, Leaving, Gone
  <2> QED
    BY <2>1, Hand
<1>7. InHand(ms) \subseteq Inputs
  <2>1. ms.at \in {"fsm", "inject"} => ms.ev.input \in Inputs
    BY DEF Shape, Inputs, Idle, Leaving, Gone
  <2> QED
    BY <2>1, Hand
<1> QED
  BY <1>3, <1>4, <1>5, <1>6, <1>7

LEMMA InjectedHistories ==
  ASSUME Histories, NEW D, NEW U, NEW W, InjectBut(D, U, W), os \subseteq Inputs, W \subseteq Inputs
  PROVE  Histories'
  BY DEF Histories, InjectBut

LEMMA EventHistories ==
  ASSUME Histories, NEW e, InjectEvent(e), os \subseteq Inputs PROVE Histories'
  BY InjectedHistories DEF InjectEvent, Inject

LEMMA HistoriesStep == Shape /\ clientHeld \subseteq Inputs /\ Histories /\ [Next]_vars => Histories'
<1> SUFFICES ASSUME Shape, clientHeld \subseteq Inputs, Histories, [Next]_vars PROVE Histories'
  OBVIOUS
<1>0. /\ InThePipe \subseteq Inputs /\ Ups(Range(goKeys)) \subseteq Inputs
      /\ BeingForwarded \subseteq Inputs /\ InHand(kb) \subseteq Inputs /\ InHand(ms) \subseteq Inputs
  BY DownInputs
<1>1. os \subseteq Inputs /\ reported \subseteq Inputs
  BY DEF Shape
<1> HIDE DEF Shape
<1>2. ASSUME UNCHANGED windows \/ UNCHANGED history PROVE Histories'
  BY <1>2 DEF windows, history, Histories
<1>3. ASSUME \/ \E i \in Inputs : Press(i) \/ Release(i)
             \/ ChannelLost \/ CheckForStuckKeys \/ EndSession \/ CloseAfterReset \/ Stop
             \/ \E t \in Threads : ResetState(t) \/ ResetButtons(t)
             \/ SpillForget \/ \E s \in Sessions : AuthorizeSession(s)
      PROVE  Histories'
  BY <1>0, <1>1, <1>3 DEF Press, Release, Transition, ChannelLost, CheckForStuckKeys, EndSession,
     CloseAfterReset, Stop, ResetState, ResetButtons, SpillForget, AuthorizeSession, Discarded, Severed, Histories
<1>4. ASSUME \/ MovePointer \/ FocusChanges
             \/ SignalingLost \/ ThreadsJoined \/ QueueCleared \/ Stopped \/ Start
             \/ PionTake \/ PionPush \/ ProcTake \/ ProcState \/ KeyFsm \/ MouseTake
             \/ UNCHANGED vars
      PROVE  Histories'
  BY <1>2, <1>4 DEF MovePointer, FocusChanges, SignalingLost, ThreadsJoined, QueueCleared,
     Stopped, Start, PionTake, PionPush, ProcTake, ProcState, KeyFsm, MouseTake, vars
<1>5. ASSUME ReleaseFsm PROVE Histories'
  BY <1>0, <1>1, <1>5, InjectedHistories DEF ReleaseFsm
<1>6. ASSUME NEW e, Dispatch(e) PROVE Histories'
  <2>1. UNCHANGED windows \/ InjectBut({}, reported \cap Buttons, InHand(ms))
    BY <1>6 DEF Dispatch, KeyEnqueue, MouseEnqueue
  <2> QED
    BY <1>0, <1>1, <1>2, <2>1, InjectedHistories
<1>7. ASSUME NEW U, Inject({}, U) PROVE Histories'
  <2>1. InjectBut({}, U, {})
    BY <1>7 DEF Inject
  <2> QED
    BY <1>1, <2>1, InjectedHistories
<1>8. CASE ProcForward \/ \E t \in Threads : ResetForward(t)
  BY <1>6, <1>8 DEF ProcForward, ResetForward
<1>9. CASE KeyTake
  BY <1>2, <1>5, <1>9 DEF KeyTake, ProcessSequence
<1>10. CASE KeyInject \/ MouseInject
  BY <1>1, <1>10, EventHistories DEF KeyInject, MouseInject
<1>11. CASE SpillRelease \/ \E t \in Threads : ResetKeys(t)
  BY <1>5, <1>11 DEF SpillRelease, ResetKeys
<1>12. CASE MouseLeaves \/ KeysLeave \/ \E t \in Threads : ResetInject(t)
  BY <1>7, <1>12 DEF MouseLeaves, KeysLeave, ResetInject
<1> QED
  BY <1>3, <1>4, <1>8, <1>9, <1>10, <1>11, <1>12 DEF Next, Control, Pipeline, ResetStep

LEMMA AppendLength ==
  ASSUME NEW S, NEW q \in Seq(S), NEW m PROVE Len(Append(q, m)) = Len(q) + 1
<1> DEFINE T == S \cup {m}
<1>1. q \in Seq(T)
  OBVIOUS
<1>2. m \in T
  OBVIOUS
<1> HIDE DEF T
<1> QED
  BY <1>1, <1>2

LEMMA GoLengths ==
  ASSUME NEW q \in Seq(Sendable), NEW m
  PROVE  /\ Len(q) <= GoCap + 1 => Len(GoEnqueue(q, m)) <= GoCap + 1
         /\ Len(q) <= GoCap + 1 => Len(GoMouseEnqueue(q, m)) <= GoCap + 1
<1>1. GoCap \in Nat /\ GoCap >= 1 /\ Len(q) \in Nat
  BY InputAssumption
<1>2. GoEnqueue(q, m) = <<Reset, m>> \/ GoEnqueue(q, m) = <<Reset>>
      \/ (Len(q) < GoCap /\ GoEnqueue(q, m) = Append(q, m))
  BY <1>1 DEF GoEnqueue
<1>3. Len(Append(q, m)) = Len(q) + 1 /\ Len(<<Reset, m>>) = 2 /\ Len(<<Reset>>) = 1
  BY AppendLength
<1>4. Len(q) <= GoCap + 1 => Len(GoEnqueue(q, m)) <= GoCap + 1
  <2> DEFINE n == Len(GoEnqueue(q, m))
             l == Len(q)
  <2>1. n \in {1, 2} \/ (l < GoCap /\ n = l + 1)
    BY <1>2, <1>3, Zenon
  <2>3. l \in Nat
    BY <1>1
  <2> HIDE DEF n, l
  <2>2. l <= GoCap + 1 => n <= GoCap + 1
    BY <1>1, <2>1, <2>3
  <2> QED
    BY <2>2 DEF n, l
<1>5. Len([q EXCEPT ![Len(q)] = m]) = Len(q)
  OBVIOUS
<1>6. GoMouseEnqueue(q, m) \in {[q EXCEPT ![Len(q)] = m], GoEnqueue(q, m)}
  BY DEF GoMouseEnqueue
<1> QED
  BY <1>4, <1>5, <1>6

LEMMA TailLength == ASSUME NEW S, NEW q \in Seq(S), q # <<>> PROVE Len(Tail(q)) <= Len(q)
OBVIOUS

LEMMA LengthsStep == Shape /\ Lengths /\ [Next]_vars => Lengths'
<1> SUFFICES ASSUME Shape, Lengths, [Next]_vars PROVE Lengths'
  OBVIOUS
<1>0. /\ goKeys \in Seq(Sendable) /\ goMouse \in Seq(Sendable) /\ tq \in Seq(Sendable)
      /\ kq \in Seq(KeyEvents) /\ mq \in Seq(MouseEvents)
      /\ GoCap \in Nat /\ TransportCap \in Nat /\ HandlerCap \in Nat
      /\ GoCap >= 1 /\ TransportCap >= 1 /\ HandlerCap >= 1
  BY InputAssumption DEF Shape
<1> HIDE DEF Shape
<1> USE DEF Lengths
<1>1. ASSUME \/ FocusChanges \/ CheckForStuckKeys \/ SignalingLost \/ ThreadsJoined \/ Stopped
             \/ ProcState \/ KeyFsm \/ KeyInject \/ MouseInject \/ SpillRelease \/ SpillForget
             \/ MouseLeaves \/ KeysLeave
             \/ \E t \in Threads : ResetState(t) \/ ResetKeys(t) \/ ResetButtons(t) \/ ResetInject(t)
             \/ UNCHANGED vars
      PROVE  UNCHANGED <<goKeys, goMouse, tq, kq, mq>>
  BY <1>1 DEF FocusChanges, CheckForStuckKeys, SignalingLost, ThreadsJoined, Stopped, ProcState, KeyFsm,
     KeyInject, MouseInject, SpillRelease, SpillForget, MouseLeaves, KeysLeave, ResetState, ResetKeys,
     ResetButtons, ResetInject, vars, transport, handlers
<1>2. ASSUME \/ \E i \in Inputs : Press(i) \/ Release(i)
             \/ MovePointer \/ ChannelLost \/ EndSession \/ CloseAfterReset \/ Stop
      PROVE  Lengths'
  <2>1. UNCHANGED <<tq, kq, mq>>
    BY <1>2 DEF Press, Release, Transition, MovePointer, ChannelLost, EndSession, CloseAfterReset, Stop,
       handlers
  <2>2. goKeys' = goKeys \/ \E m : goKeys' = GoEnqueue(goKeys, m)
    BY <1>2 DEF Press, Release, Transition, MovePointer, ChannelLost, EndSession, CloseAfterReset, Stop,
       ChannelsClose
  <2>3. goMouse' = goMouse \/ \E m : goMouse' = GoEnqueue(goMouse, m) \/ goMouse' = GoMouseEnqueue(goMouse, m)
    BY <1>2 DEF Press, Release, Transition, MovePointer, ChannelLost, EndSession, CloseAfterReset, Stop,
       ChannelsClose
  <2>4. Len(goKeys') <= GoCap + 1
    BY <1>0, <2>2, GoLengths
  <2>5. Len(goMouse') <= GoCap + 1
    BY <1>0, <2>3, GoLengths
  <2> QED
    BY <2>1, <2>4, <2>5
<1>3. ASSUME NEW s \in Sessions, AuthorizeSession(s) PROVE Lengths'
  BY <1>0, <1>3 DEF AuthorizeSession, handlers
<1>4. CASE PionTake
  <2>1. UNCHANGED <<tq, kq, mq>>
    BY <1>4 DEF PionTake, handlers
  <2>2. \/ goKeys # <<>> /\ goKeys' = Tail(goKeys) /\ goMouse' = goMouse
        \/ goMouse # <<>> /\ goMouse' = Tail(goMouse) /\ goKeys' = goKeys
    BY <1>4 DEF PionTake
  <2>3. (goKeys # <<>> => Len(Tail(goKeys)) <= Len(goKeys))
        /\ (goMouse # <<>> => Len(Tail(goMouse)) <= Len(goMouse))
    BY <1>0, TailLength
  <2>4. Len(goKeys') <= GoCap + 1 /\ Len(goMouse') <= GoCap + 1
    BY <1>0, <2>2, <2>3
  <2> QED
    BY <2>1, <2>4
<1>5. CASE PionPush
  <2>1. UNCHANGED <<goKeys, goMouse, kq, mq>>
    BY <1>5 DEF PionPush, handlers
  <2> DEFINE m == pion.msg
  <2>2. \/ tq' = [tq EXCEPT ![Len(tq)] = m]
        \/ Len(tq) < TransportCap /\ tq' = Append(tq, m)
        \/ tq' = <<Reset, m>> \/ tq' = <<Reset>>
    BY <1>0, <1>5 DEF PionPush
  <2> HIDE DEF m
  <2>3. Len([tq EXCEPT ![Len(tq)] = m]) = Len(tq) /\ Len(Append(tq, m)) = Len(tq) + 1
        /\ Len(<<Reset, m>>) = 2 /\ Len(<<Reset>>) = 1
    BY <1>0, AppendLength
  <2>4. Len(tq') <= TransportCap + 1
    <3> DEFINE n == Len(tq')
               l == Len(tq)
    <3>1. n \in {1, 2} \/ n = l \/ (l < TransportCap /\ n = l + 1)
      BY <2>2, <2>3, Zenon
    <3>2. l <= TransportCap + 1 /\ l \in Nat
      BY <1>0
    <3> HIDE DEF n, l
    <3>3. n <= TransportCap + 1
      BY <1>0, <3>1, <3>2
    <3> QED
      BY <3>3 DEF n
  <2> QED
    BY <2>1, <2>4
<1>6. CASE ProcTake \/ QueueCleared
  <2>1. UNCHANGED <<goKeys, goMouse, kq, mq>>
    BY <1>6 DEF ProcTake, QueueCleared, handlers
  <2>2. Len(tq') <= TransportCap + 1
    BY <1>0, <1>6, TailLength DEF ProcTake, QueueCleared
  <2> QED
    BY <2>1, <2>2
<1>7. CASE ProcForward \/ \E t \in Threads : ResetForward(t)
  <2>1. UNCHANGED <<goKeys, goMouse, tq>>
    BY <1>7 DEF ProcForward, ResetForward, transport
  <2>2. PICK e : Dispatch(e)
    BY <1>7 DEF ProcForward, ResetForward
  <2>3. /\ kq' = kq \/ (Len(kq) < HandlerCap /\ kq' = Append(kq, e)) \/ kq' = <<e>>
        /\ mq' = mq \/ (Len(mq) < HandlerCap /\ mq' = Append(mq, e)) \/ mq' = <<e>>
    BY <2>2 DEF Dispatch, KeyEnqueue, MouseEnqueue
  <2>4. Len(Append(kq, e)) = Len(kq) + 1 /\ Len(Append(mq, e)) = Len(mq) + 1 /\ Len(<<e>>) = 1
    BY <1>0, AppendLength
  <2>5. Len(kq') <= HandlerCap /\ Len(mq') <= HandlerCap
    <3> DEFINE k == Len(kq)
               l == Len(mq)
               kn == Len(kq')
               ln == Len(mq')
    <3>1. /\ kn = k \/ (k < HandlerCap /\ kn = k + 1) \/ kn = 1
          /\ ln = l \/ (l < HandlerCap /\ ln = l + 1) \/ ln = 1
      BY <2>3, <2>4, Zenon
    <3>2. k <= HandlerCap /\ k \in Nat /\ l <= HandlerCap /\ l \in Nat
      BY <1>0
    <3> HIDE DEF k, l, kn, ln
    <3>3. kn <= HandlerCap /\ ln <= HandlerCap
      BY <1>0, <3>1, <3>2
    <3> QED
      BY <3>3 DEF kn, ln
  <2> QED
    BY <2>1, <2>5
<1>8. CASE KeyTake \/ MouseTake
  <2>1. UNCHANGED <<goKeys, goMouse, tq>>
    BY <1>8 DEF KeyTake, MouseTake, transport
  <2>2. \/ kq # <<>> /\ kq' = Tail(kq) /\ mq' = mq
        \/ mq # <<>> /\ mq' = Tail(mq) /\ kq' = kq
    BY <1>8 DEF KeyTake, MouseTake
  <2>3. (kq # <<>> => Len(Tail(kq)) <= Len(kq)) /\ (mq # <<>> => Len(Tail(mq)) <= Len(mq))
    BY <1>0, TailLength
  <2>4. Len(kq') <= HandlerCap /\ Len(mq') <= HandlerCap
    BY <1>0, <2>2, <2>3
  <2> QED
    BY <2>1, <2>4
<1>9. CASE Start
  BY <1>0, <1>9 DEF Start, transport
<1> QED
  BY <1>1, <1>2, <1>3, <1>4, <1>5, <1>6, <1>7, <1>8, <1>9 DEF Next, Control, Pipeline, ResetStep

LEMMA CountsStep == Shape /\ Counts /\ [Next]_vars => Counts'
<1> SUFFICES ASSUME Shape, Counts, [Next]_vars PROVE Counts'
  OBVIOUS
<1> USE DEF Counts
<1>1. ASSUME Happens PROVE events' \in Nat /\ events' <= MaxEvents /\ events' = events + 1
  BY <1>1, InputAssumption DEF Happens
<1>2. CASE \E i \in Inputs : Press(i) \/ Release(i)
  <2>1. Happens /\ clientHeld' \subseteq Inputs /\ UNCHANGED <<authorized, expected, focus, spill>>
    BY <1>2 DEF Press, Release, Transition, handlers
  <2>2. keySeq' \in {keySeq, keySeq + 1}
    BY <1>2 DEF Press, Release, Transition
  <2> QED
    BY <1>1, <2>1, <2>2
<1>3. CASE MovePointer \/ FocusChanges \/ SignalingLost \/ CheckForStuckKeys
  <2>1. Happens /\ UNCHANGED <<player, authorized, expected, spill>>
    BY <1>3 DEF MovePointer, FocusChanges, SignalingLost, CheckForStuckKeys, player, handlers, transport
  <2>2. focus' \in BOOLEAN
    BY <1>3 DEF MovePointer, FocusChanges, SignalingLost, CheckForStuckKeys, windows
  <2> QED
    BY <1>1, <2>1, <2>2 DEF player
<1>4. CASE ChannelLost \/ EndSession \/ Stop
  <2>1. Happens /\ ChannelsClose /\ UNCHANGED <<expected, focus, spill>>
        /\ authorized' \in {authorized, NoSession}
    BY <1>4 DEF ChannelLost, EndSession, Stop, handlers
  <2> QED
    BY <1>1, <2>1 DEF ChannelsClose
<1>5. CASE CloseAfterReset
  BY <1>5 DEF CloseAfterReset, ChannelsClose, handlers
<1>6. ASSUME NEW s \in Sessions, AuthorizeSession(s) PROVE Counts'
  BY <1>6 DEF AuthorizeSession, handlers, windows
<1>7. ASSUME \/ PionTake \/ PionPush \/ ProcTake \/ ProcState \/ KeyFsm \/ MouseTake
             \/ ThreadsJoined \/ QueueCleared \/ Stopped \/ Start \/ UNCHANGED vars
      PROVE  Counts'
  BY <1>7 DEF PionTake, PionPush, ProcTake, ProcState, KeyFsm, MouseTake, ThreadsJoined, QueueCleared,
     Stopped, Start, vars, client, player, transport, handlers, windows
<1>8. ASSUME NEW D, NEW U, NEW W, InjectBut(D, U, W) PROVE focus' = focus
  BY <1>8 DEF InjectBut
<1>9. CASE ProcForward \/ \E t \in Threads : ResetForward(t)
  <2>1. PICK e : Dispatch(e) /\ UNCHANGED <<client, authorized>>
    BY <1>9 DEF ProcForward, ResetForward, transport
  <2>2. expected' = expected /\ focus' = focus /\ spill' \in {spill, "release"}
    BY <1>8, <2>1 DEF Dispatch, KeyEnqueue, MouseEnqueue, windows
  <2> QED
    BY <2>1, <2>2 DEF client, player
<1>10. CASE KeyTake
  <2>1. Head(kq).seq \in Nat
    BY <1>10 DEF KeyTake, Shape, KeyEvents, Messages
  <2>2. UNCHANGED <<client, authorized, spill>> /\ expected' = Head(kq).seq + 1
    BY <1>10 DEF KeyTake, ProcessSequence, transport
  <2>3. focus' = focus
    BY <1>8, <1>10 DEF KeyTake, ProcessSequence, ReleaseFsm, windows
  <2> QED
    BY <2>1, <2>2, <2>3 DEF client, player
<1>11. CASE \/ KeyInject \/ MouseInject \/ MouseLeaves \/ KeysLeave
            \/ \E t \in Threads : ResetState(t) \/ ResetKeys(t) \/ ResetButtons(t) \/ ResetInject(t)
  <2>1. UNCHANGED <<client, authorized, expected, spill>>
    BY <1>11 DEF KeyInject, MouseInject, MouseLeaves, KeysLeave, ResetState, ResetKeys, ResetButtons,
       ResetInject, transport, handlers
  <2>2. focus' = focus
    BY <1>8, <1>11 DEF KeyInject, MouseInject, MouseLeaves, KeysLeave, ResetState, ResetKeys, ResetButtons,
       ResetInject, InjectEvent, Inject, ReleaseFsm
  <2> QED
    BY <2>1, <2>2 DEF client, player
<1>12. CASE SpillRelease \/ SpillForget
  <2>1. UNCHANGED <<client, authorized, expected>> /\ spill' \in {"forget", "none"}
    BY <1>12 DEF SpillRelease, SpillForget, transport
  <2>2. focus' = focus
    BY <1>8, <1>12 DEF SpillRelease, SpillForget, ReleaseFsm
  <2> QED
    BY <2>1, <2>2 DEF client, player
<1> QED
  BY <1>2, <1>3, <1>4, <1>5, <1>6, <1>7, <1>9, <1>10, <1>11, <1>12 DEF Next, Control, Pipeline, ResetStep

LEMMA TypeImplied == Shape /\ Histories /\ Lengths /\ Counts => TypeOK
<1> SUFFICES ASSUME Shape, Histories, Lengths, Counts PROVE TypeOK
  OBVIOUS
<1>1. Sendable \subseteq Messages /\ KeyEvents \subseteq Messages /\ MouseEvents \subseteq Messages
  BY DEF Sendable, KeyEvents, MouseEvents
<1>2. \A q \in {goKeys, goMouse, tq, kq, mq} : q \in Seq(Messages)
  <2>1. \A S \in SUBSET Messages : \A q \in Seq(S) : q \in Seq(Messages)
    OBVIOUS
  <2>2. /\ goKeys \in Seq(Sendable) /\ goMouse \in Seq(Sendable) /\ tq \in Seq(Sendable)
        /\ kq \in Seq(KeyEvents) /\ mq \in Seq(MouseEvents)
    BY DEF Shape
  <2> QED
    BY <1>1, <2>1, <2>2
<1>3. pion.at \in {"wait", "push"} /\ proc.at \in {"wait", "state", "forward"}
  BY DEF Shape, Idle
<1>4. kb.at \in {"wait", "fsm", "inject", "leave", "gone"} /\ ms.at \in {"wait", "inject", "leave", "gone"}
  BY DEF Shape, Idle, Leaving, Gone
<1>5. events \in 0 .. MaxEvents /\ keySeq \in 0 .. MaxEvents
  BY InputAssumption DEF Counts
<1> QED
  BY <1>2, <1>3, <1>4, <1>5 DEF TypeOK, Shape, Histories, Lengths, Counts, ResetStates

(* Every queue of the way a key takes is bounded, and what is in it is a   *)
(* message: Go's, which are emptied when full, the transport queue and     *)
(* those of the handlers.                                                  *)
THEOREM InputTypeCorrect == Spec => []TypeOK
<1> DEFINE Inv == Shape /\ Histories /\ Lengths /\ Counts
<1>1. Init => Inv
  <2> SUFFICES ASSUME Init PROVE Inv
    OBVIOUS
  <2>1. Shape
    BY InitIInv DEF IInv
  <2>2. Histories /\ Lengths /\ Counts
    BY InputAssumption DEF Init, Histories, Lengths, Counts
  <2> QED
    BY <2>1, <2>2
<1>2. Inv /\ [Next]_vars => Inv'
  BY ShapeStep, HistoriesStep, LengthsStep, CountsStep DEF Counts
<1>3. Inv => TypeOK
  BY TypeImplied
<1> QED
  BY <1>1, <1>2, <1>3, PTL DEF Spec

-----------------------------------------------------------------------------
(* Something of S is in a queue; each of D in it is followed by one of U. *)
Has(q, S) == \E j \in 1 .. Len(q) : q[j] \in S
Closed(q, D, U) == \A j \in 1 .. Len(q) : q[j] \in D => \E l \in j + 1 .. Len(q) : q[l] \in U

LEMMA AppendHas ==
  ASSUME NEW T, NEW q \in Seq(T), NEW m \in T, NEW S
  PROVE  Has(Append(q, m), S) <=> Has(q, S) \/ m \in S
<1> DEFINE r == Append(q, m)
<1>1. /\ Len(r) = Len(q) + 1 /\ Len(q) \in Nat /\ r[Len(q) + 1] = m
      /\ \A j \in 1 .. Len(q) : r[j] = q[j]
  OBVIOUS
<1> HIDE DEF r
<1>2. \A j : j \in 1 .. Len(r) <=> j \in 1 .. Len(q) \/ j = Len(q) + 1
  BY <1>1
<1> QED
  BY <1>1, <1>2 DEF Has, r

LEMMA AppendClosed ==
  ASSUME NEW T, NEW q \in Seq(T), NEW m \in T, NEW D, NEW U,
         m \notin D, m \in U \/ Closed(q, D, U)
  PROVE  Closed(Append(q, m), D, U)
<1> DEFINE r == Append(q, m)
<1>1. /\ Len(r) = Len(q) + 1 /\ Len(q) \in Nat /\ r[Len(q) + 1] = m
      /\ \A j \in 1 .. Len(q) : r[j] = q[j]
  OBVIOUS
<1> HIDE DEF r
<1>2. SUFFICES ASSUME NEW j \in 1 .. Len(r), r[j] \in D PROVE \E l \in j + 1 .. Len(r) : r[l] \in U
  BY DEF Closed, r
<1>3. j \in 1 .. Len(q) /\ q[j] \in D
  BY <1>1, <1>2
<1>4. CASE m \in U
  <2>1. Len(r) \in j + 1 .. Len(r) /\ r[Len(r)] \in U
    BY <1>1, <1>3, <1>4
  <2> QED
    BY <2>1
<1>5. CASE Closed(q, D, U)
  <2>1. PICK l \in j + 1 .. Len(q) : q[l] \in U
    BY <1>3, <1>5 DEF Closed
  <2>2. l \in j + 1 .. Len(r) /\ l \in 1 .. Len(q)
    BY <1>1, <1>3, <2>1
  <2> QED
    BY <1>1, <2>1, <2>2
<1> QED
  BY <1>4, <1>5

LEMMA TailHas ==
  ASSUME NEW T, NEW q \in Seq(T), q # <<>>, NEW S
  PROVE  Has(q, S) <=> Head(q) \in S \/ Has(Tail(q), S)
<1> DEFINE r == Tail(q)
<1>1. /\ Len(q) \in Nat /\ Len(q) > 0 /\ Len(r) = Len(q) - 1 /\ Head(q) = q[1]
      /\ \A j \in 1 .. Len(r) : r[j] = q[j + 1]
  OBVIOUS
<1> HIDE DEF r
<1>2. ASSUME Has(q, S) PROVE Head(q) \in S \/ Has(r, S)
  <2>1. PICK j \in 1 .. Len(q) : q[j] \in S
    BY <1>2 DEF Has
  <2>2. CASE j = 1
    BY <1>1, <2>1, <2>2
  <2>3. CASE j # 1
    <3>1. j - 1 \in 1 .. Len(r) /\ r[j - 1] = q[j]
      BY <1>1, <2>1, <2>3
    <3> QED
      BY <2>1, <3>1 DEF Has
  <2> QED
    BY <2>2, <2>3
<1>3. ASSUME Head(q) \in S PROVE Has(q, S)
  BY <1>1, <1>3 DEF Has
<1>4. ASSUME Has(r, S) PROVE Has(q, S)
  <2>1. PICK j \in 1 .. Len(r) : r[j] \in S
    BY <1>4 DEF Has
  <2>2. j + 1 \in 1 .. Len(q) /\ q[j + 1] \in S
    BY <1>1, <2>1
  <2> QED
    BY <2>2 DEF Has
<1> QED
  BY <1>2, <1>3, <1>4 DEF r

LEMMA TailClosed ==
  ASSUME NEW T, NEW q \in Seq(T), q # <<>>, NEW D, NEW U, Closed(q, D, U)
  PROVE  Closed(Tail(q), D, U) /\ (Head(q) \in D => Has(Tail(q), U))
<1> DEFINE r == Tail(q)
<1>1. /\ Len(q) \in Nat /\ Len(q) > 0 /\ Len(r) = Len(q) - 1 /\ Head(q) = q[1]
      /\ \A j \in 1 .. Len(r) : r[j] = q[j + 1]
  OBVIOUS
<1> HIDE DEF r
<1>2. ASSUME NEW j \in 1 .. Len(q), q[j] \in D PROVE \E l \in j .. Len(r) : l \in 1 .. Len(r) /\ r[l] \in U
  <2>1. PICK l \in j + 1 .. Len(q) : q[l] \in U
    BY <1>2 DEF Closed
  <2>2. l - 1 \in j .. Len(r) /\ l - 1 \in 1 .. Len(r) /\ r[l - 1] = q[l]
    BY <1>1, <2>1
  <2> QED
    BY <2>1, <2>2
<1>3. Closed(r, D, U)
  <2> SUFFICES ASSUME NEW j \in 1 .. Len(r), r[j] \in D PROVE \E l \in j + 1 .. Len(r) : r[l] \in U
    BY DEF Closed
  <2>1. j + 1 \in 1 .. Len(q) /\ q[j + 1] \in D
    BY <1>1
  <2> QED
    BY <1>2, <2>1
<1>4. Head(q) \in D => Has(r, U)
  BY <1>1, <1>2 DEF Has
<1> QED
  BY <1>3, <1>4 DEF r

LEMMA NoneClosed ==
  ASSUME NEW q, NEW D, NEW U, ~Has(q, D)
  PROVE  Closed(q, D, U)
  BY DEF Has, Closed

LEMMA ShortQueues ==
  ASSUME NEW m, NEW n, NEW S
  PROVE  /\ ~Has(<<>>, S) /\ (Has(<<m>>, S) <=> m \in S)
         /\ (Has(<<m, n>>, S) <=> m \in S \/ n \in S)
<1>1. Len(<<>>) = 0 /\ Len(<<m>>) = 1 /\ Len(<<m, n>>) = 2
  OBVIOUS
<1>2. <<m>>[1] = m /\ <<m, n>>[1] = m /\ <<m, n>>[2] = n
  OBVIOUS
<1>3. 1 .. 0 = {} /\ 1 .. 1 = {1} /\ 1 .. 2 = {1, 2}
  OBVIOUS
<1> QED
  BY <1>1, <1>2, <1>3 DEF Has

LEMMA LastReplaced ==
  ASSUME NEW T, NEW q \in Seq(T), q # <<>>, NEW m \in T, NEW D, NEW U,
         q[Len(q)] \notin D \cup U, m \notin D \cup U
  PROVE  LET r == [q EXCEPT ![Len(q)] = m]
         IN  (Has(r, U) <=> Has(q, U)) /\ (Closed(q, D, U) => Closed(r, D, U))
<1> DEFINE r == [q EXCEPT ![Len(q)] = m]
<1>1. /\ Len(q) \in Nat /\ Len(r) = Len(q) /\ r[Len(q)] = m
      /\ \A j \in 1 .. Len(q) : j # Len(q) => r[j] = q[j]
  OBVIOUS
<1> HIDE DEF r
<1>2. \A j \in 1 .. Len(q) : (r[j] \in D <=> q[j] \in D) /\ (r[j] \in U <=> q[j] \in U)
  BY <1>1
<1>3. Has(r, U) <=> Has(q, U)
  BY <1>1, <1>2 DEF Has
<1>4. Closed(q, D, U) => Closed(r, D, U)
  <2> SUFFICES ASSUME Closed(q, D, U), NEW j \in 1 .. Len(r), r[j] \in D
               PROVE  \E l \in j + 1 .. Len(r) : r[l] \in U
    BY DEF Closed
  <2>1. PICK l \in j + 1 .. Len(q) : q[l] \in U
    BY <1>1, <1>2 DEF Closed
  <2>2. l \in 1 .. Len(q)
    BY <1>1, <2>1
  <2> QED
    BY <1>1, <1>2, <2>1, <2>2
<1> QED
  BY <1>3, <1>4 DEF r

-----------------------------------------------------------------------------
(* Where a release of an input that is held, or on its way to be, waits.  A *)
(* key is followed if no other key has its virtual key: the handler takes   *)
(* such a key for the other.                                                *)
Own(i) == \A k \in Keys : i \in Keys /\ Vk[k] = Vk[i] => k = i
Unexcused(i) == i \notin overtaken \cup abandoned

DownOf(i) == {m \in Messages : m.type = "down" /\ m.input = i}
UpOf(i) == {m \in Messages : m.type = "up" /\ m.input = i}
LetOf(i) == UpOf(i) \cup {m \in Messages : m.type = "reset"}

\* On the way to the transport queue, from the state manager to the handlers, and in hand.
GoUp(i) == authorized # NoSession /\ Has(goKeys, UpOf(i))
PionUp(i) == pion.at = "push" /\ pion.msg \in UpOf(i)
Coming(i) == PionUp(i) \/ GoUp(i)
Pending(i) ==
    \/ proc.at = "forward" /\ proc.out \cap UpOf(i) # {}
    \/ \E t \in Threads : reset[t].at = "forward" /\ i \in reset[t].out
HandUp(thread, i) == thread.at \in {"fsm", "inject"} /\ thread.ev.type # "down" /\ thread.ev.input = i
InInject(i) == \E t \in Threads : reset[t].at = "inject" /\ i \in reset[t].out

Shown(i) == i \in os \ withheld
Live(i) == Shown(i) \/ i \in InTheHandlers

\* The Go library: a press is followed by its release, or still held by the player.
GoFollowed(i) ==
    authorized # NoSession => i \in clientHeld \/ Closed(goKeys, DownOf(i), UpOf(i))

PipeFollowed(i) ==
    i \notin clientHeld =>
        /\ proc.at = "state" /\ proc.msg \in DownOf(i) => Has(tq, LetOf(i)) \/ Coming(i)
        /\ Closed(tq, DownOf(i), LetOf(i)) \/ Coming(i)
        /\ pion.at = "push" /\ pion.msg \in DownOf(i) => GoUp(i)

\* What the state manager holds as Pressed, and is or will be held, is still to be released.
PressedFollowed(i) ==
    i \in pressed \ clientHeld /\ Live(i) =>
        \/ proc.at = "state" /\ proc.msg \in LetOf(i)
        \/ Has(tq, LetOf(i)) \/ Coming(i)
        \/ \E t \in Threads : reset[t].at = "state"

ForwardPressed(i) == proc.at = "forward" /\ proc.out \cap DownOf(i) # {} => i \in pressed

\* What it does not hold any more has its release behind it.
QueuesFollowed(i) ==
    /\ Closed(kq, DownOf(i), UpOf(i)) \/ Pending(i)
    /\ Closed(mq, DownOf(i), UpOf(i)) \/ Pending(i)
HandsFollowed(i) ==
    /\ i \in InHand(kb) => Has(kq, UpOf(i)) \/ Pending(i) \/ spill = "release"
    /\ i \in InHand(ms) => Has(mq, UpOf(i)) \/ Pending(i)
ShownFollowed(i) ==
    Shown(i) => \/ HandUp(kb, i) \/ HandUp(ms, i) \/ Has(kq, UpOf(i)) \/ Has(mq, UpOf(i))
                \/ Pending(i) \/ InInject(i) \/ (i \in Keys /\ spill = "release")
HandlersFollowed(i) ==
    i \notin pressed => QueuesFollowed(i) /\ HandsFollowed(i) /\ ShownFollowed(i)

\* The release of a key that is not reported would be ignored.
KeyReported(i) ==
    i \in Keys /\ (Shown(i) \/ i \in InHand(kb)) => i \in reported \/ HandUp(kb, i)

Front(i) == PipeFollowed(i) /\ PressedFollowed(i)
Back(i) == ForwardPressed(i) /\ HandlersFollowed(i) /\ KeyReported(i)
Chain(i) == Unexcused(i) => GoFollowed(i) /\ (phase = "running" => Front(i) /\ Back(i))

SessionOwn ==
    /\ clientSession # NoSession => authorized = clientSession
    /\ authorized # NoSession => ~Has(goKeys, {m \in Messages : m.type = "up" /\ m.session # authorized})
    /\ ~Has(goMouse, {m \in Messages : m.type \in {"down", "up"}})

\* What a stop leaves behind.
LeftBehind ==
    /\ phase \in {"cleared", "stopped"} \/ (phase = "resetting" /\ reset["control"].at # "state")
         => pressed = {}
    /\ phase \in {"cleared", "stopped"} => tq = <<>> /\ reset["recovery"].at = "idle"
    /\ phase \notin {"running", "joining"} => proc = Idle
    /\ phase = "stopped" => spill = "none"
    /\ phase = "running" => kb \notin {Leaving, Gone} /\ ms \notin {Leaving, Gone}

QInv == SessionOwn /\ LeftBehind /\ \A i \in Inputs : Own(i) => Chain(i)

-----------------------------------------------------------------------------
LEMMA QueuesHold ==
  ASSUME Shape
  PROVE  /\ \A q \in {goKeys, goMouse, tq, kq, mq} : q \in Seq(Messages)
         /\ pion.at = "push" => pion.msg \in Messages
         /\ proc.at = "state" => proc.msg \in Messages
         /\ proc.at = "forward" => proc.out \subseteq Messages
         /\ kb.at \in {"fsm", "inject"} => kb.ev \in KeyEvents
         /\ ms.at \in {"fsm", "inject"} => ms.ev \in MouseEvents /\ ms.ev.input \in Buttons
<1>1. /\ Sendable \subseteq Messages /\ KeyEvents \subseteq Messages /\ MouseEvents \subseteq Messages
      /\ Decided \subseteq Messages
  BY DEF Sendable, KeyEvents, MouseEvents, Decided
<1>2. \A q \in {goKeys, goMouse, tq, kq, mq} : q \in Seq(Messages)
  <2>1. \A S \in SUBSET Messages : \A q \in Seq(S) : q \in Seq(Messages)
    OBVIOUS
  <2>2. /\ goKeys \in Seq(Sendable) /\ goMouse \in Seq(Sendable) /\ tq \in Seq(Sendable)
        /\ kq \in Seq(KeyEvents) /\ mq \in Seq(MouseEvents)
    BY DEF Shape
  <2> QED
    BY <1>1, <2>1, <2>2
<1>3. pion.at = "push" => pion.msg \in Messages
  BY <1>1 DEF Shape, Idle
<1>4. (proc.at = "state" => proc.msg \in Messages) /\ (proc.at = "forward" => proc.out \subseteq Messages)
  BY <1>1 DEF Shape, Idle
<1>5. kb.at \in {"fsm", "inject"} => kb.ev \in KeyEvents
  BY DEF Shape, Idle, Leaving, Gone
<1>6. ms.at \in {"fsm", "inject"} => ms.ev \in MouseEvents /\ ms.ev.input \in Buttons
  BY DEF Shape, Idle, Leaving, Gone
<1> QED
  BY <1>2, <1>3, <1>4, <1>5, <1>6

LEMMA DownsHas ==
  ASSUME NEW q \in Seq(Messages), NEW i
  PROVE  i \in Downs(Range(q)) <=> Has(q, DownOf(i))
<1>1. DOMAIN q = 1 .. Len(q) /\ \A j \in 1 .. Len(q) : q[j] \in Messages
  OBVIOUS
<1>2. i \in Downs(Range(q)) <=> \E j \in 1 .. Len(q) : q[j].type = "down" /\ q[j].input = i
  BY <1>1 DEF Downs, Range
<1> QED
  BY <1>1, <1>2 DEF Has, DownOf

LEMMA UpsHas ==
  ASSUME NEW q \in Seq(Messages), NEW i
  PROVE  i \in Ups(Range(q)) <=> Has(q, UpOf(i))
<1>1. DOMAIN q = 1 .. Len(q) /\ \A j \in 1 .. Len(q) : q[j] \in Messages
  OBVIOUS
<1>2. i \in Ups(Range(q)) <=> \E j \in 1 .. Len(q) : q[j].type = "up" /\ q[j].input = i
  BY <1>1 DEF Ups, Range
<1> QED
  BY <1>1, <1>2 DEF Has, UpOf

LEMMA DownsOfTwo ==
  ASSUME NEW S, NEW T
  PROVE  Downs(S \cup T) = Downs(S) \cup Downs(T)
  BY DEF Downs

LEMMA Whereabouts ==
  Shape => \A i :
         /\ i \in InGo <=> Has(goKeys, DownOf(i))
         /\ i \in InThePipe <=> \/ Has(tq, DownOf(i))
                                \/ pion.at = "push" /\ pion.msg \in DownOf(i)
                                \/ proc.at = "state" /\ proc.msg \in DownOf(i)
         /\ i \in BeingForwarded <=> proc.at = "forward" /\ proc.out \cap DownOf(i) # {}
         /\ i \in InTheHandlers <=> \/ i \in BeingForwarded
                                    \/ Has(kq, DownOf(i)) \/ Has(mq, DownOf(i))
                                    \/ i \in InHand(kb) \/ i \in InHand(ms)
<1> SUFFICES ASSUME Shape, NEW i
             PROVE  /\ i \in InGo <=> Has(goKeys, DownOf(i))
                    /\ i \in InThePipe <=> \/ Has(tq, DownOf(i))
                                           \/ pion.at = "push" /\ pion.msg \in DownOf(i)
                                           \/ proc.at = "state" /\ proc.msg \in DownOf(i)
                    /\ i \in BeingForwarded <=> proc.at = "forward" /\ proc.out \cap DownOf(i) # {}
                    /\ i \in InTheHandlers <=> \/ i \in BeingForwarded
                                               \/ Has(kq, DownOf(i)) \/ Has(mq, DownOf(i))
                                               \/ i \in InHand(kb) \/ i \in InHand(ms)
  OBVIOUS
<1>0. /\ \A q \in {goKeys, tq, kq, mq} : i \in Downs(Range(q)) <=> Has(q, DownOf(i))
      /\ pion.at = "push" => pion.msg \in Messages
      /\ proc.at = "state" => proc.msg \in Messages
      /\ proc.at = "forward" => proc.out \subseteq Messages
  BY QueuesHold, DownsHas
<1> DEFINE P == IF pion.at = "push" THEN {pion.msg} ELSE {}
           Q == IF proc.at = "state" THEN {proc.msg} ELSE {}
<1>1. i \in InGo <=> Has(goKeys, DownOf(i))
  BY <1>0 DEF InGo
<1>2. i \in Downs(P) <=> pion.at = "push" /\ pion.msg \in DownOf(i)
  BY <1>0 DEF Downs, DownOf
<1>3. i \in Downs(Q) <=> proc.at = "state" /\ proc.msg \in DownOf(i)
  BY <1>0 DEF Downs, DownOf
<1>4. InThePipe = Downs(Range(tq)) \cup Downs(P) \cup Downs(Q)
  <2>1. Downs(Range(tq) \cup P \cup Q) = Downs(Range(tq)) \cup Downs(P) \cup Downs(Q)
    <3> HIDE DEF P, Q
    <3>1. /\ Downs(Range(tq) \cup P) = Downs(Range(tq)) \cup Downs(P)
          /\ Downs((Range(tq) \cup P) \cup Q) = Downs(Range(tq) \cup P) \cup Downs(Q)
      BY DownsOfTwo, Zenon
    <3> QED
      BY <3>1
  <2> QED
    BY <2>1 DEF InThePipe
<1>5. i \in BeingForwarded <=> proc.at = "forward" /\ proc.out \cap DownOf(i) # {}
  BY <1>0 DEF BeingForwarded, Downs, DownOf
<1>6. Downs(Range(kq) \cup Range(mq)) = Downs(Range(kq)) \cup Downs(Range(mq))
  BY DownsOfTwo
<1> HIDE DEF P, Q
<1> QED
  BY <1>0, <1>1, <1>2, <1>3, <1>4, <1>5, <1>6 DEF InTheHandlers

LEMMA WhereaboutsNext ==
  Shape' => \A i : i \in InTheHandlers' <=>
                       \/ i \in BeingForwarded'
                       \/ Has(kq', DownOf(i)) \/ Has(mq', DownOf(i))
                       \/ i \in InHand(kb)' \/ i \in InHand(ms)'
<1>1. (Shape => \A i : i \in InTheHandlers <=>
                       \/ i \in BeingForwarded
                       \/ Has(kq, DownOf(i)) \/ Has(mq, DownOf(i))
                       \/ i \in InHand(kb) \/ i \in InHand(ms))'
  <2>1. Shape => \A i : i \in InTheHandlers <=>
                       \/ i \in BeingForwarded
                       \/ Has(kq, DownOf(i)) \/ Has(mq, DownOf(i))
                       \/ i \in InHand(kb) \/ i \in InHand(ms)
    BY Whereabouts
  <2> QED
    BY <2>1, PTL
<1> QED
  BY <1>1

LEMMA WhereaboutsForward ==
  Shape' => \A i : i \in BeingForwarded' <=> proc'.at = "forward" /\ proc'.out \cap DownOf(i) # {}
<1>1. (Shape => \A i : i \in BeingForwarded <=> proc.at = "forward" /\ proc.out \cap DownOf(i) # {})'
  <2>1. Shape => \A i : i \in BeingForwarded <=> proc.at = "forward" /\ proc.out \cap DownOf(i) # {}
    BY Whereabouts
  <2> QED
    BY <2>1, PTL
<1> QED
  BY <1>1

-----------------------------------------------------------------------------
(* An input that is nowhere on its way, and not held, is followed. *)
Absent(i) == i \notin InGo \cup InThePipe \cup InTheHandlers \cup os

LEMMA AbsentFollowed == Shape => \A i : Absent(i) => GoFollowed(i) /\ Front(i) /\ Back(i)
<1> SUFFICES ASSUME Shape, NEW i, Absent(i) PROVE GoFollowed(i) /\ Front(i) /\ Back(i)
  OBVIOUS
<1>1. i \notin InGo /\ i \notin InThePipe /\ i \notin InTheHandlers /\ i \notin os
  BY DEF Absent
<1>2. /\ ~Has(goKeys, DownOf(i)) /\ ~Has(tq, DownOf(i)) /\ ~Has(kq, DownOf(i)) /\ ~Has(mq, DownOf(i))
      /\ ~(pion.at = "push" /\ pion.msg \in DownOf(i)) /\ ~(proc.at = "state" /\ proc.msg \in DownOf(i))
      /\ ~(proc.at = "forward" /\ proc.out \cap DownOf(i) # {})
      /\ i \notin InHand(kb) /\ i \notin InHand(ms)
  BY <1>1, Whereabouts
<1>3. \A U : /\ Closed(goKeys, DownOf(i), U) /\ Closed(tq, DownOf(i), U)
             /\ Closed(kq, DownOf(i), U) /\ Closed(mq, DownOf(i), U)
  BY <1>2, NoneClosed
<1>4. ~Live(i) /\ ~Shown(i)
  BY <1>1 DEF Live, Shown
<1>5. GoFollowed(i) /\ Front(i)
  BY <1>2, <1>3, <1>4 DEF GoFollowed, Front, PipeFollowed, PressedFollowed
<1>6. Back(i)
  BY <1>2, <1>3, <1>4 DEF Back, ForwardPressed, HandlersFollowed, QueuesFollowed, HandsFollowed, ShownFollowed,
     KeyReported
<1> QED
  BY <1>5, <1>6

LEMMA AbsentFollowedNext ==
  (Shape => \A i : Absent(i) => GoFollowed(i) /\ Front(i) /\ Back(i))'
  BY AbsentFollowed, PTL

(* What a step that changes nothing of it leaves true. *)
LEMMA FrontKept ==
  ASSUME NEW i, Front(i), UNCHANGED <<pion, tq, pressed>>,
         i \in clientHeld => i \in clientHeld', GoUp(i) => GoUp(i)', Live(i)' => Live(i),
         proc' = proc \/ (proc.at # "state" /\ proc'.at # "state"),
         \A t \in Threads : reset[t].at = "state" => reset'[t].at = "state"
  PROVE  Front(i)'
<1>1. Coming(i) => Coming(i)'
  BY DEF Coming, PionUp
<1>2. PipeFollowed(i)'
  BY <1>1 DEF Front, PipeFollowed
<1>3. PressedFollowed(i)'
  BY <1>1 DEF Front, PressedFollowed
<1> QED
  BY <1>2, <1>3 DEF Front

LEMMA GoKept ==
  ASSUME NEW i, GoFollowed(i), UNCHANGED <<clientHeld, clientSession, goKeys, authorized>>
  PROVE  GoFollowed(i)' /\ (GoUp(i) => GoUp(i)')
  BY DEF GoFollowed, GoUp

LEMMA BackKept ==
  ASSUME NEW i, Back(i), UNCHANGED <<pressed, kq, mq, kb, ms, spill, os, withheld, reported>>,
         proc' = proc \/ (proc.at # "forward" /\ proc'.at # "forward"),
         \A t \in Threads : reset[t].at \in {"forward", "inject"} => reset'[t] = reset[t]
  PROVE  Back(i)'
<1>1. (Pending(i) => Pending(i)') /\ (InInject(i) => InInject(i)')
  BY DEF Pending, InInject
<1>2. /\ InHand(kb)' = InHand(kb) /\ InHand(ms)' = InHand(ms) /\ (Shown(i)' <=> Shown(i))
      /\ (HandUp(kb, i)' <=> HandUp(kb, i)) /\ (HandUp(ms, i)' <=> HandUp(ms, i))
  BY DEF InHand, Shown, HandUp
<1>3. ForwardPressed(i)'
  BY DEF Back, ForwardPressed
<1>4. HandlersFollowed(i)'
  BY <1>1, <1>2 DEF Back, HandlersFollowed, QueuesFollowed, HandsFollowed, ShownFollowed
<1>5. KeyReported(i)'
  BY <1>2 DEF Back, KeyReported
<1> QED
  BY <1>3, <1>4, <1>5 DEF Back

LEMMA LiveKept ==
  ASSUME Shape, Shape', NEW i, UNCHANGED <<kq, mq, kb, ms, os, withheld>>,
         proc' = proc \/ proc'.at # "forward"
  PROVE  Live(i)' => Live(i)
<1>1. InHand(kb)' = InHand(kb) /\ InHand(ms)' = InHand(ms) /\ (Shown(i)' <=> Shown(i))
  BY DEF InHand, Shown
<1>2. i \in BeingForwarded' => i \in BeingForwarded
  BY DEF BeingForwarded
<1> QED
  BY <1>1, <1>2, Whereabouts, WhereaboutsNext DEF Live

-----------------------------------------------------------------------------
(* The player and the Go queues. *)
LEMMA GoEnqueued ==
  ASSUME NEW q \in Seq(Messages), NEW m \in Messages, NEW i
  PROVE  /\ \A S : Has(GoEnqueue(q, m), S) => Has(q, S) \/ m \in S \/ Reset \in S
         /\ m \in UpOf(i) => /\ Has(GoEnqueue(q, m), UpOf(i))
                             /\ Closed(GoEnqueue(q, m), DownOf(i), UpOf(i))
         /\ Len(q) < GoCap => /\ Has(q, UpOf(i)) => Has(GoEnqueue(q, m), UpOf(i))
                              /\ Closed(q, DownOf(i), UpOf(i)) /\ m \notin DownOf(i)
                                   => Closed(GoEnqueue(q, m), DownOf(i), UpOf(i))
         /\ ~(Len(q) < GoCap) => Closed(GoEnqueue(q, m), DownOf(i), UpOf(i))
<1>0. Len(q) \in Nat /\ GoCap \in Nat /\ Reset \in Messages
  BY InputAssumption DEF Reset, Messages
<1>1. CASE Len(q) < GoCap
  <2>1. GoEnqueue(q, m) = Append(q, m)
    BY <1>0, <1>1 DEF GoEnqueue
  <2>2. m \in UpOf(i) => m \notin DownOf(i)
    BY DEF UpOf, DownOf
  <2> QED
    BY <1>1, <2>1, <2>2, AppendHas, AppendClosed
<1>2. CASE ~(Len(q) < GoCap)
  <2>1. GoEnqueue(q, m) = IF IsRelease(m) THEN <<Reset, m>> ELSE <<Reset>>
    BY <1>0, <1>2 DEF GoEnqueue
  <2>2. Reset \notin DownOf(i) /\ (IsRelease(m) => m \notin DownOf(i)) /\ (m \in UpOf(i) => IsRelease(m))
    BY DEF Reset, DownOf, UpOf, IsRelease
  <2>3. \A S : Has(GoEnqueue(q, m), S) => m \in S \/ Reset \in S
    BY <2>1, ShortQueues
  <2>4. ~Has(GoEnqueue(q, m), DownOf(i))
    BY <2>1, <2>2, ShortQueues
  <2>5. m \in UpOf(i) => Has(GoEnqueue(q, m), UpOf(i))
    <3>1. Has(<<Reset, m>>, UpOf(i)) <=> Reset \in UpOf(i) \/ m \in UpOf(i)
      BY ShortQueues
    <3>2. m \in UpOf(i) => GoEnqueue(q, m) = <<Reset, m>>
      BY <2>1, <2>2
    <3> QED
      BY <3>1, <3>2
  <2> QED
    BY <1>2, <2>3, <2>4, <2>5, NoneClosed
<1> QED
  BY <1>1, <1>2

LEMMA TransitionFollowed ==
  ASSUME Shape, Shape', SessionOwn, NEW i \in Inputs, Chain(i), NEW j \in Inputs, Press(j) \/ Release(j)
  PROVE  Chain(i)'
<1> PICK type \in {"down", "up"} :
       /\ Transition(type, j)
       /\ type = "down" => clientHeld' = clientHeld \cup {j}
       /\ type = "up" => clientHeld' = clientHeld \ {j}
  BY DEF Press, Release
<1> DEFINE n == IF j \in Keys THEN keySeq + 1 ELSE 0
           m == [type |-> type, input |-> j, session |-> clientSession, seq |-> n]
<1>1. m \in Messages
  <2>1. n \in Nat /\ clientSession \in Sessions \cup {NoSession}
    BY DEF Shape
  <2> HIDE DEF n
  <2> QED
    BY <2>1 DEF Messages
<1>2. /\ m.type = type /\ m.input = j
      /\ goKeys' = GoEnqueue(goKeys, m)
      /\ abandoned' = abandoned \cup (Discarded \ {j})
      /\ clientSession # NoSession
      /\ UNCHANGED <<authorized, pion, tq, proc, pressed, handlers, reset, phase, os, withheld, overtaken>>
  BY DEF Transition
<1> HIDE DEF m
<1> SUFFICES ASSUME Unexcused(i)'
             PROVE  GoFollowed(i)' /\ (phase' = "running" => Front(i)' /\ Back(i)')
  BY DEF Chain
<1>3. Unexcused(i) /\ GoFollowed(i) /\ (i # j => i \notin Discarded)
  BY <1>2 DEF Unexcused, Chain
<1>4. goKeys \in Seq(Messages) /\ authorized # NoSession
  BY <1>2, QueuesHold DEF SessionOwn
<1>5. UNCHANGED <<kq, mq, kb, ms, spill, reported>>
  BY <1>2 DEF handlers
<1>6. phase' = "running" => Back(i)'
  BY <1>2, <1>3, <1>5, BackKept DEF Chain
<1>7. Live(i)' => Live(i)
  BY <1>2, <1>5, LiveKept
<1>8. CASE type = "up" /\ j = i
  <2>1. m \in UpOf(i)
    BY <1>1, <1>2, <1>8 DEF UpOf
  <2>2. Has(goKeys', UpOf(i)) /\ Closed(goKeys', DownOf(i), UpOf(i))
    BY <1>1, <1>2, <1>4, <2>1, GoEnqueued
  <2>3. GoUp(i)' /\ GoFollowed(i)'
    BY <1>2, <1>4, <2>2 DEF GoUp, GoFollowed
  <2>4. Front(i)'
    BY <2>3 DEF Front, PipeFollowed, PressedFollowed, Coming
  <2> QED
    BY <1>6, <2>3, <2>4
<1>9. CASE ~(type = "up" /\ j = i)
  <2>1. i \in clientHeld => i \in clientHeld'
    BY <1>9
  <2>2. GoUp(i) => i \in clientHeld' \/ GoUp(i)'
    <3>1. CASE i = j
      BY <1>9, <3>1
    <3>2. CASE Len(goKeys) < GoCap
      BY <1>1, <1>2, <1>4, <3>2, GoEnqueued DEF GoUp
    <3>3. CASE i # j /\ ~(Len(goKeys) < GoCap)
      BY <1>3, <1>4, <3>3, UpsHas DEF Discarded, GoUp
    <3> QED
      BY <3>1, <3>2, <3>3
  <2>3. GoFollowed(i)'
    <3>1. CASE i = j
      BY <1>2, <1>9, <3>1 DEF GoFollowed
    <3>2. CASE i # j
      <4>1. m \notin DownOf(i)
        BY <1>2, <3>2 DEF DownOf
      <4> QED
        BY <1>1, <1>2, <1>3, <1>4, <2>1, <4>1, GoEnqueued DEF GoFollowed
    <3> QED
      BY <3>1, <3>2
  <2>4. i \in clientHeld' => Front(i)'
    BY DEF Front, PipeFollowed, PressedFollowed
  <2>5. phase = "running" => Front(i)'
    BY <1>2, <1>3, <1>7, <2>1, <2>2, <2>4, FrontKept DEF Chain
  <2> QED
    BY <1>2, <1>6, <2>3, <2>5
<1> QED
  BY <1>8, <1>9

LEMMA ClosedChannels ==
  ASSUME Shape, NEW i, ChannelsClose, authorized' = authorized, i \notin Severed, GoFollowed(i)
  PROVE  GoFollowed(i)' /\ (GoUp(i) => GoUp(i)')
<1>1. goKeys \in Seq(Messages) /\ Reset \in Messages
  BY QueuesHold DEF Reset, Messages
<1>2. Reset \notin DownOf(i) /\ goKeys' = GoEnqueue(goKeys, Reset)
  BY DEF ChannelsClose, Reset, DownOf
<1>3. GoFollowed(i)'
  BY <1>1, <1>2, GoEnqueued DEF GoFollowed, Severed
<1>4. GoUp(i) => GoUp(i)'
  <2>1. CASE Len(goKeys) < GoCap
    BY <1>1, <1>2, <2>1, GoEnqueued DEF GoUp
  <2>2. CASE ~(Len(goKeys) < GoCap)
    BY <1>1, <2>2, UpsHas DEF GoUp, Severed, Discarded
  <2> QED
    BY <2>1, <2>2
<1> QED
  BY <1>3, <1>4

\* The channels of the player close: what the player held and what the queue loses is excused.
LEMMA CloseFollowed ==
  ASSUME Shape, Shape', NEW i \in Inputs, Chain(i), ChannelLost \/ CloseAfterReset
  PROVE  Chain(i)'
<1>1. /\ ChannelsClose /\ abandoned' = abandoned \cup Severed
      /\ UNCHANGED <<authorized, pion, tq, proc, pressed, handlers, phase, os, withheld, overtaken>>
  BY DEF ChannelLost, CloseAfterReset
<1> SUFFICES ASSUME Unexcused(i)'
             PROVE  GoFollowed(i)' /\ (phase' = "running" => Front(i)' /\ Back(i)')
  BY DEF Chain
<1>2. Unexcused(i) /\ i \notin Severed /\ i \notin clientHeld
  BY <1>1 DEF Unexcused, Severed
<1>3. GoFollowed(i)' /\ (GoUp(i) => GoUp(i)')
  BY <1>1, <1>2, ClosedChannels DEF Chain
<1>4. Live(i)' => Live(i)
  BY <1>1, LiveKept DEF handlers
<1>5. /\ \A t \in Threads : reset[t].at \in {"forward", "inject"} => reset'[t] = reset[t]
      /\ \A t \in Threads : reset[t].at = "state" => reset'[t].at = "state"
  <2>1. CASE ChannelLost
    BY <2>1 DEF ChannelLost
  <2>2. CASE CloseAfterReset
    BY <2>2 DEF CloseAfterReset, ControlIdle, Shape
  <2> QED
    BY <2>1, <2>2
<1>6. phase' = "running" => Front(i)' /\ Back(i)'
  BY <1>1, <1>2, <1>3, <1>4, <1>5, FrontKept, BackKept DEF Chain, handlers
<1> QED
  BY <1>3, <1>6

LEMMA EndSessionFollowed ==
  ASSUME Shape, NEW i \in Inputs, Chain(i), EndSession
  PROVE  Chain(i)'
<1>1. /\ clientSession' = NoSession /\ authorized' = NoSession /\ overtaken' = overtaken \cup InThePipe
      /\ reset' = [reset EXCEPT !["control"].at = "state"] /\ reset["control"].at = "idle"
      /\ reset \in [Threads -> ResetStates]
      /\ UNCHANGED <<pion, tq, proc, pressed, handlers, phase, os, withheld, abandoned>>
  BY DEF EndSession, ChannelsClose, ControlIdle, Shape
<1> SUFFICES ASSUME Unexcused(i)'
             PROVE  GoFollowed(i)' /\ (phase' = "running" => Front(i)' /\ Back(i)')
  BY DEF Chain
<1>2. Unexcused(i) /\ i \notin InThePipe
  BY <1>1 DEF Unexcused
<1>3. GoFollowed(i)'
  BY <1>1 DEF GoFollowed
<1>4. /\ ~Has(tq, DownOf(i))
      /\ ~(pion.at = "push" /\ pion.msg \in DownOf(i)) /\ ~(proc.at = "state" /\ proc.msg \in DownOf(i))
  BY <1>2, Whereabouts
<1>5. Closed(tq, DownOf(i), LetOf(i))
  BY <1>4, NoneClosed
<1>6. reset'["control"].at = "state" /\ "control" \in Threads
  BY <1>1 DEF Threads, ResetStates
<1>7. Front(i)'
  BY <1>1, <1>4, <1>5, <1>6 DEF Front, PipeFollowed, PressedFollowed
<1>8. \A t \in Threads : reset[t].at \in {"forward", "inject"} => reset'[t] = reset[t]
  BY <1>1
<1>9. phase' = "running" => Back(i)'
  BY <1>1, <1>2, <1>8, BackKept DEF Chain, handlers
<1> QED
  BY <1>3, <1>7, <1>9

\* Steps that leave what is under way, and its releases, as they are.
LEMMA AsideFollowed ==
  ASSUME Shape, Shape', NEW i \in Inputs, Chain(i),
         MovePointer \/ SignalingLost \/ FocusChanges \/ (\E s \in Sessions : AuthorizeSession(s))
           \/ UNCHANGED vars
  PROVE  Chain(i)'
<1>1. /\ UNCHANGED <<clientHeld, pion, tq, proc, pressed, handlers, phase, os, withheld, overtaken>>
      /\ abandoned \subseteq abandoned'
  BY DEF MovePointer, SignalingLost, FocusChanges, AuthorizeSession, vars, player, client, transport, windows,
     history
<1>2. /\ \A t \in Threads : reset[t].at = "state" => reset'[t].at = "state"
      /\ \A t \in Threads : reset[t].at \in {"forward", "inject"} => reset'[t] = reset[t]
  <2>1. CASE SignalingLost
    BY <2>1 DEF SignalingLost, ControlIdle, Shape
  <2>2. CASE reset' = reset
    BY <2>2
  <2> QED
    BY <2>1, <2>2 DEF MovePointer, FocusChanges, AuthorizeSession, vars
<1>3. GoFollowed(i) /\ Unexcused(i)' => GoFollowed(i)' /\ (GoUp(i) => GoUp(i)')
  <2>1. ASSUME NEW s \in Sessions, AuthorizeSession(s), Unexcused(i)'
        PROVE  GoFollowed(i)' /\ (GoUp(i) => GoUp(i)')
    <3>1. /\ authorized \in {NoSession, s} /\ goKeys' = <<>> /\ goKeys \in Seq(Messages)
          /\ authorized = s => i \notin Ups(Range(goKeys))
      BY <2>1, QueuesHold DEF AuthorizeSession, Unexcused
    <3>2. Closed(goKeys', DownOf(i), UpOf(i))
      BY <3>1, ShortQueues, NoneClosed
    <3> QED
      BY <3>1, <3>2, UpsHas DEF GoFollowed, GoUp
  <2>2. CASE MovePointer \/ SignalingLost \/ FocusChanges \/ UNCHANGED vars
    <3>1. UNCHANGED <<clientHeld, clientSession, goKeys, authorized>>
      BY <2>2 DEF MovePointer, SignalingLost, FocusChanges, vars, player, client, transport
    <3> QED
      BY <3>1, GoKept
  <2> QED
    BY <2>1, <2>2
<1>4. Live(i)' => Live(i)
  BY <1>1, LiveKept DEF handlers
<1>5. Front(i) /\ GoFollowed(i) /\ Unexcused(i)' => Front(i)'
  BY <1>1, <1>2, <1>3, <1>4, FrontKept
<1>6. Back(i) => Back(i)'
  BY <1>1, <1>2, BackKept DEF handlers
<1> QED
  BY <1>1, <1>3, <1>5, <1>6 DEF Chain, Unexcused

-----------------------------------------------------------------------------
(* The loops up to the state manager. *)
LEMMA PionTakeFollowed ==
  ASSUME Shape, Shape', SessionOwn, NEW i \in Inputs, Chain(i), PionTake
  PROVE  Chain(i)'
<1>1. /\ pion = Idle
      /\ UNCHANGED <<clientHeld, clientSession, authorized, tq, proc, pressed, handlers, reset, phase, os,
                     withheld, abandoned, overtaken>>
  BY DEF PionTake, client, player, windows, history
<1>2. goKeys \in Seq(Messages) /\ goMouse \in Seq(Messages)
  BY QueuesHold
<1> SUFFICES ASSUME Unexcused(i)'
             PROVE  GoFollowed(i)' /\ (phase' = "running" => Front(i)' /\ Back(i)')
  BY DEF Chain
<1>3. Unexcused(i) /\ GoFollowed(i)
  BY <1>1 DEF Unexcused, Chain
<1>4. phase' = "running" => Back(i)'
  BY <1>1, <1>3, BackKept DEF Chain, handlers
<1>5. Live(i)' => Live(i)
  BY <1>1, LiveKept DEF handlers
<1>6. ~PionUp(i)
  BY <1>1 DEF PionUp, Idle
<1>7. GoFollowed(i)' /\ (Coming(i) => Coming(i)')
      /\ (i \notin clientHeld /\ pion'.at = "push" /\ pion'.msg \in DownOf(i) => GoUp(i)')
  <2>1. CASE goKeys # <<>>
    <3> DEFINE m == Head(goKeys)
    <3>1. /\ goKeys' = Tail(goKeys)
          /\ pion' = IF authorized # NoSession /\ m.session = authorized THEN [at |-> "push", msg |-> m] ELSE Idle
      BY <2>1 DEF PionTake
    <3>2. /\ \A S : Has(goKeys, S) <=> m \in S \/ Has(goKeys', S)
          /\ Closed(goKeys, DownOf(i), UpOf(i))
               => Closed(goKeys', DownOf(i), UpOf(i)) /\ (m \in DownOf(i) => Has(goKeys', UpOf(i)))
      BY <1>2, <2>1, <3>1, TailHas, TailClosed
    <3> HIDE DEF m
    <3>3. GoFollowed(i)'
      BY <1>1, <1>3, <3>2 DEF GoFollowed
    <3>4. ASSUME Coming(i) PROVE Coming(i)'
      <4>1. authorized # NoSession /\ (m \in UpOf(i) \/ Has(goKeys', UpOf(i)))
        BY <1>6, <3>2, <3>4 DEF Coming, GoUp
      <4>2. CASE Has(goKeys', UpOf(i))
        BY <1>1, <4>1, <4>2 DEF Coming, GoUp
      <4>3. CASE m \in UpOf(i)
        <5>1. m \notin {n \in Messages : n.type = "up" /\ n.session # authorized}
          BY <3>2, <4>1 DEF SessionOwn
        <5>2. m.session = authorized
          BY <4>3, <5>1 DEF UpOf
        <5>3. pion' = [at |-> "push", msg |-> m]
          BY <3>1, <4>1, <5>2
        <5> QED
          BY <4>3, <5>3 DEF Coming, PionUp
      <4> QED
        BY <4>1, <4>2, <4>3
    <3>5. ASSUME i \notin clientHeld, pion'.at = "push", pion'.msg \in DownOf(i) PROVE GoUp(i)'
      <4>1. authorized # NoSession /\ m \in DownOf(i)
        BY <3>1, <3>5 DEF Idle
      <4>2. Closed(goKeys, DownOf(i), UpOf(i))
        BY <1>3, <3>2, <3>5, <4>1 DEF GoFollowed
      <4> QED
        BY <1>1, <3>2, <4>1, <4>2 DEF GoUp
    <3> QED
      BY <3>3, <3>4, <3>5
  <2>2. CASE goKeys = <<>>
    <3> DEFINE m == Head(goMouse)
    <3>1. /\ goKeys' = goKeys /\ goMouse # <<>>
          /\ pion' = Idle \/ pion' = [at |-> "push", msg |-> m]
      BY <2>2 DEF PionTake
    <3>2. m \notin {n \in Messages : n.type \in {"down", "up"}}
      BY <1>2, <3>1, TailHas DEF SessionOwn
    <3>3. m \notin DownOf(i)
      BY <3>2 DEF DownOf
    <3> HIDE DEF m
    <3>4. ~(pion'.at = "push" /\ pion'.msg \in DownOf(i))
      BY <3>1, <3>3 DEF Idle
    <3> QED
      BY <1>1, <1>3, <1>6, <3>1, <3>4, GoKept DEF Coming
  <2> QED
    BY <2>1, <2>2
<1>8. phase' = "running" => Front(i)'
  BY <1>1, <1>3, <1>5, <1>7 DEF Chain, Front, PipeFollowed, PressedFollowed
<1> QED
  BY <1>4, <1>7, <1>8

LEMMA PionPushFollowed ==
  ASSUME Shape, Shape', Resting, NEW i \in Inputs, Chain(i), PionPush
  PROVE  Chain(i)'
<1> DEFINE m == pion.msg
           merges == m.type = "move" /\ tq # <<>> /\ tq[Len(tq)].type = "move"
<1>1. /\ pion.at = "push" /\ pion' = Idle
      /\ UNCHANGED <<clientHeld, clientSession, authorized, goKeys, proc, pressed, handlers, phase, os,
                     withheld, abandoned, overtaken>>
  BY DEF PionPush, client, player, windows, history
<1>2. tq \in Seq(Messages) /\ m \in Messages /\ Reset \in Messages
  BY <1>1, QueuesHold DEF Reset, Messages
<1>3. \/ merges /\ tq' = [tq EXCEPT ![Len(tq)] = m]
      \/ tq' = Append(tq, m)
      \/ tq' = <<Reset, m>> /\ IsRelease(m)
      \/ tq' = <<Reset>>
  BY DEF PionPush
<1> SUFFICES ASSUME Unexcused(i)'
             PROVE  GoFollowed(i)' /\ (phase' = "running" => Front(i)' /\ Back(i)')
  BY DEF Chain
<1>4. Unexcused(i) /\ GoFollowed(i)
  BY <1>1 DEF Unexcused, Chain
<1>5. GoFollowed(i)' /\ (GoUp(i) => GoUp(i)')
  BY <1>1, <1>4, GoKept
<1>6. /\ \A t \in Threads : reset[t].at = "state" => reset'[t].at = "state"
      /\ \A t \in Threads : reset[t].at \in {"forward", "inject"} => reset'[t] = reset[t]
  <2>1. reset["pion"].at = "idle" /\ reset \in [Threads -> ResetStates]
    BY <1>1 DEF Resting, Idle, Shape
  <2>2. reset' = reset \/ reset' = [reset EXCEPT !["pion"].at = "state"]
    BY DEF PionPush
  <2> QED
    BY <2>1, <2>2
<1>7. phase' = "running" => Back(i)'
  BY <1>1, <1>4, <1>6, BackKept DEF Chain, handlers
<1>8. Live(i)' => Live(i)
  BY <1>1, LiveKept DEF handlers
<1>9. /\ Has(tq, LetOf(i)) \/ PionUp(i) => Has(tq', LetOf(i))
      /\ m \notin DownOf(i) /\ (Closed(tq, DownOf(i), LetOf(i)) \/ PionUp(i)) => Closed(tq', DownOf(i), LetOf(i))
  <2>0. (PionUp(i) => m \in LetOf(i)) /\ Reset \in LetOf(i) /\ Reset \notin DownOf(i)
    BY <1>2 DEF PionUp, LetOf, DownOf, Reset
  <2>1. CASE merges /\ tq' = [tq EXCEPT ![Len(tq)] = m]
    <3>1. Len(tq) \in 1 .. Len(tq) /\ tq[Len(tq)] \in Messages
      BY <1>2, <2>1
    <3>2. tq[Len(tq)] \notin DownOf(i) \cup LetOf(i) /\ m \notin DownOf(i) \cup LetOf(i)
      BY <2>1 DEF DownOf, LetOf, UpOf
    <3> HIDE DEF m
    <3> QED
      BY <1>2, <2>0, <2>1, <3>1, <3>2, LastReplaced
  <2>2. CASE tq' = Append(tq, m)
    <3> HIDE DEF m
    <3> QED
      BY <1>2, <2>0, <2>2, AppendHas, AppendClosed
  <2>3. CASE tq' = <<Reset, m>> /\ IsRelease(m)
    <3>1. m \notin DownOf(i)
      BY <2>3 DEF IsRelease, DownOf
    <3> HIDE DEF m
    <3> QED
      BY <2>0, <2>3, <3>1, ShortQueues, NoneClosed
  <2>4. CASE tq' = <<Reset>>
    BY <2>0, <2>4, ShortQueues, NoneClosed
  <2> QED
    BY <1>3, <2>1, <2>2, <2>3, <2>4
<1>10. phase = "running" => Front(i)'
  <2> SUFFICES ASSUME phase = "running" PROVE Front(i)'
    OBVIOUS
  <2>1. PipeFollowed(i) /\ PressedFollowed(i)
    BY <1>4 DEF Chain, Front
  <2>2. i \notin clientHeld /\ m \in DownOf(i) => GoUp(i)'
    BY <1>1, <1>5, <2>1 DEF PipeFollowed
  <2>3. Has(tq, LetOf(i)) \/ Coming(i) => Has(tq', LetOf(i)) \/ Coming(i)'
    BY <1>5, <1>9 DEF Coming
  <2>4. i \notin clientHeld => Closed(tq', DownOf(i), LetOf(i)) \/ Coming(i)'
    BY <1>5, <1>9, <2>1, <2>2 DEF Coming, PipeFollowed
  <2>5. PipeFollowed(i)'
    BY <1>1, <2>1, <2>3, <2>4 DEF PipeFollowed, Idle
  <2>6. PressedFollowed(i)'
    BY <1>1, <1>6, <1>8, <2>1, <2>3 DEF PressedFollowed
  <2> QED
    BY <2>5, <2>6 DEF Front
<1> QED
  BY <1>1, <1>5, <1>7, <1>10

LEMMA ProcTakeFollowed ==
  ASSUME Shape, Shape', NEW i \in Inputs, Chain(i), ProcTake
  PROVE  Chain(i)'
<1> DEFINE m == Head(tq)
<1>1. /\ proc = Idle /\ tq # <<>> /\ tq' = Tail(tq) /\ proc' = [at |-> "state", msg |-> m]
      /\ UNCHANGED <<clientHeld, clientSession, authorized, goKeys, pion, pressed, handlers, reset, phase, os,
                     withheld, abandoned, overtaken>>
  BY DEF ProcTake, client, player, windows, history
<1>2. tq \in Seq(Messages) /\ phase = "running"
  BY QueuesHold DEF ProcTake
<1>3. /\ Has(tq, LetOf(i)) <=> m \in LetOf(i) \/ Has(tq', LetOf(i))
      /\ Closed(tq, DownOf(i), LetOf(i))
           => Closed(tq', DownOf(i), LetOf(i)) /\ (m \in DownOf(i) => Has(tq', LetOf(i)))
  BY <1>1, <1>2, TailHas, TailClosed
<1>4. proc'.at = "state" /\ proc'.msg = m /\ proc.at = "wait"
  BY <1>1 DEF Idle
<1> HIDE DEF m
<1> SUFFICES ASSUME Unexcused(i)' PROVE GoFollowed(i)' /\ Front(i)' /\ Back(i)'
  BY DEF Chain
<1>5. Unexcused(i) /\ GoFollowed(i) /\ Front(i) /\ Back(i)
  BY <1>1, <1>2 DEF Unexcused, Chain
<1>6. GoFollowed(i)' /\ (Coming(i) => Coming(i)')
  BY <1>1, <1>5, GoKept DEF Coming, PionUp
<1>7. Back(i)'
  BY <1>1, <1>4, <1>5, BackKept DEF handlers
<1>8. Live(i)' => Live(i)
  BY <1>1, <1>4, LiveKept DEF handlers
<1>9. PipeFollowed(i)'
  BY <1>1, <1>3, <1>4, <1>5, <1>6 DEF Front, PipeFollowed, GoUp
<1>10. PressedFollowed(i)'
  BY <1>1, <1>3, <1>4, <1>5, <1>6, <1>8 DEF Front, PressedFollowed
<1> QED
  BY <1>6, <1>7, <1>9, <1>10 DEF Front

-----------------------------------------------------------------------------
(* The state manager: what leaves it has its release forwarded. *)
LEMMA Forgotten ==
  ASSUME NEW i, Back(i), UNCHANGED <<kq, mq, kb, ms, spill, os, withheld, reported>>, ForwardPressed(i)',
         InInject(i) => InInject(i)',
         i \notin pressed' => Pending(i)' \/ (i \notin pressed /\ (Pending(i) => Pending(i)'))
  PROVE  Back(i)'
<1>1. /\ InHand(kb)' = InHand(kb) /\ InHand(ms)' = InHand(ms) /\ (Shown(i)' <=> Shown(i))
      /\ (HandUp(kb, i)' <=> HandUp(kb, i)) /\ (HandUp(ms, i)' <=> HandUp(ms, i))
  BY DEF InHand, Shown, HandUp
<1>2. HandlersFollowed(i)'
  <2>1. CASE Pending(i)'
    BY <2>1 DEF HandlersFollowed, QueuesFollowed, HandsFollowed, ShownFollowed
  <2>2. CASE i \notin pressed /\ (Pending(i) => Pending(i)')
    BY <1>1, <2>2 DEF Back, HandlersFollowed, QueuesFollowed, HandsFollowed, ShownFollowed
  <2> QED
    BY <2>1, <2>2 DEF HandlersFollowed
<1>3. KeyReported(i)'
  BY <1>1 DEF Back, KeyReported
<1> QED
  BY <1>2, <1>3 DEF Back

LEMMA ProcStateFollowed ==
  ASSUME Shape, Shape', LeftBehind, NEW i \in Inputs, Chain(i), ProcState
  PROVE  Chain(i)'
<1> DEFINE m == proc.msg
           duplicate == m.type # "move" /\ (m.type = "down") = (m.input \in pressed)
<1>1. /\ proc.at = "state"
      /\ UNCHANGED <<clientHeld, clientSession, authorized, goKeys, pion, tq, handlers, reset, phase, os,
                     withheld, abandoned, overtaken>>
  BY DEF ProcState, client, player, windows, history
<1>2. m \in Messages
  BY <1>1, QueuesHold
<1>3. \/ /\ m.type = "reset" /\ pressed' = {}
         /\ proc' = IF pressed = {} THEN Idle ELSE [at |-> "forward", out |-> {Up(j) : j \in pressed}]
      \/ /\ m.type # "reset"
         /\ pressed' = CASE m.type = "down" -> pressed \cup {m.input}
                         [] m.type = "up" -> pressed \ {m.input}
                         [] OTHER -> pressed
         /\ proc' = IF duplicate THEN Idle ELSE [at |-> "forward", out |-> {m}]
  BY DEF ProcState
<1>4. Idle.at = "wait"
  BY DEF Idle
<1> SUFFICES ASSUME Unexcused(i)'
             PROVE  GoFollowed(i)' /\ (phase' = "running" => Front(i)' /\ Back(i)')
  BY DEF Chain
<1>5. Unexcused(i) /\ GoFollowed(i)
  BY <1>1 DEF Unexcused, Chain
<1>6. GoFollowed(i)'
  BY <1>1, <1>5, GoKept
<1> SUFFICES ASSUME phase = "running" PROVE Front(i)' /\ Back(i)'
  BY <1>1, <1>6
<1>7. Front(i) /\ Back(i)
  BY <1>5 DEF Chain
<1>8. Coming(i)' <=> Coming(i)
  BY <1>1 DEF Coming, PionUp, GoUp
<1>9. proc'.at # "state"
  BY <1>3, <1>4
<1>10. PipeFollowed(i)'
  BY <1>1, <1>7, <1>8, <1>9 DEF Front, PipeFollowed, GoUp
<1>11. (Pending(i) => Pending(i)') /\ (InInject(i) => InInject(i)')
  BY <1>1 DEF Pending, InInject
<1>12. /\ i \in pressed' \/ Pending(i)' \/ i \notin pressed
       /\ ForwardPressed(i)'
       /\ i \in pressed' => \/ m \in DownOf(i)
                            \/ i \in pressed /\ m \notin LetOf(i) /\ ~(proc'.at = "forward" /\ proc'.out \cap DownOf(i) # {})
  <2>1. CASE m.type = "reset"
    <3>1. CASE pressed = {}
      BY <1>3, <1>4, <2>1, <3>1 DEF ForwardPressed
    <3>2. CASE pressed # {}
      <4>1. proc'.at = "forward" /\ proc'.out = {Up(j) : j \in pressed} /\ pressed' = {}
        BY <1>3, <2>1, <3>2
      <4>2. Up(i) \in UpOf(i) /\ \A j : Up(j) \notin DownOf(i)
        BY DEF Up, UpOf, DownOf, Messages
      <4>3. i \in pressed => Up(i) \in proc'.out \cap UpOf(i)
        BY <4>1, <4>2
      <4>4. proc'.out \cap DownOf(i) = {}
        BY <4>1, <4>2
      <4> QED
        BY <4>1, <4>3, <4>4 DEF Pending, ForwardPressed
    <3> QED
      BY <3>1, <3>2
  <2>2. CASE m.type # "reset"
    <3>1. /\ proc' = Idle \/ (~duplicate /\ proc'.at = "forward" /\ proc'.out = {m})
          /\ ~duplicate => proc'.at = "forward" /\ proc'.out = {m}
      BY <1>3, <2>2
    <3>2. /\ m.type = "down" => pressed' = pressed \cup {m.input}
          /\ m.type = "up" => pressed' = pressed \ {m.input}
          /\ m.type \notin {"down", "up"} => pressed' = pressed
      BY <1>3, <2>2
    <3>3. i \in pressed' \/ Pending(i)' \/ i \notin pressed
      <4> SUFFICES ASSUME i \in pressed, i \notin pressed' PROVE Pending(i)'
        OBVIOUS
      <4>1. m.type = "up" /\ m.input = i
        BY <3>2
      <4>2. ~duplicate
        BY <4>1
      <4>3. m \in UpOf(i) /\ m \in proc'.out
        BY <1>2, <3>1, <4>1, <4>2 DEF UpOf
      <4>4. proc'.at = "forward" /\ proc'.out \cap UpOf(i) # {}
        BY <3>1, <4>2, <4>3
      <4> QED
        BY <4>4 DEF Pending
    <3>4. m \in DownOf(i) <=> m.type = "down" /\ m.input = i
      BY <1>2 DEF DownOf
    <3>5. m \in LetOf(i) <=> m.type = "up" /\ m.input = i
      BY <1>2, <2>2 DEF LetOf, UpOf
    <3>6. proc'.at = "forward" /\ proc'.out \cap DownOf(i) # {} => m \in DownOf(i)
      BY <1>4, <3>1
    <3> HIDE DEF m, duplicate
    <3>7. ForwardPressed(i)'
      BY <3>2, <3>4, <3>6 DEF ForwardPressed
    <3>8. i \in pressed' => m \in DownOf(i) \/ (i \in pressed /\ m \notin LetOf(i))
      BY <3>2, <3>4, <3>5
    <3> QED
      BY <3>3, <3>6, <3>7, <3>8
  <2> QED
    BY <2>1, <2>2
<1>13. PressedFollowed(i)'
  <2> SUFFICES ASSUME i \in pressed' \ clientHeld, Live(i)'
               PROVE  Has(tq, LetOf(i)) \/ Coming(i) \/ \E t \in Threads : reset[t].at = "state"
    BY <1>1, <1>8 DEF PressedFollowed
  <2>1. CASE m \in DownOf(i)
    BY <1>1, <1>7, <2>1 DEF Front, PipeFollowed
  <2>2. CASE m \notin DownOf(i)
    <3>1. i \in pressed /\ m \notin LetOf(i) /\ ~(proc'.at = "forward" /\ proc'.out \cap DownOf(i) # {})
      BY <1>12, <2>2
    <3>2. i \notin BeingForwarded'
      <4>1. proc'.at = "forward" => proc'.out \subseteq Messages
        BY <1>2, <1>3, <1>4, MessagesMade DEF Shape, Decided, Idle
      <4> QED
        BY <3>1, <4>1 DEF BeingForwarded, Downs, DownOf
    <3>3. UNCHANGED <<kq, mq, kb, ms, os, withheld>>
      BY <1>1 DEF handlers
    <3>4. InHand(kb)' = InHand(kb) /\ InHand(ms)' = InHand(ms) /\ (Shown(i)' <=> Shown(i))
      BY <3>3 DEF InHand, Shown
    <3>5. Live(i)
      BY <3>2, <3>3, <3>4, Whereabouts, WhereaboutsNext DEF Live
    <3> QED
      BY <1>1, <1>7, <3>1, <3>5 DEF Front, PressedFollowed
  <2> QED
    BY <2>1, <2>2
<1>14. Back(i)'
  BY <1>1, <1>7, <1>11, <1>12, Forgotten DEF handlers
<1> QED
  BY <1>10, <1>13, <1>14 DEF Front

LEMMA StuckKeysFollowed ==
  ASSUME Shape, Shape', NEW i \in Inputs, Chain(i), CheckForStuckKeys
  PROVE  Chain(i)'
<1> PICK ks : /\ pressed' = pressed \ ks
              /\ reset' = [reset EXCEPT !["recovery"].at = "forward", !["recovery"].out = ks]
              /\ overtaken' = overtaken \cup (ks \cap BeingForwarded)
  BY DEF CheckForStuckKeys
<1>1. /\ reset["recovery"].at = "idle" /\ reset \in [Threads -> ResetStates] /\ phase = "running"
      /\ UNCHANGED <<clientHeld, clientSession, authorized, goKeys, pion, tq, proc, handlers, phase, os,
                     withheld, abandoned>>
  BY DEF CheckForStuckKeys, player, Shape
<1> SUFFICES ASSUME Unexcused(i)' PROVE GoFollowed(i)' /\ Front(i)' /\ Back(i)'
  BY DEF Chain
<1>2. Unexcused(i) /\ GoFollowed(i) /\ Front(i) /\ Back(i) /\ ~(i \in ks /\ i \in BeingForwarded)
  BY <1>1 DEF Unexcused, Chain
<1>3. /\ reset'["recovery"].at = "forward" /\ reset'["recovery"].out = ks
      /\ \A t \in Threads : reset[t].at # "idle" => reset'[t] = reset[t]
  BY <1>1 DEF Threads, ResetStates
<1>4. GoFollowed(i)' /\ (Coming(i)' <=> Coming(i))
  BY <1>1, <1>2, GoKept DEF Coming, PionUp, GoUp
<1>5. Live(i)' => Live(i)
  BY <1>1, LiveKept DEF handlers
<1>6. Front(i)'
  BY <1>1, <1>2, <1>3, <1>4, <1>5 DEF Front, PipeFollowed, PressedFollowed, GoUp
<1>7. ForwardPressed(i)'
  BY <1>1, <1>2, Whereabouts DEF Back, ForwardPressed
<1>8. /\ i \in ks => Pending(i)'
      /\ Pending(i) => Pending(i)' 
      /\ InInject(i) => InInject(i)'
  BY <1>1, <1>3 DEF Pending, InInject, Threads
<1>9. Back(i)'
  BY <1>1, <1>2, <1>7, <1>8, Forgotten DEF handlers
<1> QED
  BY <1>4, <1>6, <1>9

LEMMA ResetStateFollowed ==
  ASSUME Shape, Shape', NEW i \in Inputs, Chain(i), NEW t \in Threads, ResetState(t)
  PROVE  Chain(i)'
<1>1. /\ reset[t].at = "state" /\ reset \in [Threads -> ResetStates]
      /\ pressed' = {} /\ overtaken' = overtaken \cup BeingForwarded
      /\ reset' = [reset EXCEPT ![t].at = IF pressed = {} THEN "keys" ELSE "forward", ![t].out = pressed]
      /\ UNCHANGED <<clientHeld, clientSession, authorized, goKeys, pion, tq, proc, handlers, phase, os,
                     withheld, abandoned>>
  BY DEF ResetState, Shape, client, player
<1> SUFFICES ASSUME Unexcused(i)'
             PROVE  GoFollowed(i)' /\ (phase' = "running" => Front(i)' /\ Back(i)')
  BY DEF Chain
<1>2. Unexcused(i) /\ GoFollowed(i) /\ i \notin BeingForwarded
  BY <1>1 DEF Unexcused, Chain
<1>3. /\ pressed # {} => reset'[t].at = "forward" /\ reset'[t].out = pressed
      /\ \A u \in Threads : reset[u].at # "state" => reset'[u] = reset[u]
  BY <1>1 DEF ResetStates
<1>4. GoFollowed(i)' /\ (Coming(i)' <=> Coming(i))
  BY <1>1, <1>2, GoKept DEF Coming, PionUp, GoUp
<1>5. Front(i) => Front(i)'
  BY <1>1, <1>4 DEF Front, PipeFollowed, PressedFollowed, GoUp
<1>6. ForwardPressed(i)'
  BY <1>1, <1>2, Whereabouts DEF ForwardPressed
<1>7. /\ i \in pressed => Pending(i)'
      /\ (Pending(i) => Pending(i)') /\ (InInject(i) => InInject(i)')
  BY <1>1, <1>3 DEF Pending, InInject
<1>8. Back(i) => Back(i)'
  BY <1>1, <1>6, <1>7, Forgotten DEF handlers
<1> QED
  BY <1>1, <1>2, <1>4, <1>5, <1>8 DEF Chain

-----------------------------------------------------------------------------
(* The handlers and the resets. *)

\* An injection shows only what it presses; what it excuses no more is nowhere.
LEMMA InjectedOne ==
  ASSUME NEW D, NEW U, NEW W, InjectBut(D, U, W), NEW i
  PROVE  /\ Shown(i)' => i \notin U /\ (i \in D \/ Shown(i))
         /\ Unexcused(i)' => i \notin W
         /\ Unexcused(i)' => Unexcused(i) \/ i \notin InGo \cup InThePipe \cup InTheHandlers \cup os'
<1> DEFINE H == InGo \cup InThePipe \cup InTheHandlers
           undone == IF focus THEN U \ H ELSE {}
<1>1. /\ os' = IF focus THEN (os \cup D) \ U ELSE os
      /\ withheld' = IF focus THEN withheld \ (D \cup U) ELSE withheld \cup (U \cap os)
      /\ overtaken' = (overtaken \ undone) \cup W /\ abandoned' = abandoned \ undone
  BY DEF InjectBut
<1>2. i \in undone => i \in U /\ i \notin H /\ focus
  OBVIOUS
<1>3. Shown(i)' => i \notin U /\ (i \in D \/ Shown(i))
  BY <1>1 DEF Shown
<1> HIDE DEF H, undone
<1>4. Unexcused(i)' => i \notin W /\ (Unexcused(i) \/ i \in undone)
  BY <1>1 DEF Unexcused
<1>5. i \in undone => i \notin H \cup os'
  BY <1>1, <1>2
<1> QED
  BY <1>3, <1>4, <1>5 DEF H

LEMMA HandlerStep ==
  ASSUME Shape, Shape', NEW i \in Inputs, Chain(i), phase' = phase,
         UNCHANGED <<clientHeld, clientSession, authorized, goKeys, pion, tq, pressed>>,
         proc' = proc \/ (proc.at # "state" /\ proc'.at # "state"),
         \A t \in Threads : reset[t].at = "state" => reset'[t].at = "state",
         i \in InTheHandlers' => i \in InTheHandlers, Shown(i)' => Live(i),
         Unexcused(i)' => Unexcused(i) \/ i \notin InGo \cup InThePipe \cup InTheHandlers \cup os',
         Unexcused(i) /\ Unexcused(i)' /\ phase = "running" /\ Back(i) => Back(i)'
  PROVE  Chain(i)'
<1> SUFFICES ASSUME Unexcused(i)'
             PROVE  GoFollowed(i)' /\ (phase' = "running" => Front(i)' /\ Back(i)')
  BY DEF Chain
<1>1. CASE Unexcused(i)
  <2>1. GoFollowed(i)' /\ (GoUp(i) => GoUp(i)')
    BY <1>1, GoKept DEF Chain
  <2>2. Live(i)' => Live(i)
    BY DEF Live
  <2>3. phase = "running" => Front(i)'
    BY <1>1, <2>1, <2>2, FrontKept DEF Chain
  <2> QED
    BY <1>1, <2>1, <2>3 DEF Chain
<1>2. CASE i \notin InGo \cup InThePipe \cup InTheHandlers \cup os'
  <2>1. InGo' = InGo
    BY DEF InGo
  <2>2. i \in InThePipe' => i \in InThePipe
    <3>1. CASE proc' = proc
      BY <3>1 DEF InThePipe
    <3>2. CASE proc.at # "state" /\ proc'.at # "state"
      BY <3>2 DEF InThePipe
    <3> QED
      BY <3>1, <3>2
  <2>3. Absent(i)'
    BY <1>2, <2>1, <2>2 DEF Absent
  <2> QED
    BY <2>3, AbsentFollowedNext
<1> QED
  BY <1>1, <1>2

LEMMA OtherQueue ==
  ASSUME Shape, NEW i
  PROVE  /\ i \notin Keys => /\ ~Has(kq, DownOf(i)) /\ ~Has(kq, UpOf(i))
                             /\ i \notin InHand(kb) /\ ~HandUp(kb, i)
         /\ i \notin Buttons => /\ ~Has(mq, DownOf(i)) /\ ~Has(mq, UpOf(i))
                                /\ i \notin InHand(ms) /\ ~HandUp(ms, i)
<1>1. kq \in Seq(KeyEvents) /\ mq \in Seq(MouseEvents)
  BY DEF Shape
<1>2. /\ \A j \in 1 .. Len(kq) : kq[j].input \in Keys
      /\ \A j \in 1 .. Len(mq) : mq[j].type \in {"down", "up"} => mq[j].input \in Buttons
  BY <1>1 DEF KeyEvents, MouseEvents
<1>3. i \notin Keys => ~Has(kq, DownOf(i)) /\ ~Has(kq, UpOf(i))
  BY <1>2 DEF Has, DownOf, UpOf
<1>4. i \notin Buttons => ~Has(mq, DownOf(i)) /\ ~Has(mq, UpOf(i))
  BY <1>2 DEF Has, DownOf, UpOf
<1>5. /\ kb.at \in {"fsm", "inject"} => kb.ev.input \in Keys
      /\ ms.at \in {"fsm", "inject"} => ms.ev.input \in Buttons
  BY QueuesHold DEF KeyEvents
<1> QED
  BY <1>3, <1>4, <1>5, Hand DEF HandUp

LEMMA OtherQueueNext ==
  Shape' => \A i : /\ i \notin Keys => ~Has(kq', DownOf(i)) /\ i \notin InHand(kb)'
                   /\ i \notin Buttons => ~Has(mq', DownOf(i)) /\ i \notin InHand(ms)'
<1>1. Shape => \A i : /\ i \notin Keys => ~Has(kq, DownOf(i)) /\ i \notin InHand(kb)
                      /\ i \notin Buttons => ~Has(mq, DownOf(i)) /\ i \notin InHand(ms)
  <2> SUFFICES ASSUME Shape, NEW i
               PROVE  /\ i \notin Keys => ~Has(kq, DownOf(i)) /\ i \notin InHand(kb)
                      /\ i \notin Buttons => ~Has(mq, DownOf(i)) /\ i \notin InHand(ms)
    OBVIOUS
  <2> QED
    BY OtherQueue
<1>2. (Shape => \A i : /\ i \notin Keys => ~Has(kq, DownOf(i)) /\ i \notin InHand(kb)
                       /\ i \notin Buttons => ~Has(mq, DownOf(i)) /\ i \notin InHand(ms))'
  BY <1>1, PTL
<1> QED
  BY <1>2

\* What KeyEnqueue and MouseEnqueue leave in the queues.
LEMMA Dispatched ==
  ASSUME Shape, NEW e \in Decided, Dispatch(e)
  PROVE  /\ kb' = kb /\ ms' = ms
         /\ \/ /\ e.input \in Keys /\ mq' = mq /\ UNCHANGED <<reported, fsm, windows>>
               /\ \/ kq' = Append(kq, e) /\ spill' = spill
                  \/ kq' = <<e>> /\ spill' = "release"
            \/ /\ e.input \notin Keys /\ kq' = kq /\ spill' = spill
               /\ \/ mq' = Append(mq, e) /\ UNCHANGED <<reported, windows>>
                  \/ /\ mq' = <<e>> /\ reported' = reported \ Buttons
                     /\ InjectBut({}, reported \cap Buttons, InHand(ms))
         /\ \A S : (Has(kq', S) => Has(kq, S) \/ e \in S) /\ (Has(mq', S) => Has(mq, S) \/ e \in S)
<1>1. e \in Messages /\ kq \in Seq(Messages) /\ mq \in Seq(Messages)
  BY QueuesHold DEF Decided
<1>2. \A S : /\ Has(Append(kq, e), S) <=> Has(kq, S) \/ e \in S
             /\ Has(Append(mq, e), S) <=> Has(mq, S) \/ e \in S
             /\ Has(<<e>>, S) <=> e \in S
  BY <1>1, AppendHas, ShortQueues
<1>3. kb' = kb /\ ms' = ms
  BY DEF Dispatch
<1>4. CASE e.input \in Keys
  BY <1>2, <1>3, <1>4 DEF Dispatch, KeyEnqueue
<1>5. CASE e.input \notin Keys
  BY <1>2, <1>3, <1>5 DEF Dispatch, MouseEnqueue
<1> QED
  BY <1>4, <1>5

LEMMA DispatchFollowed ==
  ASSUME Shape, Shape', Holds, NEW i \in Inputs, NEW e \in Decided, Dispatch(e),
         Unexcused(i), Unexcused(i)', e \notin DownOf(i),
         QueuesFollowed(i), HandsFollowed(i), ShownFollowed(i),
         Pending(i) => Pending(i)' \/ e \in UpOf(i), InInject(i) => InInject(i)'
  PROVE  QueuesFollowed(i)' /\ HandsFollowed(i)' /\ ShownFollowed(i)'
<1>0. /\ e \in Messages /\ kq \in Seq(Messages) /\ mq \in Seq(Messages) /\ Keys \cap Buttons = {}
      /\ i \in Keys \/ i \in Buttons
  BY QueuesHold, InputAssumption DEF Decided, Inputs
<1>1. kb' = kb /\ ms' = ms
  BY Dispatched
<1>2. /\ InHand(kb)' = InHand(kb) /\ InHand(ms)' = InHand(ms)
      /\ (HandUp(kb, i)' <=> HandUp(kb, i)) /\ (HandUp(ms, i)' <=> HandUp(ms, i))
  BY <1>1 DEF InHand, HandUp
<1>3. /\ i \notin Keys => Closed(kq', DownOf(i), UpOf(i)) /\ i \notin InHand(kb) /\ ~Has(kq, UpOf(i))
      /\ i \notin Buttons => Closed(mq', DownOf(i), UpOf(i)) /\ i \notin InHand(ms) /\ ~Has(mq, UpOf(i))
  BY OtherQueue, OtherQueueNext, NoneClosed
<1>4. e \in UpOf(i) => e \notin DownOf(i) /\ e.input = i
  BY DEF UpOf, DownOf
<1>5. /\ e \in UpOf(i) => Has(Append(kq, e), UpOf(i)) /\ Has(Append(mq, e), UpOf(i)) /\ Has(<<e>>, UpOf(i))
      /\ Has(kq, UpOf(i)) => Has(Append(kq, e), UpOf(i))
      /\ Has(mq, UpOf(i)) => Has(Append(mq, e), UpOf(i))
  <2>1. \A S : (Has(Append(kq, e), S) <=> Has(kq, S) \/ e \in S) /\ (Has(Append(mq, e), S) <=> Has(mq, S) \/ e \in S)
    BY <1>0, AppendHas
  <2>2. \A S : Has(<<e>>, S) <=> e \in S
    BY ShortQueues
  <2> HIDE DEF Shape
  <2> QED
    BY <2>1, <2>2
<1>6. /\ e \in UpOf(i) \/ Closed(kq, DownOf(i), UpOf(i)) => Closed(Append(kq, e), DownOf(i), UpOf(i))
      /\ e \in UpOf(i) \/ Closed(mq, DownOf(i), UpOf(i)) => Closed(Append(mq, e), DownOf(i), UpOf(i))
      /\ Closed(<<e>>, DownOf(i), UpOf(i))
  <2>1. Closed(<<e>>, DownOf(i), UpOf(i))
    BY ShortQueues, NoneClosed
  <2> QED
    BY <1>0, <2>1, AppendClosed
<1>7. CASE e \in UpOf(i)
  <2>1. Closed(kq', DownOf(i), UpOf(i)) /\ Closed(mq', DownOf(i), UpOf(i))
    BY <1>0, <1>3, <1>4, <1>6, <1>7, Dispatched
  <2>2. i \in Keys => Has(kq', UpOf(i))
    BY <1>4, <1>5, <1>7, Dispatched
  <2>3. i \in Buttons => Has(mq', UpOf(i))
    BY <1>0, <1>4, <1>5, <1>7, Dispatched
  <2> QED
    BY <1>0, <1>2, <1>3, <2>1, <2>2, <2>3 DEF QueuesFollowed, HandsFollowed, ShownFollowed
<1>8. CASE e \notin UpOf(i)
  <2>0. Pending(i) => Pending(i)'
    BY <1>8
  <2>1. CASE e.input \in Keys /\ kq' = Append(kq, e) /\ spill' = spill /\ mq' = mq /\ UNCHANGED windows
    <3>1. Shown(i)' <=> Shown(i)
      BY <2>1 DEF Shown, windows, history
    <3>2. QueuesFollowed(i)'
      BY <1>2, <1>5, <1>6, <2>0, <2>1, <3>1 DEF QueuesFollowed
    <3>3. HandsFollowed(i)'
      BY <1>2, <1>5, <1>6, <2>0, <2>1, <3>1 DEF HandsFollowed
    <3>4. ShownFollowed(i)'
      BY <1>2, <1>5, <1>6, <2>0, <2>1, <3>1 DEF ShownFollowed
    <3> QED
      BY <3>2, <3>3, <3>4
  <2>2. CASE e.input \in Keys /\ kq' = <<e>> /\ spill' = "release" /\ mq' = mq /\ UNCHANGED windows
    <3>1. Shown(i)' <=> Shown(i)
      BY <2>2 DEF Shown, windows, history
    <3>2. QueuesFollowed(i)'
      BY <1>2, <1>3, <1>6, <2>0, <2>2, <3>1 DEF QueuesFollowed
    <3>3. HandsFollowed(i)'
      BY <1>2, <1>3, <1>6, <2>0, <2>2, <3>1 DEF HandsFollowed
    <3>4. ShownFollowed(i)'
      BY <1>2, <1>3, <1>6, <2>0, <2>2, <3>1 DEF ShownFollowed
    <3> QED
      BY <3>2, <3>3, <3>4
  <2>3. CASE mq' = Append(mq, e) /\ spill' = spill /\ kq' = kq /\ UNCHANGED windows
    <3>1. Shown(i)' <=> Shown(i)
      BY <2>3 DEF Shown, windows, history
    <3>2. QueuesFollowed(i)'
      BY <1>2, <1>5, <1>6, <2>0, <2>3, <3>1 DEF QueuesFollowed
    <3>3. HandsFollowed(i)'
      BY <1>2, <1>5, <1>6, <2>0, <2>3, <3>1 DEF HandsFollowed
    <3>4. ShownFollowed(i)'
      BY <1>2, <1>5, <1>6, <2>0, <2>3, <3>1 DEF ShownFollowed
    <3> QED
      BY <3>2, <3>3, <3>4
  <2>4. CASE /\ mq' = <<e>> /\ spill' = spill /\ kq' = kq
             /\ InjectBut({}, reported \cap Buttons, InHand(ms))
    <3> DEFINE U == reported \cap Buttons
               W == InHand(ms)
    <3>1. InjectBut({}, U, W)
      BY <2>4
    <3> HIDE DEF U, W
    <3>2. (Shown(i)' => i \notin U /\ (i \in {} \/ Shown(i))) /\ i \notin W
      BY <3>1, InjectedOne
    <3>3. (Shown(i)' => i \notin reported \cap Buttons /\ Shown(i)) /\ i \notin InHand(ms)
      BY <3>2 DEF U, W
    <3>4. Shown(i)' /\ i \in Buttons => HandUp(ms, i) \/ InInject(i)
      <4> SUFFICES ASSUME Shown(i)', i \in Buttons PROVE HandUp(ms, i) \/ InInject(i)
        OBVIOUS
      <4>1. i \in Uncovered /\ i \notin reported
        BY <3>3 DEF Shown, Uncovered, Unexcused
      <4> QED
        BY <4>1 DEF Holds, HeldButtons, Releasing, HandUp, InInject
    <3>5. QueuesFollowed(i)' /\ HandsFollowed(i)'
      BY <1>2, <1>6, <2>0, <2>4, <3>3 DEF QueuesFollowed, HandsFollowed
    <3>6. ShownFollowed(i)'
      BY <1>0, <1>2, <1>3, <2>0, <2>4, <3>3, <3>4 DEF ShownFollowed
    <3> QED
      BY <3>5, <3>6
  <2> QED
    BY <2>1, <2>2, <2>3, <2>4, Dispatched
<1> QED
  BY <1>7, <1>8

\* One event dispatched, by processingLoop or by a reset.
LEMMA DispatchStep ==
  ASSUME Shape, Shape', Holds, NEW i \in Inputs, Chain(i), NEW e \in Decided, Dispatch(e), phase' = phase,
         UNCHANGED <<clientHeld, clientSession, authorized, goKeys, pion, tq, pressed>>,
         proc' = proc \/ (proc.at # "state" /\ proc'.at # "state"),
         i \in BeingForwarded' => i \in BeingForwarded,
         e \in DownOf(i) => i \in BeingForwarded,
         \A t \in Threads : reset[t].at \in {"state", "inject"} => reset'[t] = reset[t],
         Pending(i) => Pending(i)' \/ e \in UpOf(i)
  PROVE  Chain(i)'
<1>1. /\ kb' = kb /\ ms' = ms
      /\ \A S : (Has(kq', S) => Has(kq, S) \/ e \in S) /\ (Has(mq', S) => Has(mq, S) \/ e \in S)
  BY Dispatched
<1>2. \/ UNCHANGED <<windows, reported>>
      \/ UNCHANGED windows /\ reported' = reported
      \/ reported' = reported \ Buttons /\ InjectBut({}, reported \cap Buttons, InHand(ms))
  BY Dispatched
<1>3. /\ Shown(i)' => Shown(i)
      /\ Unexcused(i)' => Unexcused(i) \/ i \notin InGo \cup InThePipe \cup InTheHandlers \cup os'
      /\ i \in Keys => (i \in reported' <=> i \in reported)
  <2>1. CASE UNCHANGED windows /\ reported' = reported
    BY <2>1 DEF Shown, Unexcused, windows, history
  <2>2. CASE reported' = reported \ Buttons /\ InjectBut({}, reported \cap Buttons, InHand(ms))
    <3>1. /\ Shown(i)' => i \in {} \/ Shown(i)
          /\ Unexcused(i)' => Unexcused(i) \/ i \notin InGo \cup InThePipe \cup InTheHandlers \cup os'
      BY <2>2, InjectedOne
    <3> QED
      BY <2>2, <3>1, InputAssumption
  <2> QED
    BY <1>2, <2>1, <2>2
<1>4. InHand(kb)' = InHand(kb) /\ InHand(ms)' = InHand(ms) /\ (HandUp(kb, i)' <=> HandUp(kb, i))
  BY <1>1 DEF InHand, HandUp
<1>5. i \in InTheHandlers' => i \in InTheHandlers
  BY <1>1, <1>4, Whereabouts, WhereaboutsNext
<1>6. InInject(i) => InInject(i)'
  BY DEF InInject
<1>7. ASSUME Unexcused(i), Unexcused(i)', phase = "running", Back(i) PROVE Back(i)'
  <2>1. ForwardPressed(i)'
    <3>1. proc'.at = "forward" /\ proc'.out \cap DownOf(i) # {} => i \in BeingForwarded'
      BY WhereaboutsForward
    <3> QED
      BY <1>7, <3>1, Whereabouts DEF Back, ForwardPressed
  <2>2. HandlersFollowed(i)'
    <3> SUFFICES ASSUME i \notin pressed PROVE QueuesFollowed(i)' /\ HandsFollowed(i)' /\ ShownFollowed(i)'
      BY DEF HandlersFollowed
    <3>1. e \notin DownOf(i)
      BY <1>7, Whereabouts DEF Back, ForwardPressed
    <3> QED
      BY <1>6, <1>7, <3>1, DispatchFollowed DEF Back, HandlersFollowed
  <2>3. KeyReported(i)'
    BY <1>3, <1>4, <1>7 DEF Back, KeyReported
  <2> QED
    BY <2>1, <2>2, <2>3 DEF Back
<1> QED
  BY <1>3, <1>5, <1>7, HandlerStep DEF Live

LEMMA ProcForwardFollowed ==
  ASSUME Shape, Shape', Holds, NEW i \in Inputs, Chain(i), ProcForward
  PROVE  Chain(i)'
<1>1. PICK e \in proc.out :
         Dispatch(e) /\ proc' = IF proc.out = {e} THEN Idle ELSE [proc EXCEPT !.out = @ \ {e}]
  BY DEF ProcForward
<1>2. proc \in [at : {"forward"}, out : SUBSET Decided]
  BY DEF ProcForward, Shape, Idle
<1>3. /\ UNCHANGED <<clientHeld, clientSession, authorized, goKeys, pion, tq, pressed, reset, phase>>
      /\ e \in Decided /\ proc.at = "forward"
  BY <1>2 DEF ProcForward, client, player
<1>4. proc' = Idle \/ (proc'.at = "forward" /\ proc'.out = proc.out \ {e} /\ proc.out # {e})
  BY <1>1, <1>2
<1>5. proc.out # {e} => proc'.at = "forward" /\ proc'.out = proc.out \ {e}
  BY <1>1, <1>2
<1>6. proc'.at # "state"
  BY <1>4 DEF Idle
<1>7. i \in BeingForwarded' => i \in BeingForwarded
  BY <1>3, <1>4, Whereabouts, WhereaboutsForward DEF Idle
<1>8. e \in DownOf(i) => i \in BeingForwarded
  BY <1>3, Whereabouts
<1>9. Pending(i) => Pending(i)' \/ e \in UpOf(i)
  <2>1. CASE proc.out \cap UpOf(i) # {} /\ e \notin UpOf(i)
    BY <1>5, <2>1 DEF Pending
  <2> QED
    BY <1>3, <2>1 DEF Pending
<1> QED
  BY <1>1, <1>3, <1>6, <1>7, <1>8, <1>9, DispatchStep

LEMMA ResetForwardFollowed ==
  ASSUME Shape, Shape', Holds, NEW i \in Inputs, Chain(i), NEW t \in Threads, ResetForward(t)
  PROVE  Chain(i)'
<1>1. PICK j \in reset[t].out :
         /\ Dispatch(Up(j))
         /\ reset' = [reset EXCEPT ![t].out = @ \ {j},
                        ![t].at = IF reset[t].out # {j} THEN "forward"
                                  ELSE IF t = "recovery" THEN "idle" ELSE "keys"]
  BY DEF ResetForward
<1>2. /\ reset[t].at = "forward" /\ reset \in [Threads -> ResetStates]
      /\ UNCHANGED <<clientHeld, clientSession, authorized, goKeys, pion, tq, proc, pressed, phase>>
  BY DEF ResetForward, Shape, client, player, transport
<1>3. Up(j) \in Decided /\ Up(j) \notin DownOf(i) /\ (j = i => Up(j) \in UpOf(i))
  <2>1. j \in Inputs
    BY <1>2 DEF ResetStates
  <2> QED
    BY <2>1, MessagesMade DEF DownOf, UpOf, Decided
<1>4. /\ \A u \in Threads : u # t => reset'[u] = reset[u]
      /\ reset[t].out # {j} => reset'[t].at = "forward" /\ reset'[t].out = reset[t].out \ {j}
  BY <1>1, <1>2 DEF ResetStates
<1>5. \A u \in Threads : reset[u].at \in {"state", "inject"} => reset'[u] = reset[u]
  BY <1>2, <1>4
<1>6. Pending(i) => Pending(i)' \/ Up(j) \in UpOf(i)
  <2>1. ASSUME j # i, NEW u \in Threads, reset[u].at = "forward", i \in reset[u].out PROVE Pending(i)'
    BY <1>4, <2>1 DEF Pending
  <2> QED
    BY <1>2, <1>3, <2>1 DEF Pending
<1>7. i \in BeingForwarded' => i \in BeingForwarded
  BY <1>2 DEF BeingForwarded
<1> QED
  BY <1>1, <1>2, <1>3, <1>5, <1>6, <1>7, DispatchStep

LEMMA KeyTakeFollowed ==
  ASSUME Shape, Shape', NEW i \in Inputs, Own(i), Chain(i), KeyTake
  PROVE  Chain(i)'
<1> DEFINE e == Head(kq)
           forbidden == \E r \in reported \cap Keys : {r, e.input} \in Forbidden
<1>1. /\ phase = "running" /\ kb = Idle /\ kq # <<>> /\ kq' = Tail(kq)
      /\ UNCHANGED <<client, transport, mq, ms, spill, reset, phase>>
  BY DEF KeyTake
<1>2. \/ /\ e.type = "down" /\ kb' = Idle /\ reported' = reported
      \/ /\ e.type = "down" /\ kb' = [at |-> "fsm", ev |-> e]
         /\ reported' = (reported \ SameVk(e.input)) \cup {e.input}
      \/ /\ e.type # "down" /\ kb' = [at |-> "fsm", ev |-> e] /\ reported' = reported \ SameVk(e.input)
      \/ /\ e.type # "down" /\ kb' = Idle /\ reported' = reported /\ SameVk(e.input) = {}
  BY DEF KeyTake
<1>3. UNCHANGED windows \/ InjectBut({}, fsm, InHand(kb))
  BY DEF KeyTake, ProcessSequence, ReleaseFsm
<1>4. kq \in Seq(Messages) /\ e \in Messages /\ e.input \in Keys
  BY <1>1, QueuesHold DEF Shape, KeyEvents
<1>5. /\ \A S : Has(kq, S) <=> e \in S \/ Has(kq', S)
      /\ Closed(kq, DownOf(i), UpOf(i))
           => Closed(kq', DownOf(i), UpOf(i)) /\ (e \in DownOf(i) => Has(kq', UpOf(i)))
  BY <1>1, <1>4, TailHas, TailClosed
<1> HIDE DEF e
<1>6. /\ Shown(i)' => Shown(i)
      /\ Unexcused(i)' => Unexcused(i) \/ i \notin InGo \cup InThePipe \cup InTheHandlers \cup os'
  <2>1. CASE UNCHANGED windows
    BY <2>1 DEF Shown, Unexcused, windows, history
  <2>2. CASE InjectBut({}, fsm, InHand(kb))
    <3>1. /\ Shown(i)' => i \in {} \/ Shown(i)
          /\ Unexcused(i)' => Unexcused(i) \/ i \notin InGo \cup InThePipe \cup InTheHandlers \cup os'
      BY <2>2, InjectedOne
    <3> QED
      BY <3>1
  <2> QED
    BY <1>3, <2>1, <2>2
<1>7. /\ ~HandUp(kb, i) /\ i \notin InHand(kb)
      /\ i \in InHand(kb)' => e \in DownOf(i)
      /\ HandUp(kb, i)' <=> e.type # "down" /\ e.input = i /\ kb' # Idle
  <2>1. /\ Idle.at = "wait" /\ (kb' # Idle => kb'.at = "fsm" /\ kb'.ev = e)
        /\ i \in InHand(kb)' <=> kb'.at \in {"fsm", "inject"} /\ kb'.ev.type = "down" /\ kb'.ev.input = i
    BY <1>2 DEF Idle, InHand, Downs
  <2> QED
    BY <1>1, <1>4, <2>1, Hand DEF HandUp, DownOf
<1>8. i \in Keys /\ i \in reported => i \in SameVk(i)
  BY DEF SameVk
<1>9. e.input # i => i \notin SameVk(e.input)
  BY <1>4 DEF SameVk, Own
<1>10. UNCHANGED <<clientHeld, clientSession, authorized, goKeys, pion, tq, pressed, proc>>
  BY <1>1 DEF client, player, transport
<1>11. /\ InHand(ms)' = InHand(ms) /\ (HandUp(ms, i)' <=> HandUp(ms, i))
       /\ (Pending(i)' <=> Pending(i)) /\ (InInject(i)' <=> InInject(i)) /\ BeingForwarded' = BeingForwarded
  BY <1>1, <1>10 DEF InHand, HandUp, Pending, InInject, BeingForwarded
<1>12. i \in InTheHandlers' => i \in InTheHandlers
  BY <1>1, <1>5, <1>7, <1>11, Whereabouts, WhereaboutsNext
<1>13. ASSUME Back(i) PROVE Back(i)'
  <2>1. ForwardPressed(i)'
    BY <1>10, <1>13 DEF Back, ForwardPressed
  <2>2. KeyReported(i)'
    <3> SUFFICES ASSUME i \in Keys, Shown(i) \/ e \in DownOf(i), i \notin reported'                  PROVE  HandUp(kb, i)' \/ (~Shown(i)' /\ i \notin InHand(kb)')
      BY <1>6, <1>7 DEF KeyReported
    <3>1. CASE e.input # i
      <4>1. e \notin DownOf(i) /\ i \notin reported
        BY <1>2, <1>9, <3>1 DEF DownOf
      <4> QED
        BY <1>7, <1>13, <4>1 DEF Back, KeyReported
    <3>2. CASE e.input = i /\ e.type = "down"
      <4>1. kb' = Idle /\ reported' = reported
        BY <1>2, <3>2
      <4>2. i \notin InHand(kb)'
        BY <4>1 DEF InHand, Idle, Downs
      <4> QED
        BY <1>6, <1>7, <1>13, <4>1, <4>2 DEF Back, KeyReported
    <3>3. CASE e.input = i /\ e.type # "down"
      <4>1. CASE kb' # Idle
        BY <1>7, <3>3, <4>1
      <4>2. CASE kb' = Idle
        <5>1. i \notin reported /\ i \notin InHand(kb)'
          BY <1>2, <1>7, <1>8, <3>3, <4>2 DEF DownOf, Idle
        <5> QED
          BY <1>6, <1>7, <1>13, <5>1 DEF Back, KeyReported
      <4> QED
        BY <4>1, <4>2
    <3> QED
      BY <3>1, <3>2, <3>3
  <2>3. HandlersFollowed(i)'
    <3> SUFFICES ASSUME i \notin pressed PROVE QueuesFollowed(i)' /\ HandsFollowed(i)' /\ ShownFollowed(i)'
      BY <1>10 DEF HandlersFollowed
    <3>1. QueuesFollowed(i) /\ HandsFollowed(i) /\ ShownFollowed(i)
      BY <1>13 DEF Back, HandlersFollowed
    <3>2. QueuesFollowed(i)'
      BY <1>1, <1>5, <1>11, <3>1 DEF QueuesFollowed
    <3>3. HandsFollowed(i)'
      BY <1>1, <1>5, <1>7, <1>11, <3>1 DEF QueuesFollowed, HandsFollowed
    <3>4. Shown(i)' /\ e \in UpOf(i) => HandUp(kb, i)'
      <4> SUFFICES ASSUME Shown(i)', e \in UpOf(i) PROVE HandUp(kb, i)'
        OBVIOUS
      <4>1. i \in Keys /\ e.input = i /\ e.type # "down"
        BY <1>4 DEF UpOf
      <4>2. i \in reported
        BY <1>6, <1>7, <1>13, <4>1 DEF Back, KeyReported
      <4>3. kb' # Idle
        <5>1. SameVk(e.input) # {}
          BY <1>8, <4>1, <4>2
        <5>2. [at |-> "fsm", ev |-> e].at = "fsm" /\ Idle.at = "wait"
          BY DEF Idle
        <5>3. kb' = [at |-> "fsm", ev |-> e]
          BY <1>2, <4>1, <5>1
        <5> QED
          BY <5>2, <5>3
      <4> QED
        BY <1>7, <4>1, <4>3
    <3>5. ShownFollowed(i)'
      BY <1>1, <1>5, <1>6, <1>7, <1>11, <3>1, <3>4 DEF ShownFollowed
    <3> QED
      BY <3>2, <3>3, <3>5
  <2> QED
    BY <2>1, <2>2, <2>3 DEF Back
<1> QED
  BY <1>1, <1>6, <1>10, <1>12, <1>13, HandlerStep DEF Live

\* What Windows holds of an input not excused: HeldKeys and HeldButtons.
LEMMA ShownHeld ==
  ASSUME Holds, NEW i \in Inputs, Unexcused(i), Shown(i)
  PROVE  /\ i \in Keys => i \in fsm \/ Releasing(kb, i)
         /\ i \in Buttons => i \in reported \/ Releasing(ms, i) \/ InInject(i)
  BY DEF Holds, HeldKeys, HeldButtons, Uncovered, Unexcused, Shown, InInject

LEMMA KeyFsmFollowed ==
  ASSUME Shape, Shape', Holds, NEW i \in Inputs, Chain(i), KeyFsm
  PROVE  Chain(i)'
<1> DEFINE e == kb.ev
<1>1. /\ kb.at = "fsm"
      /\ UNCHANGED <<client, transport, kq, mq, ms, reported, spill, reset, phase, windows>>
  BY DEF KeyFsm
<1>2. kb \in [at : {"fsm", "inject"}, ev : KeyEvents]
  BY <1>1 DEF Shape, Idle, Leaving, Gone
<1>3. UNCHANGED <<clientHeld, clientSession, authorized, goKeys, pion, tq, pressed, proc, os, withheld, overtaken,
                  abandoned>>
  BY <1>1 DEF client, player, transport, windows, history
<1>4. \/ /\ kb'.at \notin {"fsm", "inject"}
         /\ (e.type = "down") = (e.input \in fsm)
      \/ kb'.at = "inject" /\ kb'.ev = e
  BY <1>2 DEF KeyFsm, Done, Idle, Leaving
<1>5. /\ i \in InHand(kb)' => i \in InHand(kb)
      /\ HandUp(kb, i)' => HandUp(kb, i)
      /\ InHand(ms)' = InHand(ms) /\ (HandUp(ms, i)' <=> HandUp(ms, i))
      /\ (Pending(i)' <=> Pending(i)) /\ (InInject(i)' <=> InInject(i)) /\ (Shown(i)' <=> Shown(i))
      /\ BeingForwarded' = BeingForwarded
  <2>1. /\ i \in InHand(kb)' <=> kb'.at \in {"fsm", "inject"} /\ kb'.ev.type = "down" /\ kb'.ev.input = i
        /\ InHand(ms)' = InHand(ms)
    BY <1>1 DEF InHand, Downs
  <2>2. (i \in InHand(kb)' => i \in InHand(kb)) /\ (HandUp(kb, i)' => HandUp(kb, i))
    BY <1>1, <1>4, <2>1, Hand DEF HandUp
  <2> QED
    BY <1>1, <1>3, <2>1, <2>2 DEF HandUp, Pending, InInject, Shown, BeingForwarded
<1>6. i \in InTheHandlers' => i \in InTheHandlers
  BY <1>1, <1>5, Whereabouts, WhereaboutsNext
<1>7. ASSUME Unexcused(i), Shown(i), HandUp(kb, i) PROVE HandUp(kb, i)'
  <2>1. e.input = i /\ e.type # "down" /\ i \in Keys
    BY <1>2, <1>7 DEF HandUp, KeyEvents
  <2>2. i \in fsm
    BY <1>1, <1>7, <2>1, ShownHeld DEF Releasing
  <2> QED
    BY <1>4, <2>1, <2>2 DEF HandUp
<1>8. ASSUME Unexcused(i), Back(i) PROVE Back(i)'
  <2>1. ForwardPressed(i)'
    BY <1>3, <1>8 DEF Back, ForwardPressed
  <2>2. KeyReported(i)'
    <3>1. i \in InHand(kb) => ~HandUp(kb, i)
      BY Hand DEF HandUp
    <3> QED
      BY <1>1, <1>5, <1>7, <1>8, <3>1 DEF Back, KeyReported
  <2>3. HandlersFollowed(i)'
    BY <1>1, <1>3, <1>5, <1>7, <1>8 DEF Back, HandlersFollowed, QueuesFollowed, HandsFollowed, ShownFollowed
  <2> QED
    BY <2>1, <2>2, <2>3 DEF Back
<1> QED
  BY <1>1, <1>3, <1>5, <1>6, <1>8, HandlerStep DEF Live, Unexcused

\* What one call of SendInput for a key or a button does to an input.
LEMMA EventOne ==
  ASSUME NEW e, InjectEvent(e), NEW i
  PROVE  /\ Shown(i)' => IF e.input = i THEN e.type = "down" ELSE Shown(i)
         /\ Unexcused(i)' => Unexcused(i) \/ i \notin InGo \cup InThePipe \cup InTheHandlers \cup os'
<1>1. CASE e.type = "down"
  <2>1. InjectBut({e.input}, {}, {})
    BY <1>1 DEF InjectEvent, Inject
  <2>2. /\ Shown(i)' => i \in {e.input} \/ Shown(i)
        /\ Unexcused(i)' => Unexcused(i) \/ i \notin InGo \cup InThePipe \cup InTheHandlers \cup os'
    BY <2>1, InjectedOne
  <2> QED
    BY <1>1, <2>2
<1>2. CASE e.type # "down"
  <2>1. InjectBut({}, {e.input}, {})
    BY <1>2 DEF InjectEvent, Inject
  <2>2. /\ Shown(i)' => i \notin {e.input} /\ (i \in {} \/ Shown(i))
        /\ Unexcused(i)' => Unexcused(i) \/ i \notin InGo \cup InThePipe \cup InTheHandlers \cup os'
    BY <2>1, InjectedOne
  <2> QED
    BY <2>2
<1> QED
  BY <1>1, <1>2

LEMMA KeyInjectFollowed ==
  ASSUME Shape, Shape', NEW i \in Inputs, Chain(i), KeyInject
  PROVE  Chain(i)'
<1> DEFINE e == kb.ev
<1>1. /\ kb.at = "inject" /\ kb' = Done /\ InjectEvent(e)
      /\ UNCHANGED <<client, transport, kq, mq, ms, reported, spill, reset, phase>>
  BY DEF KeyInject
<1>2. e.input \in Keys
  BY <1>1, QueuesHold DEF KeyEvents
<1>3. UNCHANGED <<clientHeld, clientSession, authorized, goKeys, pion, tq, pressed, proc>>
  BY <1>1 DEF client, player, transport
<1>4. /\ Shown(i)' => IF e.input = i THEN e.type = "down" ELSE Shown(i)
      /\ Unexcused(i)' => Unexcused(i) \/ i \notin InGo \cup InThePipe \cup InTheHandlers \cup os'
  BY <1>1, EventOne
<1>5. /\ i \in InHand(kb) <=> e.type = "down" /\ e.input = i
      /\ HandUp(kb, i) <=> e.type # "down" /\ e.input = i
  BY <1>1, Hand DEF HandUp
<1>6. i \notin InHand(kb)'
  BY <1>1 DEF InHand, Done, Idle, Leaving, Downs
<1>7. /\ InHand(ms)' = InHand(ms) /\ (HandUp(ms, i)' <=> HandUp(ms, i))
      /\ (Pending(i)' <=> Pending(i)) /\ (InInject(i)' <=> InInject(i)) /\ BeingForwarded' = BeingForwarded
  BY <1>1, <1>3 DEF InHand, HandUp, Pending, InInject, BeingForwarded
<1> HIDE DEF e
<1>8. i \in InTheHandlers' => i \in InTheHandlers
  BY <1>1, <1>6, <1>7, Whereabouts, WhereaboutsNext
<1>9. Shown(i)' => Live(i)
  BY <1>4, <1>5, Whereabouts DEF Live
<1>10. ASSUME Back(i) PROVE Back(i)'
  <2>1. ForwardPressed(i)'
    BY <1>3, <1>10 DEF Back, ForwardPressed
  <2>2. KeyReported(i)'
    BY <1>1, <1>4, <1>5, <1>6, <1>10 DEF Back, KeyReported
  <2>3. HandlersFollowed(i)'
    <3> SUFFICES ASSUME i \notin pressed PROVE QueuesFollowed(i)' /\ HandsFollowed(i)' /\ ShownFollowed(i)'
      BY <1>3 DEF HandlersFollowed
    <3>1. QueuesFollowed(i) /\ HandsFollowed(i) /\ ShownFollowed(i)
      BY <1>10 DEF Back, HandlersFollowed
    <3>2. QueuesFollowed(i)' /\ HandsFollowed(i)'
      BY <1>1, <1>6, <1>7, <3>1 DEF QueuesFollowed, HandsFollowed
    <3>3. ShownFollowed(i)'
      BY <1>1, <1>2, <1>4, <1>5, <1>7, <3>1 DEF HandsFollowed, ShownFollowed
    <3> QED
      BY <3>2, <3>3
  <2> QED
    BY <2>1, <2>2, <2>3 DEF Back
<1> QED
  BY <1>1, <1>3, <1>4, <1>8, <1>9, <1>10, HandlerStep

LEMMA MouseTakeFollowed ==
  ASSUME Shape, Shape', Holds, NEW i \in Inputs, Chain(i), MouseTake
  PROVE  Chain(i)'
<1> DEFINE e == Head(mq)
<1>1. /\ phase = "running" /\ ms = Idle /\ mq # <<>> /\ mq' = Tail(mq)
      /\ UNCHANGED <<client, transport, kq, kb, fsm, spill, reset, phase, windows>>
  BY DEF MouseTake
<1>2. \/ /\ e.type = "move" \/ (e.type = "down") = (e.input \in reported)
         /\ ms' = Idle /\ reported' = reported
      \/ /\ e.type # "move" /\ (e.type = "down") # (e.input \in reported)
         /\ ms' = [at |-> "inject", ev |-> e]
         /\ reported' = IF e.type = "down" THEN reported \cup {e.input} ELSE reported \ {e.input}
  BY DEF MouseTake
<1>3. mq \in Seq(Messages) /\ e \in Messages /\ (e.type # "move" => e.input \in Buttons) /\ Keys \cap Buttons = {}
  <2>1. mq \in Seq(MouseEvents) /\ mq # <<>>
    BY <1>1 DEF Shape
  <2> HIDE DEF Shape
  <2>2. e \in MouseEvents
    BY <2>1
  <2>3. mq \in Seq(Messages)
    BY QueuesHold
  <2> HIDE DEF e
  <2> QED
    BY <2>2, <2>3, InputAssumption DEF MouseEvents
<1>4. /\ \A S : Has(mq, S) <=> e \in S \/ Has(mq', S)
      /\ Closed(mq, DownOf(i), UpOf(i))
           => Closed(mq', DownOf(i), UpOf(i)) /\ (e \in DownOf(i) => Has(mq', UpOf(i)))
  <2>1. \A S : Has(mq, S) <=> e \in S \/ Has(mq', S)
    BY <1>1, <1>3, TailHas
  <2>2. Closed(mq, DownOf(i), UpOf(i))
           => Closed(mq', DownOf(i), UpOf(i)) /\ (e \in DownOf(i) => Has(mq', UpOf(i)))
    BY <1>1, <1>3, TailClosed
  <2> QED
    BY <2>1, <2>2
<1> HIDE DEF e
<1>5. UNCHANGED <<clientHeld, clientSession, authorized, goKeys, pion, tq, pressed, proc, os, withheld, overtaken,
                  abandoned>>
  BY <1>1 DEF client, player, transport, windows, history
<1>6. /\ i \in InHand(ms)' => e \in DownOf(i)
      /\ ~HandUp(ms, i)
      /\ ms' # Idle /\ e.type # "down" /\ e.input = i => HandUp(ms, i)'
  <2>1. Idle.at = "wait" /\ (ms' # Idle => ms'.at = "inject" /\ ms'.ev = e)
    BY <1>2 DEF Idle
  <2>2. i \in InHand(ms)' <=> ms'.at \in {"fsm", "inject"} /\ ms'.ev.type = "down" /\ ms'.ev.input = i
    BY DEF InHand, Downs
  <2> QED
    BY <1>1, <1>3, <2>1, <2>2 DEF HandUp, DownOf
<1>7. /\ InHand(kb)' = InHand(kb) /\ (HandUp(kb, i)' <=> HandUp(kb, i)) /\ (Shown(i)' <=> Shown(i))
      /\ (Pending(i)' <=> Pending(i)) /\ (InInject(i)' <=> InInject(i)) /\ BeingForwarded' = BeingForwarded
  BY <1>1, <1>5 DEF InHand, HandUp, Pending, InInject, BeingForwarded, Shown
<1>8. i \in InTheHandlers' => i \in InTheHandlers
  BY <1>1, <1>4, <1>6, <1>7, Whereabouts, WhereaboutsNext
<1>9. ASSUME Unexcused(i), Back(i) PROVE Back(i)'
  <2>1. ForwardPressed(i)'
    BY <1>5, <1>9 DEF Back, ForwardPressed
  <2>2. KeyReported(i)'
    <3>1. i \in Keys => (i \in reported' <=> i \in reported)
      BY <1>2, <1>3
    <3> QED
      BY <1>7, <1>9, <3>1 DEF Back, KeyReported
  <2>3. HandlersFollowed(i)'
    <3> SUFFICES ASSUME i \notin pressed PROVE QueuesFollowed(i)' /\ HandsFollowed(i)' /\ ShownFollowed(i)'
      BY <1>5 DEF HandlersFollowed
    <3>1. QueuesFollowed(i) /\ HandsFollowed(i) /\ ShownFollowed(i)
      BY <1>9 DEF Back, HandlersFollowed
    <3>2. QueuesFollowed(i)'
      BY <1>1, <1>4, <1>7, <3>1 DEF QueuesFollowed
    <3>3. HandsFollowed(i)'
      BY <1>1, <1>4, <1>6, <1>7, <3>1 DEF QueuesFollowed, HandsFollowed
    <3>4. Shown(i) /\ e \in UpOf(i) => HandUp(ms, i)' \/ InInject(i)
      <4> SUFFICES ASSUME Shown(i), e \in UpOf(i), ~HandUp(ms, i)' PROVE InInject(i)
        OBVIOUS
      <4>1. i \in Buttons /\ e.input = i /\ e.type = "up"
        BY <1>3 DEF UpOf
      <4>2. ms' = Idle
        BY <1>6, <4>1
      <4>3. Idle.at = "wait" /\ [at |-> "inject", ev |-> e].at = "inject"
        BY DEF Idle
      <4>4. i \notin reported
        BY <1>2, <4>1, <4>2, <4>3
      <4>5. ~Releasing(ms, i)
        BY <1>1, <4>3 DEF Releasing
      <4> QED
        BY <1>9, <4>1, <4>4, <4>5, ShownHeld
    <3>5. ShownFollowed(i)'
      BY <1>1, <1>4, <1>6, <1>7, <3>1, <3>4 DEF ShownFollowed
    <3> QED
      BY <3>2, <3>3, <3>5
  <2> QED
    BY <2>1, <2>2, <2>3 DEF Back
<1> QED
  BY <1>1, <1>5, <1>7, <1>8, <1>9, HandlerStep DEF Live, Unexcused

LEMMA MouseInjectFollowed ==
  ASSUME Shape, Shape', NEW i \in Inputs, Chain(i), MouseInject
  PROVE  Chain(i)'
<1> DEFINE e == ms.ev
<1>1. /\ ms.at = "inject" /\ ms' = Done /\ InjectEvent(e)
      /\ UNCHANGED <<client, transport, kq, mq, kb, reported, spill, reset, phase>>
  BY DEF MouseInject
<1>2. e.input \in Buttons /\ Keys \cap Buttons = {}
  BY <1>1, QueuesHold, InputAssumption
<1>3. UNCHANGED <<clientHeld, clientSession, authorized, goKeys, pion, tq, pressed, proc>>
  BY <1>1 DEF client, player, transport
<1>4. /\ Shown(i)' => IF e.input = i THEN e.type = "down" ELSE Shown(i)
      /\ Unexcused(i)' => Unexcused(i) \/ i \notin InGo \cup InThePipe \cup InTheHandlers \cup os'
  BY <1>1, EventOne
<1>5. /\ i \in InHand(ms) <=> e.type = "down" /\ e.input = i
      /\ HandUp(ms, i) <=> e.type # "down" /\ e.input = i
  BY <1>1, Hand DEF HandUp
<1>6. i \notin InHand(ms)'
  BY <1>1 DEF InHand, Done, Idle, Leaving, Downs
<1>7. /\ InHand(kb)' = InHand(kb) /\ (HandUp(kb, i)' <=> HandUp(kb, i))
      /\ (Pending(i)' <=> Pending(i)) /\ (InInject(i)' <=> InInject(i)) /\ BeingForwarded' = BeingForwarded
  BY <1>1, <1>3 DEF InHand, HandUp, Pending, InInject, BeingForwarded
<1> HIDE DEF e
<1>8. i \in InTheHandlers' => i \in InTheHandlers
  BY <1>1, <1>6, <1>7, Whereabouts, WhereaboutsNext
<1>9. Shown(i)' => Live(i)
  BY <1>4, <1>5, Whereabouts DEF Live
<1>10. ASSUME Back(i) PROVE Back(i)'
  <2>1. ForwardPressed(i)'
    BY <1>3, <1>10 DEF Back, ForwardPressed
  <2>2. KeyReported(i)'
    BY <1>1, <1>2, <1>4, <1>7, <1>10 DEF Back, KeyReported
  <2>3. HandlersFollowed(i)'
    <3> SUFFICES ASSUME i \notin pressed PROVE QueuesFollowed(i)' /\ HandsFollowed(i)' /\ ShownFollowed(i)'
      BY <1>3 DEF HandlersFollowed
    <3>1. QueuesFollowed(i) /\ HandsFollowed(i) /\ ShownFollowed(i)
      BY <1>10 DEF Back, HandlersFollowed
    <3>2. QueuesFollowed(i)' /\ HandsFollowed(i)'
      BY <1>1, <1>6, <1>7, <3>1 DEF QueuesFollowed, HandsFollowed
    <3>3. ShownFollowed(i)'
      BY <1>1, <1>4, <1>5, <1>7, <3>1 DEF HandsFollowed, ShownFollowed
    <3> QED
      BY <3>2, <3>3
  <2> QED
    BY <2>1, <2>2, <2>3 DEF Back
<1> QED
  BY <1>1, <1>3, <1>4, <1>8, <1>9, <1>10, HandlerStep

\* All keys released at once: what is in hand is overtaken, the rest was held by the FSM.
LEMMA AllKeysFollowed ==
  ASSUME Shape, Shape', Holds, NEW i \in Inputs, Chain(i),
         SpillRelease \/ \E t \in Threads : ResetKeys(t)
  PROVE  Chain(i)'
<1> DEFINE U == fsm
           W == InHand(kb)
<1>1. /\ InjectBut({}, U, W)
      /\ UNCHANGED <<client, transport, kq, mq, kb, ms, reported, phase>>
      /\ spill' = spill \/ (spill = "release" /\ spill' = "forget")
  BY DEF SpillRelease, ResetKeys, ReleaseFsm
<1>2. /\ \A t \in Threads : reset[t].at = "state" => reset'[t].at = "state"
      /\ \A t \in Threads : reset[t].at \in {"forward", "inject"} => reset'[t] = reset[t]
  BY DEF SpillRelease, ResetKeys, Shape
<1>3. UNCHANGED <<clientHeld, clientSession, authorized, goKeys, pion, tq, pressed, proc>>
  BY <1>1 DEF client, player, transport
<1> HIDE DEF U, W
<1>4. /\ Shown(i)' => i \notin U /\ (i \in {} \/ Shown(i))
      /\ Unexcused(i)' => i \notin W
      /\ Unexcused(i)' => Unexcused(i) \/ i \notin InGo \cup InThePipe \cup InTheHandlers \cup os'
  BY <1>1, InjectedOne
<1>5. (Shown(i)' => i \notin fsm /\ Shown(i)) /\ (Unexcused(i)' => i \notin InHand(kb))
  BY <1>4 DEF U, W
<1>6. /\ InHand(kb)' = InHand(kb) /\ InHand(ms)' = InHand(ms) /\ BeingForwarded' = BeingForwarded
      /\ (HandUp(kb, i)' <=> HandUp(kb, i)) /\ (HandUp(ms, i)' <=> HandUp(ms, i))
      /\ (Pending(i) => Pending(i)') /\ (InInject(i) => InInject(i)')
  BY <1>1, <1>2, <1>3 DEF InHand, HandUp, Pending, InInject, BeingForwarded
<1>7. i \in InTheHandlers' => i \in InTheHandlers
  BY <1>1, <1>6, Whereabouts, WhereaboutsNext
<1>8. ASSUME Unexcused(i), Unexcused(i)', Back(i) PROVE Back(i)'
  <2>1. ForwardPressed(i)'
    BY <1>3, <1>8 DEF Back, ForwardPressed
  <2>2. KeyReported(i)'
    BY <1>1, <1>5, <1>6, <1>8 DEF Back, KeyReported
  <2>3. HandlersFollowed(i)'
    <3> SUFFICES ASSUME i \notin pressed PROVE QueuesFollowed(i)' /\ HandsFollowed(i)' /\ ShownFollowed(i)'
      BY <1>3 DEF HandlersFollowed
    <3>1. QueuesFollowed(i) /\ HandsFollowed(i) /\ ShownFollowed(i)
      BY <1>8 DEF Back, HandlersFollowed
    <3>2. QueuesFollowed(i)' /\ HandsFollowed(i)'
      BY <1>1, <1>5, <1>6, <1>8, <3>1 DEF QueuesFollowed, HandsFollowed
    <3>3. Shown(i)' /\ i \in Keys => HandUp(kb, i)
      BY <1>5, <1>8, ShownHeld DEF Releasing, HandUp
    <3>4. ShownFollowed(i)'
      BY <1>1, <1>5, <1>6, <3>1, <3>3 DEF ShownFollowed
    <3> QED
      BY <3>2, <3>4
  <2> QED
    BY <2>1, <2>2, <2>3 DEF Back
<1> QED
  BY <1>1, <1>2, <1>3, <1>4, <1>5, <1>7, <1>8, HandlerStep DEF Live

LEMMA SpillForgetFollowed ==
  ASSUME Shape, Shape', Holds, NEW i \in Inputs, Chain(i), SpillForget
  PROVE  Chain(i)'
<1>1. /\ spill = "forget" /\ spill' = "none" /\ reported' = reported \ Keys
      /\ overtaken' = overtaken \cup (reported \cap (fsm \cup InHand(kb)))
      /\ UNCHANGED <<client, transport, kq, mq, kb, ms, fsm, reset, phase, os, abandoned, withheld>>
  BY DEF SpillForget
<1>2. UNCHANGED <<clientHeld, clientSession, authorized, goKeys, pion, tq, pressed, proc>>
  BY <1>1 DEF client, player, transport
<1>3. /\ InHand(kb)' = InHand(kb) /\ InHand(ms)' = InHand(ms) /\ BeingForwarded' = BeingForwarded
      /\ (HandUp(kb, i)' <=> HandUp(kb, i)) /\ (HandUp(ms, i)' <=> HandUp(ms, i)) /\ (Shown(i)' <=> Shown(i))
      /\ (Pending(i) => Pending(i)') /\ (InInject(i) => InInject(i)')
  BY <1>1, <1>2 DEF InHand, HandUp, Pending, InInject, BeingForwarded, Shown
<1>4. Unexcused(i)' => Unexcused(i) /\ i \notin reported \cap (fsm \cup InHand(kb))
  BY <1>1 DEF Unexcused
<1>5. i \in InTheHandlers' => i \in InTheHandlers
  BY <1>1, <1>3, Whereabouts, WhereaboutsNext
<1>6. ASSUME Unexcused(i), Unexcused(i)', Back(i) PROVE Back(i)'
  <2>1. ForwardPressed(i)'
    BY <1>2, <1>6 DEF Back, ForwardPressed
  <2>2. KeyReported(i)'
    <3> SUFFICES ASSUME i \in Keys, Shown(i) \/ i \in InHand(kb) PROVE HandUp(kb, i)
      BY <1>3 DEF KeyReported
    <3>1. i \in reported \/ HandUp(kb, i)
      BY <1>6 DEF Back, KeyReported
    <3>2. Shown(i) => i \in fsm \/ HandUp(kb, i)
      BY <1>6, ShownHeld DEF Releasing, HandUp
    <3> QED
      BY <1>4, <1>6, <3>1, <3>2
  <2>3. HandlersFollowed(i)'
    BY <1>1, <1>2, <1>3, <1>6 DEF Back, HandlersFollowed, QueuesFollowed, HandsFollowed, ShownFollowed
  <2> QED
    BY <2>1, <2>2, <2>3 DEF Back
<1> QED
  BY <1>1, <1>2, <1>3, <1>4, <1>5, <1>6, HandlerStep DEF Live

LEMMA ResetButtonsFollowed ==
  ASSUME Shape, Shape', NEW i \in Inputs, Chain(i), NEW t \in Threads, ResetButtons(t)
  PROVE  Chain(i)'
<1>1. /\ reset[t].at = "buttons" /\ reported' = reported \ Buttons
      /\ reset' = [reset EXCEPT ![t].at = "inject", ![t].out = reported \cap Buttons]
      /\ overtaken' = overtaken \cup InHand(ms)
      /\ UNCHANGED <<client, transport, kq, mq, kb, ms, fsm, spill, phase, os, abandoned, withheld>>
  BY DEF ResetButtons
<1>2. UNCHANGED <<clientHeld, clientSession, authorized, goKeys, pion, tq, pressed, proc>>
  BY <1>1 DEF client, player, transport
<1>3. \A u \in Threads : reset[u].at \in {"state", "forward", "inject"} => reset'[u] = reset[u]
  BY <1>1 DEF Shape
<1>4. UNCHANGED <<kq, mq, kb, ms, spill, os, withheld>> /\ (i \in Keys => (i \in reported' <=> i \in reported))
  BY <1>1, InputAssumption
<1>5. /\ InHand(kb)' = InHand(kb) /\ InHand(ms)' = InHand(ms) /\ BeingForwarded' = BeingForwarded
      /\ (HandUp(kb, i)' <=> HandUp(kb, i)) /\ (HandUp(ms, i)' <=> HandUp(ms, i)) /\ (Shown(i)' <=> Shown(i))
      /\ (Pending(i) => Pending(i)') /\ (InInject(i) => InInject(i)')
  BY <1>1, <1>2, <1>3 DEF InHand, HandUp, Pending, InInject, BeingForwarded, Shown
<1>6. Unexcused(i)' => Unexcused(i)
  BY <1>1 DEF Unexcused
<1>7. i \in InTheHandlers' => i \in InTheHandlers
  BY <1>4, <1>5, Whereabouts, WhereaboutsNext
<1>8. Back(i) => Back(i)'
  BY <1>2, <1>4, <1>5 DEF Back, ForwardPressed, HandlersFollowed, QueuesFollowed, HandsFollowed, ShownFollowed,
     KeyReported
<1> QED
  BY <1>1, <1>2, <1>3, <1>5, <1>6, <1>7, <1>8, HandlerStep DEF Live

LEMMA ResetInjectFollowed ==
  ASSUME Shape, Shape', NEW i \in Inputs, Chain(i), NEW t \in Threads, ResetInject(t)
  PROVE  Chain(i)'
<1> DEFINE U == reset[t].out
<1>1. /\ reset[t].at = "inject" /\ InjectBut({}, U, {})
      /\ reset' = [reset EXCEPT ![t].at = "idle", ![t].out = {}]
      /\ UNCHANGED <<client, transport, handlers, phase>>
  BY DEF ResetInject, Inject
<1>2. UNCHANGED <<clientHeld, clientSession, authorized, goKeys, pion, tq, pressed, proc, kq, mq, kb, ms, spill,
                  reported>>
  BY <1>1 DEF client, player, transport, handlers
<1>3. \A u \in Threads : u # t => reset'[u] = reset[u]
  BY <1>1 DEF Shape
<1>4. /\ Shown(i)' => i \notin U /\ (i \in {} \/ Shown(i))
      /\ Unexcused(i)' => Unexcused(i) \/ i \notin InGo \cup InThePipe \cup InTheHandlers \cup os'
  <2> HIDE DEF U
  <2> QED
    BY <1>1, InjectedOne
<1>5. Shown(i)' => i \notin reset[t].out /\ Shown(i)
  BY <1>4
<1>6. /\ InHand(kb)' = InHand(kb) /\ InHand(ms)' = InHand(ms) /\ BeingForwarded' = BeingForwarded
      /\ (HandUp(kb, i)' <=> HandUp(kb, i)) /\ (HandUp(ms, i)' <=> HandUp(ms, i))
  BY <1>2 DEF InHand, HandUp, BeingForwarded
<1>7. /\ Pending(i) => Pending(i)'
      /\ i \notin reset[t].out /\ InInject(i) => InInject(i)'
  BY <1>1, <1>2, <1>3 DEF Pending, InInject
<1>8. i \in InTheHandlers' => i \in InTheHandlers
  BY <1>2, <1>6, Whereabouts, WhereaboutsNext
<1>9. Back(i) => Back(i)'
  BY <1>2, <1>5, <1>6, <1>7 DEF Back, ForwardPressed, HandlersFollowed, QueuesFollowed, HandsFollowed,
     ShownFollowed, KeyReported
<1> QED
  BY <1>1, <1>2, <1>3, <1>4, <1>5, <1>8, <1>9, HandlerStep DEF Live

-----------------------------------------------------------------------------
(* Stop and start. *)
LEMMA StopFollowed ==
  ASSUME Shape, LeftBehind, NEW i \in Inputs, Chain(i),
         Stop \/ ThreadsJoined \/ QueueCleared \/ MouseLeaves \/ KeysLeave \/ Stopped
  PROVE  Chain(i)'
<1>1. phase' # "running"
  BY DEF Stop, ThreadsJoined, QueueCleared, MouseLeaves, KeysLeave, Stopped, LeftBehind
<1>2. CASE Stop
  <2>1. ChannelsClose /\ authorized' = authorized /\ (Unexcused(i)' => Unexcused(i) /\ i \notin Severed)
    BY <1>2 DEF Stop, Unexcused
  <2> QED
    BY <1>1, <2>1, ClosedChannels DEF Chain
<1>3. CASE ThreadsJoined \/ QueueCleared \/ Stopped
  <2>1. UNCHANGED <<clientHeld, clientSession, goKeys, authorized, overtaken, abandoned>>
    BY <1>3 DEF ThreadsJoined, QueueCleared, Stopped, client, player, transport, windows, history
  <2> QED
    BY <1>1, <2>1, GoKept DEF Chain, Unexcused
<1>4. CASE MouseLeaves \/ KeysLeave
  <2>1. UNCHANGED <<clientHeld, clientSession, goKeys, authorized>>
    BY <1>4 DEF MouseLeaves, KeysLeave, client, player, transport
  <2>2. PICK U : InjectBut({}, U, {})
    BY <1>4 DEF MouseLeaves, KeysLeave, Inject
  <2>3. Unexcused(i)' => Unexcused(i) \/ i \notin InGo
    BY <2>2, InjectedOne
  <2>4. i \notin InGo => GoFollowed(i)'
    BY <2>1, Whereabouts, NoneClosed DEF GoFollowed
  <2> QED
    BY <1>1, <2>1, <2>3, <2>4, GoKept DEF Chain
<1> QED
  BY <1>2, <1>3, <1>4

LEMMA StartFollowed ==
  ASSUME IInv, LeftBehind, NEW i \in Inputs, Chain(i), Start
  PROVE  Chain(i)'
<1>1. /\ phase = "stopped" /\ kq' = <<>> /\ mq' = <<>> /\ kb' = Idle /\ ms' = Idle
      /\ UNCHANGED <<clientHeld, clientSession, goKeys, authorized, pion, tq, proc, pressed, os, withheld,
                     overtaken, abandoned>>
  BY DEF Start, client, player, transport, windows, history
<1>2. tq = <<>> /\ pressed = {} /\ proc = Idle /\ pion = Idle
  BY <1>1 DEF LeftBehind, IInv, Resting
<1>3. os \subseteq overtaken \cup withheld
  BY <1>1, StoppedReleased DEF StoppedReleasesAll
<1> SUFFICES ASSUME Unexcused(i)' PROVE GoFollowed(i)' /\ Front(i)' /\ Back(i)'
  BY DEF Chain
<1>4. GoFollowed(i)' /\ ~Shown(i)'
  BY <1>1, <1>3, GoKept DEF Chain, Unexcused, Shown
<1>5. \A S, T : ~Has(<<>>, S) /\ Closed(<<>>, S, T)
  BY ShortQueues, NoneClosed
<1>6. Idle.at = "wait" /\ i \notin InHand(kb)' /\ i \notin InHand(ms)'
  BY <1>1 DEF Idle, InHand, Downs
<1>7. Front(i)'
  BY <1>1, <1>2, <1>5, <1>6 DEF Front, PipeFollowed, PressedFollowed
<1>8. Back(i)'
  BY <1>1, <1>2, <1>4, <1>5, <1>6 DEF Back, ForwardPressed, HandlersFollowed, QueuesFollowed, HandsFollowed,
     ShownFollowed, KeyReported
<1> QED
  BY <1>4, <1>7, <1>8

LEMMA LeftBehindStep == Shape /\ Resting /\ LeftBehind /\ [Next]_vars => LeftBehind'
<1> SUFFICES ASSUME Shape, Resting, LeftBehind, [Next]_vars PROVE LeftBehind'
  OBVIOUS
<1>0. /\ reset \in [Threads -> ResetStates] /\ Threads = {"pion", "control", "recovery"}
      /\ Idle.at = "wait" /\ Leaving.at = "leave" /\ Gone.at = "gone"
  BY DEF Shape, Threads, Idle, Leaving, Gone
<1> HIDE DEF Shape
<1>1. ASSUME \/ \E i \in Inputs : Press(i) \/ Release(i)
             \/ MovePointer \/ ChannelLost \/ FocusChanges \/ \E s \in Sessions : AuthorizeSession(s)
             \/ PionTake \/ UNCHANGED vars
      PROVE  LeftBehind'
  <2>1. UNCHANGED <<pressed, tq, reset, proc, phase, spill, kb, ms>>
    BY <1>1 DEF Press, Release, Transition, MovePointer, ChannelLost, FocusChanges, AuthorizeSession, PionTake,
         vars, transport, handlers
  <2> QED
    BY <2>1 DEF LeftBehind
<1>2. ASSUME PionPush \/ ProcTake \/ ProcState \/ ProcForward \/ CheckForStuckKeys \/ EndSession \/ SignalingLost
             \/ CloseAfterReset
      PROVE  LeftBehind'
  <2>1. phase' = phase /\ kb' = kb /\ ms' = ms
    BY <1>2 DEF PionPush, ProcTake, ProcState, ProcForward, CheckForStuckKeys, EndSession, SignalingLost,
         CloseAfterReset, Dispatch, handlers
  <2>2. phase \in {"running", "joining"}
    <3>1. PionPush \/ ProcState \/ ProcForward => pion # Idle \/ proc # Idle
      BY <1>0 DEF PionPush, ProcState, ProcForward
    <3>2. ~(PionPush \/ ProcState \/ ProcForward) => phase = "running"
      BY <1>2 DEF ProcTake, CheckForStuckKeys, EndSession, SignalingLost, CloseAfterReset, ControlIdle
    <3> QED
      BY <3>1, <3>2 DEF LeftBehind, Resting, Shape
  <2> QED
    BY <2>1, <2>2 DEF LeftBehind
<1>3. ASSUME KeyTake \/ KeyFsm \/ KeyInject \/ MouseTake \/ MouseInject \/ SpillRelease \/ SpillForget
             \/ MouseLeaves \/ KeysLeave
      PROVE  LeftBehind'
  <2>1. UNCHANGED <<pressed, tq, reset, proc, phase>>
    BY <1>3 DEF KeyTake, KeyFsm, KeyInject, MouseTake, MouseInject, SpillRelease, SpillForget, MouseLeaves,
         KeysLeave, transport
  <2>2. spill = "none" => spill' = "none"
    BY <1>3 DEF KeyTake, KeyFsm, KeyInject, MouseTake, MouseInject, SpillRelease, SpillForget, MouseLeaves,
         KeysLeave
  <2>3. phase = "running" => kb' \notin {Leaving, Gone} /\ ms' \notin {Leaving, Gone}
    <3> SUFFICES ASSUME phase = "running" PROVE kb' \notin {Leaving, Gone} /\ ms' \notin {Leaving, Gone}
      OBVIOUS
    <3>0. kb \notin {Leaving, Gone} /\ ms \notin {Leaving, Gone}
      BY DEF LeftBehind
    <3>1. CASE KeyTake \/ MouseTake
      <4>1. CASE KeyTake
        <5>1. ms' = ms /\ (kb' = Idle \/ kb' = [at |-> "fsm", ev |-> Head(kq)])
          BY <4>1 DEF KeyTake
        <5>2. kb'.at \in {"wait", "fsm"}
          BY <1>0, <5>1
        <5> QED
          BY <1>0, <3>0, <5>1, <5>2
      <4>2. CASE MouseTake
        <5>1. kb' = kb /\ (ms' = Idle \/ ms' = [at |-> "inject", ev |-> Head(mq)])
          BY <4>2 DEF MouseTake
        <5>2. ms'.at \in {"wait", "inject"}
          BY <1>0, <5>1
        <5> QED
          BY <1>0, <3>0, <5>1, <5>2
      <4> QED
        BY <3>1, <4>1, <4>2
    <3>2. CASE KeyFsm
      <4>1. kb \in [at : {"fsm", "inject"}, ev : KeyEvents]
        BY <3>2 DEF KeyFsm, Shape, Idle, Leaving, Gone
      <4>2. ms' = ms /\ (kb' = Idle \/ kb' = [kb EXCEPT !.at = "inject"])
        BY <3>2 DEF KeyFsm, Done
      <4>3. kb'.at \in {"wait", "inject"}
        BY <1>0, <4>1, <4>2
      <4> QED
        BY <1>0, <3>0, <4>2, <4>3
    <3>3. CASE KeyInject \/ MouseInject
      BY <1>0, <3>0, <3>3 DEF KeyInject, MouseInject, Done
    <3>4. CASE SpillRelease \/ SpillForget
      BY <3>0, <3>4 DEF SpillRelease, SpillForget
    <3>5. ~MouseLeaves /\ ~KeysLeave
      BY <3>0 DEF MouseLeaves, KeysLeave
    <3> QED
      BY <1>3, <3>1, <3>2, <3>3, <3>4, <3>5
  <2> QED
    BY <2>1, <2>2, <2>3 DEF LeftBehind
<1>4. ASSUME NEW t \in Threads, ResetStep(t) PROVE LeftBehind'
  <2>1. /\ reset[t].at # "idle" /\ UNCHANGED <<phase, proc, tq, kb, ms>>
        /\ pressed' = pressed \/ pressed' = {}
        /\ reset[t].at = "state" => pressed' = {}
    BY <1>4 DEF ResetStep, ResetState, ResetForward, ResetKeys, ResetButtons, ResetInject, Dispatch, transport,
         handlers
  <2>2. \A u \in Threads : u # t => reset'[u] = reset[u]
    BY <1>0, <1>4 DEF ResetStep, ResetState, ResetForward, ResetKeys, ResetButtons, ResetInject
  <2>3. phase \notin {"cleared", "stopped"}
    BY <1>0, <2>1 DEF LeftBehind, Resting
  <2>4. phase = "resetting" /\ reset'["control"].at # "state" => pressed' = {}
    BY <1>0, <2>1, <2>2 DEF LeftBehind
  <2> QED
    BY <2>1, <2>3, <2>4 DEF LeftBehind
<1>5. CASE Stop
  BY <1>5 DEF Stop, LeftBehind
<1>6. CASE ThreadsJoined
  <2>1. reset'["control"].at = "state" /\ proc' = Idle /\ phase' = "resetting"
    BY <1>0, <1>6 DEF ThreadsJoined, transport, ResetStates
  <2> QED
    BY <2>1 DEF LeftBehind
<1>7. CASE QueueCleared
  <2>1. /\ phase = "resetting" /\ phase' = "cleared" /\ tq' = <<>> /\ reset["control"].at = "idle"
        /\ UNCHANGED <<proc, pressed>> /\ reset'["recovery"] = reset["recovery"] /\ reset["recovery"].at = "idle"
    BY <1>0, <1>7 DEF QueueCleared
  <2> QED
    BY <2>1 DEF LeftBehind
<1>8. CASE Stopped
  BY <1>8 DEF Stopped, LeftBehind, transport, handlers
<1>9. CASE Start
  BY <1>0, <1>9 DEF Start, LeftBehind
<1> QED
  BY <1>1, <1>2, <1>3, <1>4, <1>5, <1>6, <1>7, <1>8, <1>9 DEF Next, Control, Pipeline

LEMMA SessionOwnStep == Shape /\ SessionOwn /\ [Next]_vars => SessionOwn'
<1> SUFFICES ASSUME Shape, SessionOwn, [Next]_vars PROVE SessionOwn'
  OBVIOUS
<1> DEFINE Others(s) == {m \in Messages : m.type = "up" /\ m.session # s}
           Moved == {m \in Messages : m.type \in {"down", "up"}}
<1>0. /\ goKeys \in Seq(Messages) /\ goMouse \in Seq(Messages) /\ Reset \in Messages
      /\ Reset \notin Moved /\ \A s : Reset \notin Others(s)
      /\ clientSession \in Sessions \cup {NoSession}
  BY QueuesHold DEF Reset, Messages, Shape
<1>1. ASSUME NEW j \in Inputs, NEW type \in {"down", "up"}, Transition(type, j) PROVE SessionOwn'
  <2> DEFINE n == IF j \in Keys THEN keySeq + 1 ELSE 0
             m == [type |-> type, input |-> j, session |-> clientSession, seq |-> n]
  <2>1. m \in Messages
    <3>1. n \in Nat
      BY DEF Shape
    <3> HIDE DEF n
    <3> QED
      BY <1>0, <3>1 DEF Messages
  <2>2. /\ goKeys' = GoEnqueue(goKeys, m) /\ m \notin Others(authorized)
        /\ UNCHANGED <<clientSession, authorized, goMouse>>
    BY <1>1 DEF Transition, SessionOwn
  <2> HIDE DEF m
  <2>3. Has(goKeys', Others(authorized)) => Has(goKeys, Others(authorized))
    BY <1>0, <2>1, <2>2, GoEnqueued
  <2> QED
    BY <2>2, <2>3 DEF SessionOwn
<1>2. CASE MovePointer
  <2> DEFINE m == [Reset EXCEPT !.type = "move", !.session = clientSession]
  <2>1. /\ m.type = "move" /\ goMouse' = GoMouseEnqueue(goMouse, m)
        /\ UNCHANGED <<clientSession, authorized, goKeys>>
    BY <1>2 DEF MovePointer, Reset
  <2>2. m \in Messages /\ m \notin Moved
    BY <1>0, <2>1 DEF Reset, Messages
  <2> HIDE DEF m
  <2>3. CASE goMouse # <<>> /\ goMouse[Len(goMouse)].type = "move" /\ goMouse' = [goMouse EXCEPT ![Len(goMouse)] = m]
    <3>1. goMouse[Len(goMouse)] \notin {} \cup Moved /\ m \notin {} \cup Moved
      BY <2>2, <2>3
    <3>2. Has(goMouse', Moved) <=> Has(goMouse, Moved)
      BY <1>0, <2>2, <2>3, <3>1, LastReplaced
    <3> QED
      BY <2>1, <3>2 DEF SessionOwn
  <2>4. CASE goMouse' = GoEnqueue(goMouse, m)
    <3>1. Has(goMouse', Moved) => Has(goMouse, Moved)
      BY <1>0, <2>2, <2>4, GoEnqueued
    <3> QED
      BY <2>1, <3>1 DEF SessionOwn
  <2> QED
    BY <2>1, <2>3, <2>4 DEF GoMouseEnqueue
<1>3. ASSUME ChannelsClose, authorized' \in {authorized, NoSession} PROVE SessionOwn'
  <2>1. /\ clientSession' = NoSession
        /\ goMouse' = GoEnqueue(goMouse, Reset) /\ goKeys' = GoEnqueue(goKeys, Reset)
    BY <1>3 DEF ChannelsClose
  <2>2. /\ Has(goMouse', Moved) => Has(goMouse, Moved)
        /\ Has(goKeys', Others(authorized)) => Has(goKeys, Others(authorized))
    BY <1>0, <2>1, GoEnqueued
  <2> QED
    BY <1>3, <2>1, <2>2 DEF SessionOwn
<1>4. CASE PionTake
  <2>1. /\ UNCHANGED <<clientSession, authorized>>
        /\ goKeys' = goKeys \/ (goKeys # <<>> /\ goKeys' = Tail(goKeys))
        /\ goMouse' = goMouse \/ (goMouse # <<>> /\ goMouse' = Tail(goMouse))
    BY <1>4 DEF PionTake, client, player
  <2>2. \A S : /\ Has(goKeys', S) => Has(goKeys, S)
               /\ Has(goMouse', S) => Has(goMouse, S)
    BY <1>0, <2>1, TailHas
  <2> QED
    BY <2>1, <2>2 DEF SessionOwn
<1>5. ASSUME NEW s \in Sessions, AuthorizeSession(s) PROVE SessionOwn'
  BY <1>5, ShortQueues DEF AuthorizeSession, SessionOwn
<1>6. ASSUME UNCHANGED <<clientSession, authorized, goKeys, goMouse>> PROVE SessionOwn'
  BY <1>6 DEF SessionOwn
<1>7. ASSUME \/ ProcTake \/ ProcState \/ ProcForward \/ PionPush \/ CheckForStuckKeys \/ FocusChanges
             \/ SignalingLost \/ QueueCleared
      PROVE  UNCHANGED <<clientSession, authorized, goKeys, goMouse>>
  BY <1>7 DEF ProcTake, ProcState, ProcForward, PionPush, CheckForStuckKeys, FocusChanges, SignalingLost,
     QueueCleared, client, player, transport
<1>8. ASSUME \/ KeyTake \/ KeyFsm \/ KeyInject \/ MouseTake \/ MouseInject \/ SpillRelease \/ SpillForget
             \/ ThreadsJoined \/ MouseLeaves \/ KeysLeave \/ Stopped \/ Start \/ UNCHANGED vars
      PROVE  UNCHANGED <<clientSession, authorized, goKeys, goMouse>>
  BY <1>8 DEF KeyTake, KeyFsm, KeyInject, MouseTake, MouseInject, SpillRelease, SpillForget, ThreadsJoined,
     MouseLeaves, KeysLeave, Stopped, Start, vars, client, player, transport
<1>9. ASSUME NEW t \in Threads, ResetStep(t) PROVE UNCHANGED <<clientSession, authorized, goKeys, goMouse>>
  BY <1>9 DEF ResetStep, ResetState, ResetForward, ResetKeys, ResetButtons, ResetInject, client, player, transport
<1>10. ASSUME ChannelLost \/ EndSession \/ CloseAfterReset \/ Stop
       PROVE  ChannelsClose /\ authorized' \in {authorized, NoSession}
  BY <1>10 DEF ChannelLost, EndSession, CloseAfterReset, Stop
<1> QED
  BY <1>1, <1>2, <1>3, <1>4, <1>5, <1>6, <1>7, <1>8, <1>9, <1>10 DEF Next, Control, Pipeline, Press, Release

-----------------------------------------------------------------------------
LEMMA InitQInv == Init => QInv
<1> SUFFICES ASSUME Init PROVE QInv
  OBVIOUS
<1> USE DEF Init
<1>1. \A S, T : ~Has(<<>>, S) /\ Closed(<<>>, S, T)
  BY ShortQueues, NoneClosed
<1>2. /\ Idle.at = "wait" /\ Idle # Leaving /\ Idle # Gone /\ InHand(kb) = {} /\ InHand(ms) = {}
      /\ \A t \in Threads : reset[t].at = "idle"
  BY DEF Idle, Leaving, Gone, InHand
<1>3. SessionOwn /\ LeftBehind
  BY <1>1, <1>2 DEF SessionOwn, LeftBehind
<1>4. ASSUME NEW i \in Inputs PROVE Chain(i)
  <2>1. ~Shown(i)
    BY DEF Shown
  <2>2. GoFollowed(i) /\ Front(i)
    BY <1>1, <1>2 DEF GoFollowed, Front, PipeFollowed, PressedFollowed
  <2>3. Back(i)
    BY <1>1, <1>2, <2>1 DEF Back, ForwardPressed, HandlersFollowed, QueuesFollowed, HandsFollowed, ShownFollowed,
       KeyReported
  <2> QED
    BY <2>2, <2>3 DEF Chain
<1> QED
  BY <1>3, <1>4 DEF QInv

LEMMA QInvStep == IInv /\ QInv /\ [Next]_vars => QInv'
<1> SUFFICES ASSUME IInv, QInv, [Next]_vars PROVE QInv'
  OBVIOUS
<1>1. Shape /\ Shape' /\ Resting /\ Holds /\ SessionOwn /\ LeftBehind
  BY IInvStep DEF IInv, QInv
<1>2. SessionOwn' /\ LeftBehind'
  BY <1>1, SessionOwnStep, LeftBehindStep
<1>3. ASSUME NEW i \in Inputs, Own(i) PROVE Chain(i)'
  <2>1. Chain(i)
    BY <1>3 DEF QInv
  <2>2. CASE \E j \in Inputs : Press(j) \/ Release(j)
    BY <1>1, <2>1, <2>2, TransitionFollowed
  <2>3. CASE ChannelLost \/ CloseAfterReset \/ EndSession
    BY <1>1, <2>1, <2>3, CloseFollowed, EndSessionFollowed
  <2>4. CASE \/ MovePointer \/ SignalingLost \/ FocusChanges \/ \E s \in Sessions : AuthorizeSession(s)
             \/ UNCHANGED vars
    BY <1>1, <2>1, <2>4, AsideFollowed
  <2>5. CASE PionTake \/ PionPush \/ ProcTake
    BY <1>1, <2>1, <2>5, PionTakeFollowed, PionPushFollowed, ProcTakeFollowed
  <2>6. CASE ProcState \/ CheckForStuckKeys \/ ProcForward
    BY <1>1, <2>1, <2>6, ProcStateFollowed, StuckKeysFollowed, ProcForwardFollowed
  <2>7. CASE KeyTake \/ KeyFsm \/ KeyInject \/ MouseTake \/ MouseInject
    BY <1>1, <1>3, <2>1, <2>7, KeyTakeFollowed, KeyFsmFollowed, KeyInjectFollowed, MouseTakeFollowed,
       MouseInjectFollowed
  <2>8. CASE SpillRelease \/ SpillForget
    BY <1>1, <2>1, <2>8, AllKeysFollowed, SpillForgetFollowed
  <2>9. ASSUME NEW t \in Threads, ResetStep(t) PROVE Chain(i)'
    BY <1>1, <2>1, <2>9, ResetStateFollowed, ResetForwardFollowed, AllKeysFollowed, ResetButtonsFollowed,
       ResetInjectFollowed DEF ResetStep
  <2>10. CASE Stop \/ ThreadsJoined \/ QueueCleared \/ MouseLeaves \/ KeysLeave \/ Stopped
    BY <1>1, <2>1, <2>10, StopFollowed
  <2>11. CASE Start
    BY <1>1, <2>1, <2>11, StartFollowed
  <2> QED
    BY <2>2, <2>3, <2>4, <2>5, <2>6, <2>7, <2>8, <2>9, <2>10, <2>11 DEF Next, Control, Pipeline
<1> QED
  BY <1>2, <1>3 DEF QInv

LEMMA QuietFollows ==
  ASSUME IInv, QInv, Quiet, NEW i \in os, Own(i)
  PROVE  i \in clientHeld \cup overtaken \cup abandoned \cup withheld
<1> SUFFICES ASSUME Unexcused(i), i \notin withheld, i \notin clientHeld PROVE FALSE
  BY DEF Unexcused
<1>1. i \in Inputs
  BY DEF IInv, Shape
<1>2. Front(i) /\ Back(i) /\ Shown(i) /\ Live(i)
  BY <1>1 DEF QInv, Chain, Quiet, Shown, Live
<1>3. \A S : ~Has(<<>>, S)
  BY ShortQueues
<1>4. /\ ~Coming(i) /\ ~Pending(i) /\ ~InInject(i) /\ proc.at # "state"
      /\ ~HandUp(kb, i) /\ ~HandUp(ms, i) /\ \A t \in Threads : reset[t].at # "state"
  BY <1>3 DEF Quiet, Coming, PionUp, GoUp, Pending, InInject, HandUp, Idle
<1>5. i \notin pressed
  BY <1>2, <1>3, <1>4 DEF Front, PressedFollowed, Quiet
<1>6. ShownFollowed(i)
  BY <1>2, <1>5 DEF Back, HandlersFollowed
<1> QED
  BY <1>2, <1>3, <1>4, <1>6 DEF ShownFollowed, Quiet

(* Once everything sent has been worked off, a key or button that Windows   *)
(* holds is held by the player, unless its release was lost in one of three *)
(* ways: dropped by a full Go queue or a closing channel, overtaken by a    *)
(* reset, or withheld from a window that is not in front.  It is so of      *)
(* every button, and of every key that shares its virtual key with no other.*)
THEOREM QuietFollowsPlayer ==
  Spec => [](Quiet => \A i \in os : Own(i) => i \in clientHeld \cup overtaken \cup abandoned \cup withheld)
<1>1. IInv /\ QInv => (Quiet => \A i \in os : Own(i) => i \in clientHeld \cup overtaken \cup abandoned \cup withheld)
  BY QuietFollows
<1> QED
  BY <1>1, InitIInv, IInvStep, InitQInv, QInvStep, PTL DEF Spec

(* The same where each key has a virtual key of its own, as in the run: all *)
(* the handler's table but the two Enter keys.                              *)
THEOREM QuietFollowsAll ==
  ASSUME \A k, l \in Keys : Vk[k] = Vk[l] => k = l
  PROVE  Spec => []QuietFollowsClient
<1>1. IInv /\ QInv => QuietFollowsClient
  BY QuietFollows DEF QuietFollowsClient, Own
<1> QED
  BY <1>1, InitIInv, IInvStep, InitQInv, QInvStep, PTL DEF Spec
=============================================================================
