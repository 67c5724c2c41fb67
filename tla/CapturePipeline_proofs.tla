------------------------ MODULE CapturePipeline_proofs ------------------------
(***************************************************************************)
(* The two ways of a frame through the host before it is sent: video, from *)
(* the callbacks of the frame pool to the queue of the encoder, and audio, *)
(* from the ring to the sender thread.                                     *)
(*                                                                         *)
(* Video, for any number of callback threads, sizes, places in the queue   *)
(* and frames: the callbacks are serialised, the queue is bounded, no      *)
(* callback meets the release of the textures, frames keep their order, no *)
(* texture leaks and a new frame finds one.                                *)
(*                                                                         *)
(* StopCapture is safe because of an order of three things: the flag is    *)
(* cleared before the mutex is waited for, a callback tests the flag after *)
(* it has taken the mutex, and it keeps the mutex until it leaves.  The    *)
(* inductive invariant says just that: who is at work holds the mutex, the *)
(* flag is up only while capturing, and past the wait nobody holds it.     *)
(* That at most one callback is at work is also why the textures add up:   *)
(* at most one of them is being copied into.                               *)
(***************************************************************************)
EXTENDS CapturePipeline, AudioCapture, FiniteSetTheorems, TLAPS

Shape ==
    /\ runtime \in {"idle", "capturing", "flagged", "synchronised", "joining", "joined"}
    /\ isCapturing \in BOOLEAN
    /\ window \in [size: Sizes, pool: Sizes, resizes: 0..MaxResizes]
    /\ arrived \in 0..MaxFrames
    /\ mutex \in Callbacks \cup {None}
    /\ callback \in [Callbacks -> [pc: {"idle", "entered", "acquire", "copy"},
                                   frame: Frame \cup {NoFrame},
                                   resize: Sizes \cup {None}]]
    /\ queue \in Seq(Frame) /\ Len(queue) <= MaxQueued

\* A callback with a frame in its hands has a real one.
Carrying == \A c \in Callbacks : callback[c].pc \in {"acquire", "copy"} => callback[c].frame \in Frame

\* A callback at work holds g_callbackMutex; one that is not carries nothing.
Serialised == \A c \in Callbacks : callback[c].pc # "idle" => mutex = c
IdleRests == \A c \in Callbacks : callback[c].pc = "idle" => callback[c] = Resting

\* The flag is up only while capturing; past the wait the mutex is free.
FlagFirst == isCapturing => runtime = "capturing"
WaitSecond == runtime \in {"synchronised", "joining", "joined", "idle"} => mutex = None

IInv == Shape /\ Carrying /\ Serialised /\ IdleRests /\ FlagFirst /\ WaitSecond

\* The queue is never longer than its limit, and two callbacks are never at work.
QueueIsBounded == Len(queue) <= MaxQueued
CallbacksSerialised ==
    \A c, d \in Callbacks : callback[c].pc # "idle" /\ callback[d].pc # "idle" => c = d

----------------------------------------------------------------------------
LEMMA Bounds == MaxQueued \in Nat /\ MaxQueued > 0 /\ MaxFrames \in Nat /\ MaxResizes \in Nat
  BY CaptureAssumption

LEMMA InitIInv == Init => IInv
<1> SUFFICES ASSUME Init PROVE IInv
  OBVIOUS
<1> USE DEF Init, Resting, NoFrame, None
<1>1. Shape
  <2>1. window \in [size: Sizes, pool: Sizes, resizes: 0..MaxResizes]
    BY Bounds
  <2>2. callback \in [Callbacks -> [pc: {"idle", "entered", "acquire", "copy"},
                                   frame: Frame \cup {NoFrame}, resize: Sizes \cup {None}]]
    OBVIOUS
  <2>3. queue \in Seq(Frame) /\ Len(queue) <= MaxQueued
    BY Bounds
  <2>4. arrived \in 0..MaxFrames
    BY Bounds
  <2> QED
    BY <2>1, <2>2, <2>3, <2>4 DEF Shape
<1>2. Carrying /\ Serialised /\ IdleRests /\ FlagFirst /\ WaitSecond
  BY DEF Carrying, Serialised, IdleRests, FlagFirst, WaitSecond
<1> QED
  BY <1>1, <1>2 DEF IInv

\* The steps of the runtime thread and of the window leave the callbacks alone.
LEMMA RuntimeIInv ==
    ASSUME IInv, Runtime \/ \E s \in Sizes : Resize(s)
    PROVE  IInv'
<1> USE DEF IInv
<1>1. CASE StartCapture
  BY <1>1, CaptureAssumption
  DEF StartCapture, Shape, Carrying, Serialised, IdleRests, FlagFirst, WaitSecond, Resting
<1>2. CASE StopCapture
  BY <1>2 DEF StopCapture, Shape, Carrying, Serialised, IdleRests, FlagFirst, WaitSecond, Resting
<1>3. CASE WaitForCallback
  BY <1>3 DEF WaitForCallback, CallbackReturned, Shape, Carrying, Serialised, IdleRests, FlagFirst,
              WaitSecond, Resting
<1>4. CASE NotifyConsumer
  BY <1>4 DEF NotifyConsumer, Shape, Carrying, Serialised, IdleRests, FlagFirst, WaitSecond, Resting
<1>5. CASE JoinConsumer
  BY <1>5 DEF JoinConsumer, Shape, Carrying, Serialised, IdleRests, FlagFirst, WaitSecond, Resting
<1>6. CASE Release
  BY <1>6, CaptureAssumption
  DEF Release, Shape, Carrying, Serialised, IdleRests, FlagFirst, WaitSecond, Resting
<1>7. CASE \E s \in Sizes : Resize(s)
  <2> PICK s \in Sizes : Resize(s)
    BY <1>7
  <2>1. window' \in [size: Sizes, pool: Sizes, resizes: 0..MaxResizes]
    <3>1. window.resizes \in 0..MaxResizes /\ window.resizes < MaxResizes
      BY DEF Resize, Shape
    <3>2. window' = [size |-> s, pool |-> window.pool, resizes |-> window.resizes + 1]
      BY DEF Resize, Shape
    <3>3. window.resizes + 1 \in 0..MaxResizes
      BY <3>1, Bounds
    <3> QED
      BY <3>2, <3>3 DEF Shape
  <2> QED
    BY <2>1 DEF Resize, Shape, Carrying, Serialised, IdleRests, FlagFirst, WaitSecond, Resting
<1> QED
  BY <1>1, <1>2, <1>3, <1>4, <1>5, <1>6, <1>7 DEF Runtime

LEMMA ConsumerIInv == ASSUME IInv, Consumer PROVE IInv'
<1> USE DEF IInv
<1>1. queue' \in Seq(Frame) /\ Len(queue') <= MaxQueued
  <2>1. queue' = queue \/ queue' = <<>>
    BY DEF Consumer, TakeNewest, NothingQueued, ConsumerSleeps, EncodeFrame
  <2>2. <<>> \in Seq(Frame) /\ Len(<<>>) <= MaxQueued
    BY Bounds
  <2>3. queue \in Seq(Frame) /\ Len(queue) <= MaxQueued
    BY DEF Shape
  <2> QED
    BY <2>1, <2>2, <2>3
<1>2. UNCHANGED <<runtime, isCapturing, window, arrived, mutex, callback>>
  BY DEF Consumer, TakeNewest, NothingQueued, ConsumerSleeps, EncodeFrame, ConsumerOnly
<1> QED
  BY <1>1, <1>2 DEF Shape, Carrying, Serialised, IdleRests, FlagFirst, WaitSecond, Resting

\* Whatever callback c does, it alone holds the mutex when it is done, or gives it
\* back: the others were idle.
LEMMA CallbackIInv ==
    ASSUME IInv, NEW c \in Callbacks, FrameArrived(c)
    PROVE  IInv'
<1> USE DEF IInv
<1> DEFINE Callback == [pc: {"idle", "entered", "acquire", "copy"},
                        frame: Frame \cup {NoFrame}, resize: Sizes \cup {None}]
<1>1. CASE Enter(c)
  <2>1. callback' = [callback EXCEPT ![c] = [callback[c] EXCEPT !.pc = "entered"]]
    BY <1>1 DEF Enter
  <2>2. callback' \in [Callbacks -> Callback]
    BY <2>1 DEF Shape
  <2>3. \A d \in Callbacks \ {c} : callback'[d] = callback[d] /\ callback[d].pc = "idle"
    BY <1>1, <2>1, CaptureAssumption DEF Enter, MutexFree, Shape, Serialised, None
  <2>4. callback'[c].pc = "entered" /\ mutex' = c
    BY <1>1, <2>1 DEF Enter, Shape
  <2>8. Shape'
    BY <1>1, <2>2, <2>3, <2>4 DEF Enter, Shape
  <2>9. Carrying'
    BY <1>1, <2>2, <2>3, <2>4 DEF Enter, Carrying
  <2>10. Serialised' /\ IdleRests'
    BY <1>1, <2>2, <2>3, <2>4 DEF Enter, Serialised, IdleRests, Resting
  <2>11. FlagFirst' /\ WaitSecond'
    BY <1>1 DEF Enter, FlagFirst, WaitSecond, Serialised
  <2> QED
    BY <2>8, <2>9, <2>10, <2>11
<1>2. CASE NextFrame(c)
  <2> DEFINE taken == [pc |-> "acquire", frame |-> [no |-> arrived + 1, size |-> window.pool],
                       resize |-> IF window.size # window.pool THEN window.size ELSE callback[c].resize]
  <2>1. callback' = [callback EXCEPT ![c] = taken]
    BY <1>2 DEF NextFrame
  <2>2. arrived + 1 \in 1..MaxFrames /\ arrived' = arrived + 1
    BY <1>2, CaptureAssumption DEF NextFrame, Shape
  <2>3. taken.frame \in Frame
    BY <2>2 DEF Frame, Shape
  <2>4. taken \in Callback
    BY <2>3 DEF Shape
  <2>5. callback' \in [Callbacks -> Callback]
    BY <2>1, <2>4 DEF Shape
  <2>6. callback'[c] = taken /\ \A d \in Callbacks \ {c} : callback'[d] = callback[d]
    BY <2>1 DEF Shape
  <2>8. Shape'
    BY <1>2, <2>2, <2>3, <2>5, <2>6 DEF NextFrame, Shape
  <2>9. Carrying'
    BY <1>2, <2>2, <2>3, <2>5, <2>6 DEF NextFrame, Carrying
  <2>10. Serialised' /\ IdleRests'
    BY <1>2, <2>2, <2>3, <2>5, <2>6 DEF NextFrame, Serialised, IdleRests, Resting
  <2>11. FlagFirst' /\ WaitSecond'
    BY <1>2 DEF NextFrame, FlagFirst, WaitSecond, Serialised
  <2> QED
    BY <2>8, <2>9, <2>10, <2>11
<1>3. CASE AcquireCopyTexture(c)
  <2>1. queue' \in Seq(Frame) /\ Len(queue') <= MaxQueued
    <3>1. queue' = queue \/ (queue # <<>> /\ queue' = Tail(queue))
      BY <1>3 DEF AcquireCopyTexture, Reclaims
    <3>2. queue # <<>> => Tail(queue) \in Seq(Frame) /\ Len(Tail(queue)) = Len(queue) - 1
      BY DEF Shape
    <3>3. Len(queue) \in Nat
      BY DEF Shape
    <3> QED
      BY <3>1, <3>2, <3>3, Bounds DEF Shape
  <2> DEFINE copying == [callback[c] EXCEPT !.pc = "copy"]
             lost == [callback[c] EXCEPT !.pc = "entered", !.frame = NoFrame]
  <2>2. callback[c] \in Callback /\ callback \in [Callbacks -> Callback]
    BY DEF Shape
  <2>3. /\ copying \in Callback /\ copying.pc = "copy" /\ copying.frame = callback[c].frame
        /\ lost \in Callback /\ lost.pc = "entered"
    BY <2>2
  <2> HIDE DEF Callback
  <2>4. PICK x \in {copying, lost} : callback' = [callback EXCEPT ![c] = x]
    BY <1>3, <2>2 DEF AcquireCopyTexture, Callback
  <2>5. callback' \in [Callbacks -> Callback]
    BY <2>2, <2>3, <2>4
  <2>6. callback'[c] = x /\ \A d \in Callbacks \ {c} : callback'[d] = callback[d]
    BY <2>2, <2>4
  <2>7. callback[c].frame \in Frame
    BY <1>3 DEF AcquireCopyTexture, Carrying
  <2>8. Shape'
    BY <1>3, <2>1, <2>3, <2>5, <2>6, <2>7 DEF AcquireCopyTexture, Callback, Shape
  <2>9. Carrying'
    BY <1>3, <2>1, <2>3, <2>5, <2>6, <2>7 DEF AcquireCopyTexture, Carrying
  <2>10. Serialised' /\ IdleRests'
    <3>1. mutex' = mutex /\ callback[c].pc # "idle" /\ x.pc # "idle"
      BY <1>3, <2>3 DEF AcquireCopyTexture
    <3> QED
      BY <2>6, <3>1 DEF Serialised, IdleRests
  <2>11. FlagFirst' /\ WaitSecond'
    BY <1>3 DEF AcquireCopyTexture, FlagFirst, WaitSecond, Serialised
  <2> QED
    BY <2>8, <2>9, <2>10, <2>11
<1>4. CASE QueueFrame(c)
  <2>0. queue \in Seq(Frame) /\ Len(queue) \in Nat /\ Len(queue) <= MaxQueued
    BY DEF Shape
  <2>1. callback[c].frame \in Frame
    BY <1>4 DEF QueueFrame, Carrying
  <2>2. queue' \in Seq(Frame) /\ Len(queue') <= MaxQueued
    <3>1. CASE Len(queue) >= MaxQueued
      <4>1. Len(queue) = MaxQueued /\ queue # <<>>
        BY <3>1, <2>0, Bounds
      <4>2. Tail(queue) \in Seq(Frame) /\ Len(Tail(queue)) = Len(queue) - 1
        BY <2>0, <4>1
      <4>3. queue' = Append(Tail(queue), callback[c].frame)
        BY <1>4, <3>1 DEF QueueFrame
      <4>4. queue' \in Seq(Frame) /\ Len(queue') = Len(Tail(queue)) + 1
        BY <2>1, <4>2, <4>3
      <4> QED
        BY <4>1, <4>2, <4>4, Bounds
    <3>2. CASE ~(Len(queue) >= MaxQueued)
      <4>1. queue' = Append(queue, callback[c].frame)
        BY <1>4, <3>2 DEF QueueFrame
      <4>2. queue' \in Seq(Frame) /\ Len(queue') = Len(queue) + 1
        BY <2>0, <2>1, <4>1
      <4> QED
        BY <2>0, <3>2, <4>2, Bounds
    <3> QED
      BY <3>1, <3>2
  <2>3. callback' = [callback EXCEPT ![c] = [callback[c] EXCEPT !.pc = "entered", !.frame = NoFrame]]
    BY <1>4 DEF QueueFrame, Shape
  <2>4. callback' \in [Callbacks -> Callback]
    BY <2>3 DEF Shape
  <2>5. callback'[c].pc = "entered" /\ \A d \in Callbacks \ {c} : callback'[d] = callback[d]
    BY <2>3 DEF Shape
  <2>8. Shape'
    BY <1>4, <2>2, <2>4, <2>5 DEF QueueFrame, Shape
  <2>9. Carrying'
    BY <1>4, <2>2, <2>4, <2>5 DEF QueueFrame, Carrying
  <2>10. Serialised' /\ IdleRests'
    BY <1>4, <2>2, <2>4, <2>5 DEF QueueFrame, Serialised, IdleRests, Resting
  <2>11. FlagFirst' /\ WaitSecond'
    BY <1>4 DEF QueueFrame, FlagFirst, WaitSecond, Serialised
  <2> QED
    BY <2>8, <2>9, <2>10, <2>11
<1>5. CASE Leave(c)
  <2>1. callback' = [callback EXCEPT ![c] = Resting]
    BY <1>5 DEF Leave
  <2>2. callback' \in [Callbacks -> Callback]
    BY <2>1 DEF Shape, Resting
  <2>3. /\ callback'[c] = Resting
        /\ \A d \in Callbacks \ {c} : callback'[d] = callback[d] /\ callback[d].pc = "idle"
    BY <1>5, <2>1 DEF Leave, Shape, Serialised
  <2>4. window' \in [size: Sizes, pool: Sizes, resizes: 0..MaxResizes]
    <3>1. callback[c].resize \in Sizes \cup {None}
      BY DEF Shape
    <3> QED
      BY <1>5, <3>1 DEF Leave, Shape
  <2> QED
    BY <1>5, <2>2, <2>3, <2>4
    DEF Leave, Shape, Carrying, Serialised, IdleRests, FlagFirst, WaitSecond, Resting
<1> QED
  BY <1>1, <1>2, <1>3, <1>4, <1>5 DEF FrameArrived

LEMMA NextIInv == IInv /\ [Next]_vars => IInv'
<1> SUFFICES ASSUME IInv, [Next]_vars PROVE IInv'
  OBVIOUS
<1>1. CASE Runtime \/ \E s \in Sizes : Resize(s)
  BY <1>1, RuntimeIInv
<1>2. CASE Consumer
  BY <1>2, ConsumerIInv
<1>3. CASE \E c \in Callbacks : FrameArrived(c)
  BY <1>3, CallbackIInv
<1>4. CASE UNCHANGED vars
  BY <1>4 DEF vars, IInv, Shape, Carrying, Serialised, IdleRests, FlagFirst, WaitSecond, Resting
<1> QED
  BY <1>1, <1>2, <1>3, <1>4 DEF Next

LEMMA Invariance == Spec => []IInv
<1> QED
  BY InitIInv, NextIInv, PTL DEF Spec

----------------------------------------------------------------------------
(* No callback is at work while or after StopCapture releases the textures, whatever
   the number of its threads and wherever they were when the flag was cleared. *)
THEOREM ReleaseIsUndisturbed == Spec => []ReleasedUndisturbed
<1>1. IInv => ReleasedUndisturbed
  <2> SUFFICES ASSUME IInv, runtime \in {"joined", "idle"}, NEW c \in Callbacks
               PROVE callback[c] = Resting
    BY DEF ReleasedUndisturbed
  <2>1. mutex = None
    BY DEF IInv, WaitSecond
  <2>2. callback[c].pc = "idle"
    BY <2>1, CaptureAssumption DEF IInv, Serialised, None
  <2> QED
    BY <2>2 DEF IInv, IdleRests
<1> QED
  BY <1>1, Invariance, PTL

(* Two callbacks are never at work at once (g_callbackMutex): the frame counter, the
   copy and the queueing need no other protection among them. *)
THEOREM CallbacksAreSerialised == Spec => []CallbacksSerialised
<1>1. IInv => CallbacksSerialised
  BY DEF IInv, Serialised, CallbacksSerialised
<1> QED
  BY <1>1, Invariance, PTL

(* The queue stays within its limit: room is made before a frame is queued. *)
THEOREM QueueStaysBounded == Spec => []QueueIsBounded
<1>1. IInv => QueueIsBounded
  BY DEF IInv, Shape, QueueIsBounded
<1> QED
  BY <1>1, Invariance, PTL

----------------------------------------------------------------------------
(* The order of the frames.  Numbers grow from the frame encoded last, over the one
   in the consumer's hands and those in the queue, to the one a callback carries,
   which is the last that arrived. *)
Latest == IF consumer.pc = "encode" THEN consumer.frame.no ELSE past.encoded

Counted ==
    /\ past \in [captures: Nat, encoded: Nat]
    /\ consumer \in [pc: {None, "wait", "dozing", "asleep", "encode", "ended"},
                     frame: Frame \cup {NoFrame}]
LatestGrows == consumer.pc = "encode" => past.encoded < consumer.frame.no
QueueAhead ==
    /\ Latest <= arrived
    /\ \A i \in 1..Len(queue) : Latest < queue[i].no /\ queue[i].no <= arrived
QueueGrows == \A i, j \in 1..Len(queue) : i < j => queue[i].no < queue[j].no
CarriedLast ==
    \A c \in Callbacks : callback[c].pc \in {"acquire", "copy"} =>
        /\ callback[c].frame.no = arrived /\ Latest < arrived
        /\ \A i \in 1..Len(queue) : queue[i].no < arrived

Order == Counted /\ LatestGrows /\ QueueAhead /\ QueueGrows /\ CarriedLast

LEMMA Numbers ==
    ASSUME Shape, Counted
    PROVE  /\ Latest \in Nat /\ arrived \in Nat /\ past.encoded \in Nat
           /\ consumer.frame.no \in Nat
           /\ Len(queue) \in Nat
           /\ \A i \in 1..Len(queue) : queue[i] \in Frame /\ queue[i].no \in Nat
<1>1. Len(queue) \in Nat /\ \A i \in 1..Len(queue) : queue[i] \in Frame
  BY DEF Shape
<1>2. \A f \in Frame \cup {NoFrame} : f.no \in Nat
  BY Bounds DEF Frame, NoFrame
<1>3. consumer.frame \in Frame \cup {NoFrame} /\ past.encoded \in Nat
  BY DEF Counted
<1>4. arrived \in Nat
  BY Bounds DEF Shape
<1> QED
  BY <1>1, <1>2, <1>3, <1>4 DEF Latest

\* Everything but the queue and the callbacks is the same: an order stays one when
\* the queue loses its oldest frame, or all.
LEMMA ShorterQueue ==
    ASSUME Shape, Counted, QueueAhead, QueueGrows,
           queue # <<>>, NEW q, q = Tail(queue)
    PROVE  /\ Len(q) = Len(queue) - 1
           /\ \A i \in 1..Len(q) : q[i] = queue[i + 1] /\ i + 1 \in 1..Len(queue)
<1>1. queue \in Seq(Frame) /\ Len(queue) \in Nat /\ Len(queue) > 0
  BY DEF Shape
<1>2. Len(q) = Len(queue) - 1
  BY <1>1
<1>3. \A i \in 1..Len(q) : q[i] = queue[i + 1]
  BY <1>1
<1> QED
  BY <1>1, <1>2, <1>3

LEMMA InitOrder == Init => Order
  BY DEF Init, Order, Counted, LatestGrows, QueueAhead, QueueGrows, CarriedLast, Latest, Resting,
         NoFrame, None

LEMMA RuntimeOrder ==
    ASSUME IInv, Order, Runtime \/ \E s \in Sizes : Resize(s)
    PROVE  Order'
<1> USE DEF Order
<1>0. Shape /\ Counted
  BY DEF IInv
<1>1. CASE StartCapture
  <2>1. \A c \in Callbacks : callback[c].pc = "idle"
    BY <1>1, CaptureAssumption DEF StartCapture, IInv, WaitSecond, Serialised, None
  <2>2. Latest' = 0 /\ arrived' = 0 /\ queue' = <<>> /\ callback' = callback
    BY <1>1 DEF StartCapture, Latest
  <2>3. Counted' /\ consumer'.pc = "wait"
    BY <1>1 DEF StartCapture, Counted
  <2> QED
    BY <2>1, <2>2, <2>3 DEF LatestGrows, QueueAhead, QueueGrows, CarriedLast
<1>2. CASE StopCapture \/ WaitForCallback \/ \E s \in Sizes : Resize(s)
  <2>1. UNCHANGED <<consumer, queue, callback, arrived, past>>
    BY <1>2 DEF StopCapture, WaitForCallback, Resize
  <2> QED
    BY <2>1 DEF Counted, LatestGrows, QueueAhead, QueueGrows, CarriedLast, Latest
<1>3. CASE NotifyConsumer \/ JoinConsumer
  <2>1. /\ consumer'.pc \in {None, "wait", "dozing", "asleep", "encode", "ended"}
        /\ consumer' = [consumer EXCEPT !.pc = consumer'.pc]
        /\ consumer'.pc = "encode" <=> consumer.pc = "encode"
    BY <1>3 DEF NotifyConsumer, JoinConsumer, Woken, Counted, None
  <2>2. Counted' /\ consumer'.frame = consumer.frame
    BY <1>3, <2>1 DEF NotifyConsumer, JoinConsumer, Counted
  <2>3. Latest' = Latest /\ UNCHANGED <<arrived, queue, callback, past>>
    BY <1>3, <2>1, <2>2 DEF NotifyConsumer, JoinConsumer, Latest
  <2> QED
    BY <2>1, <2>2, <2>3 DEF LatestGrows, QueueAhead, QueueGrows, CarriedLast
<1>4. CASE Release
  <2>1. Latest' = Latest /\ UNCHANGED <<arrived, consumer, callback, past>> /\ queue' = <<>>
    BY <1>4 DEF Release, Latest
  <2> QED
    BY <2>1 DEF Counted, LatestGrows, QueueAhead, QueueGrows, CarriedLast
<1> QED
  BY <1>1, <1>2, <1>3, <1>4 DEF Runtime

LEMMA ConsumerOrder == ASSUME IInv, Order, Consumer PROVE Order'
<1> USE DEF Order
<1>0. Shape /\ Counted
  BY DEF IInv
<1>1. UNCHANGED <<arrived, callback>>
  BY DEF Consumer, TakeNewest, NothingQueued, ConsumerSleeps, EncodeFrame, ConsumerOnly
<1>2. CASE TakeNewest
  <2>1. Len(queue) \in Nat /\ Len(queue) > 0
    BY <1>0, <1>2 DEF TakeNewest, Shape
  <2>2. Len(queue) \in 1..Len(queue)
    BY <2>1
  <2> DEFINE f == queue[Len(queue)]
  <2>3. f \in Frame /\ f.no \in Nat /\ past.encoded < f.no /\ f.no <= arrived
    BY <1>0, <1>2, <2>2, Numbers DEF TakeNewest, QueueAhead, Latest
  <2>4. consumer' = [pc |-> "encode", frame |-> f] /\ queue' = <<>> /\ past' = past
    BY <1>2 DEF TakeNewest
  <2>5. Counted' /\ LatestGrows' /\ Latest' = f.no
    BY <2>3, <2>4 DEF Counted, LatestGrows, Latest
  <2>6. \A c \in Callbacks : callback[c].pc \in {"acquire", "copy"} =>
            callback[c].frame.no = arrived /\ f.no < arrived
    BY <2>2 DEF CarriedLast
  <2> QED
    BY <1>1, <2>3, <2>4, <2>5, <2>6 DEF QueueAhead, QueueGrows, CarriedLast
<1>3. CASE NothingQueued \/ ConsumerSleeps
  <2>1. /\ consumer.pc # "encode" /\ consumer'.pc # "encode"
        /\ consumer'.pc \in {None, "wait", "dozing", "asleep", "encode", "ended"}
        /\ consumer' = [consumer EXCEPT !.pc = consumer'.pc]
        /\ UNCHANGED <<queue, past>>
    BY <1>3 DEF NothingQueued, ConsumerSleeps, Counted
  <2>2. Counted' /\ Latest' = Latest
    BY <2>1 DEF Counted, Latest
  <2> QED
    BY <1>1, <2>1, <2>2 DEF LatestGrows, QueueAhead, QueueGrows, CarriedLast
<1>4. CASE EncodeFrame
  <2>1. consumer' = [pc |-> "wait", frame |-> NoFrame] /\ queue' = queue
    BY <1>4 DEF EncodeFrame
  <2>2. past' = [past EXCEPT !.encoded = consumer.frame.no] /\ consumer.frame.no \in Nat
    BY <1>0, <1>4, Numbers DEF EncodeFrame
  <2>3. Counted' /\ past'.encoded = consumer.frame.no
    BY <2>1, <2>2 DEF Counted
  <2>4. Latest' = Latest
    BY <1>4, <2>1, <2>3 DEF EncodeFrame, Latest
  <2> QED
    BY <1>1, <2>1, <2>3, <2>4 DEF LatestGrows, QueueAhead, QueueGrows, CarriedLast
<1> QED
  BY <1>2, <1>3, <1>4 DEF Consumer

LEMMA CallbackOrder ==
    ASSUME IInv, Order, NEW c \in Callbacks, FrameArrived(c)
    PROVE  Order'
<1> USE DEF Order
<1>0. Shape /\ Counted
  BY DEF IInv
<1>1. \A d \in Callbacks \ {c} : callback[c].pc # "idle" => callback[d].pc = "idle"
  BY DEF IInv, Serialised
<1>2. \A d \in Callbacks \ {c} : callback'[d] = callback[d]
  BY <1>0 DEF FrameArrived, Enter, NextFrame, AcquireCopyTexture, QueueFrame, Leave, Shape
<1>3. CASE Enter(c) \/ Leave(c)
  <2>1. callback'[c].pc \notin {"acquire", "copy"}
    BY <1>0, <1>3 DEF Enter, Leave, Shape, Resting
  <2>2. UNCHANGED <<arrived, queue, consumer, past>> /\ Latest' = Latest
    BY <1>3 DEF Enter, Leave, Latest
  <2> QED
    BY <1>2, <2>1, <2>2 DEF Counted, LatestGrows, QueueAhead, QueueGrows, CarriedLast
<1>4. CASE NextFrame(c)
  <2>1. arrived' = arrived + 1 /\ UNCHANGED <<queue, consumer, past>> /\ Latest' = Latest
    BY <1>4 DEF NextFrame, Latest
  <2>2. callback'[c].frame.no = arrived'
    BY <1>0, <1>4 DEF NextFrame, Shape
  <2>3. \A d \in Callbacks \ {c} : callback'[d].pc = "idle"
    BY <1>1, <1>2, <1>4 DEF NextFrame
  <2>4. Latest < arrived' /\ Latest <= arrived'
    BY <1>0, <2>1, Numbers DEF QueueAhead
  <2>5. \A i \in 1..Len(queue) : queue[i].no < arrived' /\ queue[i].no <= arrived'
    BY <1>0, <2>1, Numbers DEF QueueAhead
  <2> QED
    BY <2>1, <2>2, <2>3, <2>4, <2>5 DEF Counted, LatestGrows, QueueAhead, QueueGrows, CarriedLast
<1>5. CASE AcquireCopyTexture(c)
  <2>1. /\ UNCHANGED <<arrived, consumer>>
        /\ callback[c].pc = "acquire"
        /\ queue' = queue \/ (queue # <<>> /\ queue' = Tail(queue))
    BY <1>5 DEF AcquireCopyTexture, Reclaims
  <2>2. callback'[c].pc = "copy" => callback'[c].frame = callback[c].frame
    BY <1>0, <1>5 DEF AcquireCopyTexture, Shape
  <2>3. callback'[c].pc # "acquire"
    BY <1>0, <1>5 DEF AcquireCopyTexture, Shape
  <2>4. callback[c].frame.no \in Nat /\ callback[c].frame.no = arrived
    BY <1>0, <2>1, Numbers DEF CarriedLast
  <2>5. past'.encoded = past.encoded /\ Counted'
    BY <1>5, <2>1, <2>4 DEF AcquireCopyTexture, Counted
  <2>6. Latest' = Latest
    BY <2>1, <2>5 DEF Latest
  <2>7. \A d \in Callbacks \ {c} : callback'[d].pc = "idle"
    BY <1>1, <1>2, <2>1
  <2>8. CASE queue' = queue
    BY <2>1, <2>2, <2>3, <2>5, <2>6, <2>7, <2>8
    DEF LatestGrows, QueueAhead, QueueGrows, CarriedLast
  <2>9. CASE queue # <<>> /\ queue' = Tail(queue)
    <3>1. \A i \in 1..Len(queue') : queue'[i] = queue[i + 1] /\ i + 1 \in 1..Len(queue)
      BY <1>0, <2>9, ShorterQueue
    <3>2. QueueAhead'
      BY <2>1, <2>6, <3>1 DEF QueueAhead
    <3>3. QueueGrows'
      BY <3>1 DEF QueueGrows
    <3>4. \A i \in 1..Len(queue') : queue'[i].no < arrived
      BY <2>1, <3>1 DEF CarriedLast
    <3> QED
      BY <2>1, <2>2, <2>3, <2>4, <2>5, <2>6, <2>7, <3>2, <3>3, <3>4 DEF LatestGrows, CarriedLast
  <2> QED
    BY <2>1, <2>8, <2>9
<1>6. CASE QueueFrame(c)
  <2> DEFINE f == callback[c].frame
             kept == IF Len(queue) >= MaxQueued THEN Tail(queue) ELSE queue
  <2>1. f \in Frame /\ f.no = arrived /\ Latest < arrived
    BY <1>6 DEF QueueFrame, CarriedLast, IInv, Carrying
  <2>2. /\ UNCHANGED <<arrived, past>> /\ queue' = Append(kept, f)
        /\ consumer' = [consumer EXCEPT !.pc = Woken(consumer.pc)]
    BY <1>6 DEF QueueFrame
  <2>3. Counted' /\ consumer'.frame = consumer.frame /\ (consumer'.pc = "encode" <=> consumer.pc = "encode")
    BY <2>2 DEF Counted, Woken
  <2>4. Latest' = Latest /\ LatestGrows'
    BY <2>2, <2>3 DEF Latest, LatestGrows
  <2>5. /\ kept \in Seq(Frame)
        /\ \/ kept = queue
           \/ \A i \in 1..Len(kept) : kept[i] = queue[i + 1] /\ i + 1 \in 1..Len(queue)
    <3>1. queue \in Seq(Frame) /\ Len(queue) \in Nat
      BY <1>0 DEF Shape
    <3>2. CASE Len(queue) >= MaxQueued
      <4>1. queue # <<>>
        BY <3>1, <3>2, Bounds
      <4>2. kept = Tail(queue)
        BY <3>2
      <4> QED
        BY <1>0, <3>1, <4>1, <4>2, ShorterQueue
    <3>3. CASE ~(Len(queue) >= MaxQueued)
      BY <3>1, <3>3
    <3> QED
      BY <3>2, <3>3
  <2>6. \A i \in 1..Len(kept) : kept[i].no \in Nat /\ Latest < kept[i].no /\ kept[i].no < arrived
    BY <1>0, <1>6, <2>5, Numbers DEF QueueAhead, CarriedLast, QueueFrame
  <2>7. \A i, j \in 1..Len(kept) : i < j => kept[i].no < kept[j].no
    BY <2>5 DEF QueueGrows
  <2> HIDE DEF kept, f
  <2>8. /\ Len(kept) \in Nat /\ Len(queue') = Len(kept) + 1
        /\ \A i \in 1..Len(kept) : queue'[i] = kept[i]
        /\ queue'[Len(kept) + 1] = f
    BY <2>1, <2>2, <2>5
  <2>9. \A i \in 1..Len(queue') : i \in 1..Len(kept) \/ i = Len(kept) + 1
    BY <2>8
  <2>10. QueueAhead'
    BY <1>0, <2>1, <2>2, <2>4, <2>6, <2>8, <2>9, Numbers DEF QueueAhead
  <2>11. QueueGrows'
    BY <2>1, <2>6, <2>7, <2>8, <2>9 DEF QueueGrows
  <2>12. CarriedLast'
    <3>1. callback'[c].pc = "entered"
      BY <1>0, <1>6 DEF QueueFrame, Shape
    <3>2. \A d \in Callbacks \ {c} : callback'[d].pc = "idle"
      BY <1>1, <1>2, <1>6 DEF QueueFrame
    <3> QED
      BY <3>1, <3>2 DEF CarriedLast
  <2> QED
    BY <2>3, <2>4, <2>10, <2>11, <2>12
<1> QED
  BY <1>3, <1>4, <1>5, <1>6 DEF FrameArrived

LEMMA OrderInvariance == Spec => []Order
<1>1. IInv /\ Order /\ [Next]_vars => Order'
  <2> SUFFICES ASSUME IInv, Order, [Next]_vars PROVE Order'
    OBVIOUS
  <2>1. CASE UNCHANGED vars
    BY <2>1 DEF vars, Order, Counted, LatestGrows, QueueAhead, QueueGrows, CarriedLast, Latest
  <2> QED
    BY <2>1, RuntimeOrder, ConsumerOrder, CallbackOrder DEF Next
<1> QED
  BY <1>1, InitOrder, Invariance, PTL DEF Spec

(* The encoder is given the frames of a capture in the order in which they arrived,
   whatever is overwritten or reclaimed, and whichever threads delivered them. *)
THEOREM FramesAreEncodedInOrder == Spec => EncodedInOrder
<1> DEFINE Later == past'.captures = past.captures /\ past'.encoded # past.encoded
                        => past'.encoded > past.encoded
<1>1. Order /\ [Next]_vars => [Later]_vars
  <2> SUFFICES ASSUME Order, Next PROVE Later
    OBVIOUS
  <2>1. past.captures \in Nat /\ past.encoded \in Nat
    BY DEF Order, Counted
  <2>2. CASE StartCapture
    BY <2>1, <2>2 DEF StartCapture
  <2>3. CASE EncodeFrame
    <3>1. past' = [past EXCEPT !.encoded = consumer.frame.no]
      BY <2>3 DEF EncodeFrame
    <3>2. past'.encoded = consumer.frame.no
      BY <3>1 DEF Order, Counted
    <3>3. past.encoded < consumer.frame.no
      BY <2>3 DEF EncodeFrame, Order, LatestGrows
    <3>4. consumer.frame.no \in Nat
      BY Bounds DEF Order, Counted, Frame, NoFrame
    <3> QED
      BY <2>1, <3>2, <3>3, <3>4
  <2>4. CASE past'.encoded = past.encoded
    BY <2>4
  <2>5. \/ StartCapture \/ EncodeFrame \/ past' = past
    BY DEF Next, Runtime, StopCapture, WaitForCallback, NotifyConsumer, JoinConsumer, Release, Resize,
           Consumer, TakeNewest, NothingQueued, ConsumerSleeps, FrameArrived, Enter, NextFrame,
           AcquireCopyTexture, QueueFrame, Leave
  <2> QED
    BY <2>2, <2>3, <2>4, <2>5 DEF Order, Counted
<1> QED
  BY <1>1, OrderInvariance, PTL DEF Spec, EncodedInOrder
----------------------------------------------------------------------------
(* The textures.  A count by size is a set of pairs, so that one texture more
   is one element more. *)

LEMMA PoolBounds == PoolSize \in Nat /\ PoolSize >= MaxQueued + 1
<1> DEFINE sizes == {CopyPoolSize, MaxQueued + 1}
<1>1. sizes \subseteq Nat /\ \E x \in sizes : \A y \in sizes : x >= y
  BY CaptureAssumption
<1>2. Max(sizes) \in sizes /\ \A y \in sizes : Max(sizes) >= y
  BY <1>1 DEF Max
<1> QED
  BY <1>1, <1>2 DEF PoolSize

LEMMA TexturesAreFinite ==
    ASSUME NEW count \in [Sizes -> Nat]
    PROVE  IsFiniteSet(Textures(count)) /\ Cardinality(Textures(count)) \in Nat
<1> DEFINE ofSize == [s \in Sizes |-> {s} \X (1..count[s])]
           bySize == {{s} \X (1..count[s]) : s \in Sizes}
<1>1. ofSize \in Surjection(Sizes, bySize)
  BY DEF Surjection
<1>2. IsFiniteSet(bySize)
  BY <1>1, CaptureAssumption, FS_Surjection
<1>3. \A T \in bySize : IsFiniteSet(T)
  <2> SUFFICES ASSUME NEW s \in Sizes PROVE IsFiniteSet({s} \X (1..count[s]))
    OBVIOUS
  <2>1. IsFiniteSet({s})
    BY FS_Singleton
  <2>2. IsFiniteSet(1..count[s])
    <3>1. 1 \in Int /\ count[s] \in Int
      OBVIOUS
    <3> QED
      BY <3>1, FS_Interval
  <2> QED
    BY <2>1, <2>2, FS_Product
<1>4. IsFiniteSet(Textures(count))
  BY <1>2, <1>3, FS_UNION DEF Textures
<1> QED
  BY <1>4, FS_CardinalityType

LEMMA TextureIn ==
    ASSUME NEW count \in [Sizes -> Nat], NEW t
    PROVE  t \in Textures(count) <=> \E s \in Sizes : \E i \in 1..count[s] : t = <<s, i>>
  BY DEF Textures

LEMMA NoTextures == Textures(Nothing) = {}
  BY DEF Textures, Nothing

LEMMA TextureAdded ==
    ASSUME NEW count \in [Sizes -> Nat], NEW s \in Sizes
    PROVE  /\ [count EXCEPT ![s] = @ + 1] \in [Sizes -> Nat]
           /\ Cardinality(Textures([count EXCEPT ![s] = @ + 1])) = Cardinality(Textures(count)) + 1
<1> DEFINE more == [count EXCEPT ![s] = @ + 1]
<1>1. more \in [Sizes -> Nat] /\ count[s] \in Nat
  OBVIOUS
<1>2. more[s] = count[s] + 1 /\ \A z \in Sizes \ {s} : more[z] = count[z]
  OBVIOUS
<1> HIDE DEF more
<1>3. Textures(more) = Textures(count) \cup {<<s, count[s] + 1>>}
  <2>1. \A i \in 1..more[s] : i \in 1..count[s] \/ i = count[s] + 1
    BY <1>1, <1>2
  <2>2. \A i \in 1..count[s] : i \in 1..more[s]
    BY <1>1, <1>2
  <2>3. count[s] + 1 \in 1..more[s]
    BY <1>1, <1>2
  <2>4. ASSUME NEW t \in Textures(more) PROVE t \in Textures(count) \cup {<<s, count[s] + 1>>}
    BY <1>1, <1>2, <2>1, TextureIn
  <2>5. ASSUME NEW t \in Textures(count) PROVE t \in Textures(more)
    <3>1. PICK z \in Sizes : \E i \in 1..count[z] : t = <<z, i>>
      BY TextureIn
    <3>2. \E i \in 1..more[z] : t = <<z, i>>
      BY <1>2, <2>2, <3>1
    <3> QED
      BY <1>1, <3>2, TextureIn
  <2>6. <<s, count[s] + 1>> \in Textures(more)
    BY <1>1, <2>3, TextureIn
  <2> QED
    BY <2>4, <2>5, <2>6
<1>4. <<s, count[s] + 1>> \notin Textures(count)
  <2> SUFFICES ASSUME <<s, count[s] + 1>> \in Textures(count) PROVE FALSE
    OBVIOUS
  <2>1. PICK z \in Sizes : \E i \in 1..count[z] : <<s, count[s] + 1>> = <<z, i>>
    BY TextureIn
  <2>2. count[s] + 1 \in 1..count[s]
    BY <2>1
  <2> QED
    BY <1>1, <2>2
<1> QED
  BY <1>1, <1>3, <1>4, TexturesAreFinite, FS_AddElement DEF more

LEMMA TextureTaken ==
    ASSUME NEW count \in [Sizes -> Nat], NEW s \in Sizes, count[s] > 0
    PROVE  /\ [count EXCEPT ![s] = @ - 1] \in [Sizes -> Nat]
           /\ Cardinality(Textures([count EXCEPT ![s] = @ - 1])) = Cardinality(Textures(count)) - 1
<1> DEFINE less == [count EXCEPT ![s] = @ - 1]
<1>1. less \in [Sizes -> Nat] /\ less[s] = count[s] - 1
  OBVIOUS
<1>2. [less EXCEPT ![s] = less[s] + 1] = count
  <2>1. \A z \in Sizes : [less EXCEPT ![s] = less[s] + 1][z] = count[z]
    BY <1>1
  <2> QED
    BY <1>1, <2>1
<1> HIDE DEF less
<1>3. Cardinality(Textures(count)) = Cardinality(Textures(less)) + 1
  <2>1. Cardinality(Textures([less EXCEPT ![s] = less[s] + 1])) = Cardinality(Textures(less)) + 1
    BY <1>1, TextureAdded
  <2> QED
    BY <1>2, <2>1
<1>4. Cardinality(Textures(less)) \in Nat
  BY <1>1, TexturesAreFinite
<1>5. less \in [Sizes -> Nat] /\ Cardinality(Textures(less)) = Cardinality(Textures(count)) - 1
  BY <1>1, <1>3, <1>4
<1> QED
  BY <1>5 DEF less

\* The textures of n frames, returned at once: the k-th frame of a size takes the
\* k-th place after those that are free.
Returned(count, q, n) ==
    [s \in Sizes |-> count[s] + Cardinality({i \in 1..n : q[i].size = s})]

LEMMA TexturesReturned ==
    ASSUME NEW count \in [Sizes -> Nat], NEW q \in Seq(Frame), NEW n \in Nat, n <= Len(q)
    PROVE  /\ Returned(count, q, n) \in [Sizes -> Nat]
           /\ Cardinality(Textures(Returned(count, q, n))) = Cardinality(Textures(count)) + n
<1> DEFINE more == Returned(count, q, n)
           frames(s) == {i \in 1..n : q[i].size = s}
           number(s) == Cardinality(frames(s))
<1>0. IsFiniteSet(1..n) /\ Cardinality(1..n) = n
  BY FS_Interval
<1>1. \A s : IsFiniteSet(frames(s)) /\ number(s) \in Nat /\ ExistsBijection(1..number(s), frames(s))
  <2> SUFFICES ASSUME NEW s
               PROVE IsFiniteSet(frames(s)) /\ number(s) \in Nat
                     /\ ExistsBijection(1..number(s), frames(s))
    OBVIOUS
  <2>1. frames(s) \in SUBSET (1..n)
    OBVIOUS
  <2>2. IsFiniteSet(frames(s))
    BY <1>0, <2>1, FS_Subset
  <2> QED
    BY <2>2, FS_CardinalityType
<1>2. more \in [Sizes -> Nat] /\ \A s \in Sizes : more[s] = count[s] + number(s)
  <2>1. more = [s \in Sizes |-> count[s] + number(s)]
    BY DEF Returned
  <2>2. \A s \in Sizes : number(s) \in Nat
    BY <1>1
  <2> HIDE DEF number, more
  <2>3. \A s \in Sizes : count[s] + number(s) \in Nat
    BY <2>2
  <2> QED
    BY <2>1, <2>3
<1> HIDE DEF more
<1> DEFINE places(s) == count[s] + 1..more[s]
           added == UNION {{s} \X places(s) : s \in Sizes}
           order == [s \in Sizes |-> CHOOSE b : b \in Bijection(1..number(s), frames(s))]
           frame == [t \in added |-> order[t[1]][t[2] - count[t[1]]]]
<1>3. \A s \in Sizes : order[s] \in Bijection(1..number(s), frames(s))
  <2> SUFFICES ASSUME NEW s \in Sizes PROVE order[s] \in Bijection(1..number(s), frames(s))
    OBVIOUS
  <2>1. \E b : b \in Bijection(1..number(s), frames(s))
    BY <1>1 DEF ExistsBijection
  <2> HIDE DEF frames
  <2> QED
    BY <2>1
<1>4. \A t : t \in added <=> \E s \in Sizes : \E i \in count[s] + 1..more[s] : t = <<s, i>>
  <2> HIDE DEF places
  <2>1. \A t : t \in added <=> \E s \in Sizes : \E i \in places(s) : t = <<s, i>>
    <3> SUFFICES ASSUME NEW t
                 PROVE  t \in added <=> \E s \in Sizes : \E i \in places(s) : t = <<s, i>>
      OBVIOUS
    <3>1. t \in added <=> \E s \in Sizes : t \in {s} \X places(s)
      OBVIOUS
    <3>2. \A s : t \in {s} \X places(s) <=> \E i \in places(s) : t = <<s, i>>
      OBVIOUS
    <3> QED
      BY <3>1, <3>2
  <2> QED
    BY <2>1 DEF places
<1> HIDE DEF added, order, number
<1>5. \A s \in Sizes : \A k : k \in count[s] + 1..more[s] <=> k \in Int /\ k - count[s] \in 1..number(s)
  <2> SUFFICES ASSUME NEW s \in Sizes, NEW k
               PROVE k \in count[s] + 1..more[s] <=> k \in Int /\ k - count[s] \in 1..number(s)
    OBVIOUS
  <2>1. count[s] \in Nat /\ number(s) \in Nat /\ more[s] = count[s] + number(s)
    BY <1>1, <1>2
  <2> QED
    BY <2>1
<1>6. frame \in Bijection(added, 1..n)
  <2>1. \A s \in Sizes : \A k \in 1..number(s) : order[s][k] \in 1..n /\ q[order[s][k]].size = s
    BY <1>3 DEF Bijection, Injection
  <2>2. \A s \in Sizes : \A k, l \in 1..number(s) : order[s][k] = order[s][l] => k = l
    BY <1>3 DEF Bijection, Injection, IsInjective
  <2>3. \A t \in added : t[1] \in Sizes /\ t = <<t[1], t[2]>> /\ t[2] \in Int
                         /\ t[2] - count[t[1]] \in 1..number(t[1])
    <3> SUFFICES ASSUME NEW t \in added
                 PROVE  /\ t[1] \in Sizes /\ t = <<t[1], t[2]>> /\ t[2] \in Int
                        /\ t[2] - count[t[1]] \in 1..number(t[1])
      OBVIOUS
    <3>1. PICK s \in Sizes : \E i \in count[s] + 1..more[s] : t = <<s, i>>
      BY <1>4
    <3>2. PICK i \in count[s] + 1..more[s] : t = <<s, i>>
      BY <3>1
    <3>3. t[1] = s /\ t[2] = i
      BY <3>2
    <3>4. i \in Int /\ i - count[s] \in 1..number(s)
      BY <1>5
    <3> QED
      BY <3>2, <3>3, <3>4
  <2>4. frame \in [added -> 1..n]
    BY <2>1, <2>3
  <2>5. ASSUME NEW t \in added, NEW u \in added, frame[t] = frame[u] PROVE t = u
    <3>1. order[t[1]][t[2] - count[t[1]]] = order[u[1]][u[2] - count[u[1]]]
      <4>1. frame[t] = order[t[1]][t[2] - count[t[1]]] /\ frame[u] = order[u[1]][u[2] - count[u[1]]]
        <5> HIDE DEF added, order
        <5> QED
          OBVIOUS
      <4> HIDE DEF frame, added, order
      <4> QED
        BY <4>1, <2>5
    <3> HIDE DEF frame, added, order, number, places
    <3>2. q[order[t[1]][t[2] - count[t[1]]]].size = t[1] /\ q[order[u[1]][u[2] - count[u[1]]]].size = u[1]
      BY <2>1, <2>3
    <3>3. t[1] = u[1]
      BY <3>1, <3>2
    <3>4. t[2] - count[t[1]] = u[2] - count[t[1]]
      BY <2>2, <2>3, <3>1, <3>3
    <3>5. t[2] = u[2]
      <4>1. count[t[1]] \in Nat /\ t[2] \in Int /\ u[2] \in Int
        BY <1>1, <2>3
      <4> QED
        BY <3>4, <4>1
    <3> QED
      BY <2>3, <3>3, <3>5
  <2>6. ASSUME NEW i \in 1..n PROVE \E t \in added : frame[t] = i
    <3> DEFINE s == q[i].size
    <3>1. q[i] \in Frame
      <4>1. i \in 1..Len(q)
        <5>1. Len(q) \in Nat
          OBVIOUS
        <5> QED
          BY <5>1
      <4> HIDE DEF frame, added, order, frames, number, places, s
      <4> QED
        BY <4>1
    <3>2. s \in Sizes /\ i \in frames(s)
      BY <3>1 DEF Frame
    <3> HIDE DEF s, frames
    <3>3. PICK k \in 1..number(s) : order[s][k] = i
      BY <1>3, <3>2 DEF Bijection, Surjection
    <3>4. count[s] \in Nat /\ k \in Int
      BY <1>1, <3>2
    <3>5. k + count[s] \in Int /\ (k + count[s]) - count[s] = k
      BY <3>4
    <3>6. k + count[s] \in count[s] + 1..more[s]
      BY <1>5, <3>2, <3>5
    <3>7. <<s, k + count[s]>> \in added
      BY <1>4, <3>2, <3>6
    <3>8. frame[<<s, k + count[s]>>] = i
      BY <3>3, <3>5, <3>7
    <3> QED
      BY <3>7, <3>8
  <2> QED
    BY <2>4, <2>5, <2>6 DEF Bijection, Injection, Surjection, IsInjective
<1>7. IsFiniteSet(added) /\ Cardinality(added) = n
  <2>1. frame \in Injection(added, 1..n) /\ frame \in Surjection(added, 1..n)
    BY <1>6 DEF Bijection
  <2> HIDE DEF frame
  <2> QED
    BY <1>0, <2>1, FS_Injection
<1>8. Textures(more) = Textures(count) \cup added
  <2>1. \A s \in Sizes : \A k : k \in 1..more[s] <=> k \in 1..count[s] \/ k \in count[s] + 1..more[s]
    <3> SUFFICES ASSUME NEW s \in Sizes, NEW k
                 PROVE k \in 1..more[s] <=> k \in 1..count[s] \/ k \in count[s] + 1..more[s]
      OBVIOUS
    <3>1. count[s] \in Nat /\ number(s) \in Nat /\ more[s] = count[s] + number(s)
      BY <1>1, <1>2
    <3> QED
      BY <3>1
  <2>2. \A t : t \in Textures(more) <=> t \in Textures(count) \cup added
    <3> SUFFICES ASSUME NEW t
                 PROVE  t \in Textures(more) <=> t \in Textures(count) \/ t \in added
      OBVIOUS
    <3>0. more \in [Sizes -> Nat]
      BY <1>2
    <3>1. t \in Textures(more) <=> \E s \in Sizes : \E i \in 1..more[s] : t = <<s, i>>
      BY <3>0, TextureIn
    <3>2. t \in Textures(count) <=> \E s \in Sizes : \E i \in 1..count[s] : t = <<s, i>>
      BY TextureIn
    <3>3. t \in added <=> \E s \in Sizes : \E i \in count[s] + 1..more[s] : t = <<s, i>>
      BY <1>4
    <3> QED
      BY <2>1, <3>1, <3>2, <3>3, Zenon
  <2> QED
    BY <2>2
<1>9. Textures(count) \cap added = {}
  <2> SUFFICES ASSUME NEW t \in Textures(count), t \in added PROVE FALSE
    OBVIOUS
  <2>1. PICK s \in Sizes : \E i \in 1..count[s] : t = <<s, i>>
    BY TextureIn
  <2>2. PICK i \in 1..count[s] : t = <<s, i>>
    BY <2>1
  <2>3. PICK z \in Sizes : \E j \in count[z] + 1..more[z] : t = <<z, j>>
    BY <1>4
  <2>4. PICK j \in count[z] + 1..more[z] : t = <<z, j>>
    BY <2>3
  <2>5. z = s /\ j = i
    BY <2>2, <2>4
  <2>6. i \in count[s] + 1..more[s]
    BY <2>5
  <2>7. count[s] \in Nat
    OBVIOUS
  <2> QED
    BY <2>2, <2>6, <2>7
<1>10. Cardinality(Textures(count) \cap added) = 0
  BY <1>9, FS_EmptySet
<1>11. IsFiniteSet(Textures(count)) /\ Cardinality(Textures(count)) \in Nat
  BY TexturesAreFinite
<1>12. Cardinality(Textures(count) \cup added)
         = Cardinality(Textures(count)) + Cardinality(added) - Cardinality(Textures(count) \cap added)
  BY <1>7, <1>11, FS_Union
<1>13. more \in [Sizes -> Nat] /\ Cardinality(Textures(more)) = Cardinality(Textures(count)) + n
  <2>1. Cardinality(Textures(more)) = Cardinality(Textures(count) \cup added)
    BY <1>8
  <2>2. Cardinality(added) = n
    BY <1>7
  <2> QED
    BY <1>2, <1>10, <1>11, <1>12, <2>1, <2>2
<1> QED
  BY <1>13 DEF more

----------------------------------------------------------------------------
(* Every step moves a texture from one place to another, or changes the count
   with it. *)
Encoding == IF consumer.pc = "encode" THEN 1 ELSE 0

Accounts ==
    /\ free \in [Sizes -> Nat]
    /\ consumer.pc = "encode" => consumer.frame \in Frame
    /\ PoolAccounted

\* Only the callback that holds the mutex copies.
LEMMA CopyingByOne ==
    ASSUME Shape, Serialised, NEW c \in Callbacks, callback[c].pc # "idle"
    PROVE  Cardinality(Copying) = IF callback[c].pc = "copy" THEN 1 ELSE 0
<1>1. \A d \in Callbacks \ {c} : callback[d].pc # "copy"
  BY DEF Serialised
<1>2. Copying = IF callback[c].pc = "copy" THEN {c} ELSE {}
  BY <1>1 DEF Copying
<1> QED
  BY <1>2, FS_EmptySet, FS_Singleton

LEMMA NobodyCopies ==
    ASSUME \A c \in Callbacks : callback[c].pc # "copy"
    PROVE  Cardinality(Copying) = 0
<1>1. Copying = {}
  BY DEF Copying
<1> QED
  BY <1>1, FS_EmptySet

LEMMA PoolNumbers ==
    ASSUME Shape, Serialised, free \in [Sizes -> Nat]
    PROVE  InPool \in Nat /\ Len(queue) \in Nat /\ Encoding \in Nat /\ Cardinality(Copying) \in Nat
<1>1. Cardinality(Copying) \in Nat
  <2>1. CASE \A c \in Callbacks : callback[c].pc # "copy"
    BY <2>1, NobodyCopies
  <2>2. CASE \E c \in Callbacks : callback[c].pc = "copy"
    BY <2>2, CopyingByOne
  <2> QED
    BY <2>1, <2>2
<1> QED
  BY <1>1, TexturesAreFinite DEF Shape, InPool, Encoding

LEMMA InitAccounts == Init => Accounts
  BY DEF Init, Accounts, PoolAccounted, Nothing, None

LEMMA RuntimeAccounts ==
    ASSUME IInv, Order, Accounts, Runtime \/ \E s \in Sizes : Resize(s)
    PROVE  Accounts'
<1>1. CASE StartCapture
  <2>1. free' = Nothing /\ queue' = <<>> /\ allocated' = 0 /\ callback' = callback
        /\ consumer' = [pc |-> "wait", frame |-> NoFrame]
    BY <1>1 DEF StartCapture
  <2>2. \A c \in Callbacks : callback[c].pc # "copy"
    BY <1>1, CaptureAssumption DEF StartCapture, IInv, WaitSecond, Serialised, None
  <2>3. Cardinality(Copying') = 0
    BY <2>1, <2>2, NobodyCopies DEF Copying
  <2>4. Cardinality(Textures(free')) = 0
    BY <2>1, NoTextures, FS_EmptySet
  <2>5. free' \in [Sizes -> Nat]
    BY <2>1 DEF Nothing
  <2>6. Len(queue') = 0 /\ consumer'.pc # "encode"
    BY <2>1
  <2> QED
    BY <2>1, <2>3, <2>4, <2>5, <2>6 DEF Accounts, PoolAccounted, InPool
<1>2. CASE StopCapture \/ WaitForCallback \/ \E s \in Sizes : Resize(s)
  BY <1>2 DEF StopCapture, WaitForCallback, Resize, Accounts, PoolAccounted, InPool, Copying
<1>3. CASE NotifyConsumer \/ JoinConsumer
  <2>1. UNCHANGED <<callback, queue, free, allocated>> /\ runtime # "idle"
    BY <1>3 DEF NotifyConsumer, JoinConsumer
  <2>2. consumer' = [consumer EXCEPT !.pc = Woken(consumer.pc)]
        \/ (consumer.pc = "ended" /\ consumer' = [consumer EXCEPT !.pc = None])
    BY <1>3 DEF NotifyConsumer, JoinConsumer
  <2>3. consumer'.pc = "encode" <=> consumer.pc = "encode"
    BY <1>3, <2>2 DEF Woken, Order, Counted, None
  <2>4. consumer'.frame = consumer.frame
    BY <2>2 DEF Order, Counted
  <2> QED
    BY <2>1, <2>3, <2>4 DEF Accounts, PoolAccounted, InPool, Copying
<1>4. CASE Release
  BY <1>4 DEF Release, Accounts, PoolAccounted, Nothing
<1> QED
  BY <1>1, <1>2, <1>3, <1>4 DEF Runtime

LEMMA ConsumerAccounts == ASSUME IInv, Order, Accounts, Consumer PROVE Accounts'
<1>0. Shape /\ Serialised /\ Counted /\ free \in [Sizes -> Nat] /\ queue \in Seq(Frame)
  BY DEF IInv, Shape, Order, Accounts
<1>1. UNCHANGED <<runtime, callback, allocated>> /\ Copying' = Copying
  BY DEF Consumer, TakeNewest, NothingQueued, ConsumerSleeps, EncodeFrame, ConsumerOnly, Copying
<1>2. CASE TakeNewest
  <2> DEFINE n == Len(queue) - 1
  <2>1. n \in Nat /\ n <= Len(queue) /\ Len(queue) \in 1..Len(queue)
    BY <1>0, <1>2 DEF TakeNewest
  <2>2. free' = Returned(free, queue, n)
    BY <1>2 DEF TakeNewest, Returned
  <2>3. consumer' = [pc |-> "encode", frame |-> queue[Len(queue)]] /\ queue' = <<>>
        /\ consumer.pc # "encode"
    BY <1>2 DEF TakeNewest
  <2>4. Len(queue) = n + 1
    BY <1>0
  <2> HIDE DEF n
  <2>5. free' \in [Sizes -> Nat] /\ Cardinality(Textures(free')) = Cardinality(Textures(free)) + n
    BY <1>0, <2>1, <2>2, TexturesReturned
  <2>6. consumer'.frame \in Frame /\ consumer'.pc = "encode" /\ Len(queue') = 0
    BY <1>0, <2>1, <2>3
  <2>7. PoolAccounted'
    <3> SUFFICES ASSUME runtime # "idle"
                 PROVE  allocated' = InPool' + Len(queue') + Cardinality(Copying') + 1
      BY <1>1, <2>6 DEF PoolAccounted
    <3>1. InPool \in Nat /\ Cardinality(Copying) \in Nat
      BY <1>0, PoolNumbers
    <3>2. allocated = InPool + Len(queue) + Cardinality(Copying)
      BY <2>3, <2>4, <2>1, <3>1 DEF Accounts, PoolAccounted
    <3>3. InPool' = InPool + n
      BY <2>5 DEF InPool
    <3> QED
      BY <1>1, <2>1, <2>4, <2>6, <3>1, <3>2, <3>3
  <2> QED
    BY <2>5, <2>6, <2>7 DEF Accounts
<1>3. CASE NothingQueued \/ ConsumerSleeps
  <2>1. UNCHANGED <<queue, free>> /\ consumer.pc # "encode" /\ consumer'.pc # "encode"
    BY <1>0, <1>3 DEF NothingQueued, ConsumerSleeps, Counted
  <2> QED
    BY <1>1, <2>1 DEF Accounts, PoolAccounted, InPool
<1>4. CASE EncodeFrame
  <2>1. consumer.pc = "encode" /\ consumer.frame \in Frame /\ consumer'.pc = "wait" /\ queue' = queue
    BY <1>4 DEF EncodeFrame, Accounts
  <2>2. free' = [free EXCEPT ![consumer.frame.size] = @ + 1] /\ consumer.frame.size \in Sizes
    BY <1>4, <2>1 DEF EncodeFrame, Frame
  <2>3. free' \in [Sizes -> Nat] /\ Cardinality(Textures(free')) = Cardinality(Textures(free)) + 1
    BY <1>0, <2>2, TextureAdded
  <2>4. PoolAccounted'
    <3> SUFFICES ASSUME runtime # "idle"
                 PROVE  allocated' = InPool' + Len(queue') + Cardinality(Copying') + 0
      BY <1>1, <2>1 DEF PoolAccounted
    <3>1. InPool \in Nat /\ Len(queue) \in Nat /\ Cardinality(Copying) \in Nat
      BY <1>0, PoolNumbers
    <3>2. allocated = InPool + Len(queue) + Cardinality(Copying) + 1
      BY <2>1 DEF Accounts, PoolAccounted
    <3>3. InPool' = InPool + 1
      BY <2>3 DEF InPool
    <3> QED
      BY <1>1, <2>1, <3>1, <3>2, <3>3
  <2> QED
    BY <2>1, <2>3, <2>4 DEF Accounts
<1> QED
  BY <1>2, <1>3, <1>4 DEF Consumer

\* A callback that acquires or copies finds the pool accounted for: no capture has
\* been released meanwhile.
LEMMA AccountedAtWork ==
    ASSUME IInv, Accounts, NEW c \in Callbacks, callback[c].pc # "idle"
    PROVE  /\ runtime # "idle"
           /\ allocated = InPool + Len(queue) + Encoding + IF callback[c].pc = "copy" THEN 1 ELSE 0
<1>0. Shape /\ Serialised /\ free \in [Sizes -> Nat]
  BY DEF IInv, Accounts
<1>1. runtime # "idle"
  BY CaptureAssumption DEF IInv, Serialised, WaitSecond, None
<1>2. Cardinality(Copying) = IF callback[c].pc = "copy" THEN 1 ELSE 0
  BY <1>0, CopyingByOne
<1> QED
  BY <1>0, <1>1, <1>2, PoolNumbers DEF Accounts, PoolAccounted, Encoding

LEMMA AcquireAccounts ==
    ASSUME IInv, Accounts, NEW c \in Callbacks, AcquireCopyTexture(c), IInv'
    PROVE  Accounts'
<1> DEFINE size == callback[c].frame.size
<1>0. Shape /\ Serialised /\ Shape' /\ Serialised' /\ free \in [Sizes -> Nat] /\ queue \in Seq(Frame)
  BY DEF IInv, Shape, Accounts
<1>1. callback[c].pc = "acquire" /\ UNCHANGED <<runtime, consumer>> /\ size \in Sizes
  BY DEF AcquireCopyTexture, IInv, Carrying, Frame
<1>2. runtime # "idle" /\ allocated = InPool + Len(queue) + Encoding
  BY <1>0, <1>1, AccountedAtWork, PoolNumbers
<1>3. InPool \in Nat /\ Len(queue) \in Nat /\ Encoding \in Nat
  BY <1>0, PoolNumbers
<1>4. free[size] \in Nat
  BY <1>0, <1>1
<1>5. /\ free' = IF free[size] > 0 THEN [free EXCEPT ![size] = @ - 1] ELSE Nothing
      /\ queue' = IF Reclaims(size) THEN Tail(queue) ELSE queue
      /\ \/ /\ allocated' = IF Fits(size) THEN Left(size) ELSE Left(size) + 1
            /\ callback' = [callback EXCEPT ![c].pc = "copy"]
         \/ /\ ~Fits(size) /\ allocated' = Left(size)
            /\ callback' = [callback EXCEPT ![c].pc = "entered", ![c].frame = NoFrame]
  BY DEF AcquireCopyTexture
<1>6. callback'[c].pc # "idle"
  BY <1>0, <1>5 DEF Shape
<1>7. Cardinality(Copying') = IF callback'[c].pc = "copy" THEN 1 ELSE 0
  <2>1. \A d \in Callbacks \ {c} : callback'[d].pc # "copy"
    BY <1>0, <1>6 DEF Serialised
  <2>2. Copying' = IF callback'[c].pc = "copy" THEN {c} ELSE {}
    BY <2>1 DEF Copying
  <2> QED
    BY <2>2, FS_EmptySet, FS_Singleton
<1>8. \/ callback'[c].pc = "copy" /\ allocated' = IF Fits(size) THEN Left(size) ELSE Left(size) + 1
      \/ callback'[c].pc = "entered" /\ ~Fits(size) /\ allocated' = Left(size)
  BY <1>0, <1>5 DEF Shape
<1> DEFINE copied == IF callback'[c].pc = "copy" THEN 1 ELSE 0
           pool == Cardinality(Textures(free'))
<1>9. free' \in [Sizes -> Nat] /\ allocated' = pool + Len(queue') + copied + Encoding
  <2> HIDE DEF size
  <2>1. CASE free[size] > 0
    <3>1. ~Reclaims(size) /\ Fits(size) /\ Left(size) = allocated
      BY <2>1 DEF Reclaims, Fits, Left, Kept
    <3>2. free' = [free EXCEPT ![size] = @ - 1] /\ queue' = queue
      BY <1>5, <2>1, <3>1
    <3>3. free' \in [Sizes -> Nat] /\ pool = InPool - 1
      BY <1>0, <1>1, <2>1, <3>2, TextureTaken DEF InPool
    <3>4. copied = 1 /\ allocated' = allocated
      BY <1>8, <3>1
    <3> HIDE DEF pool, copied
    <3> QED
      BY <1>2, <1>3, <3>2, <3>3, <3>4
  <2>2. CASE free[size] = 0
    <3>1. free' = Nothing /\ Kept(size) = Len(queue) + Encoding
      BY <1>2, <1>3, <1>5, <2>2 DEF Kept
    <3>2. free' \in [Sizes -> Nat] /\ pool = 0
      BY <3>1, NoTextures, FS_EmptySet DEF Nothing
    <3>3. Fits(size) => Reclaims(size)
      BY <2>2 DEF Fits
    <3>4. CASE Reclaims(size)
      <4>1. Len(queue') = Len(queue) - 1
        BY <1>0, <1>5, <3>4 DEF Reclaims
      <4>2. Left(size) = IF Fits(size) THEN Len(queue) + Encoding ELSE Len(queue) + Encoding - 1
        <5>1. Left(size) = IF ~Fits(size) THEN Kept(size) - 1 ELSE Kept(size)
          BY <3>4 DEF Left
        <5> QED
          BY <1>3, <3>1, <5>1
      <4>3. allocated' = Len(queue) - 1 + Encoding + copied
        BY <1>3, <1>8, <4>2
      <4> HIDE DEF pool, copied
      <4>4. copied \in Nat
        BY DEF copied
      <4> QED
        BY <1>3, <3>2, <4>1, <4>3, <4>4
    <3>5. CASE ~Reclaims(size)
      <4>1. queue' = queue /\ ~Fits(size) /\ Left(size) = Len(queue) + Encoding
        BY <1>5, <3>1, <3>3, <3>5 DEF Left
      <4>2. allocated' = Len(queue) + Encoding + copied
        BY <1>3, <1>8, <4>1
      <4> HIDE DEF pool, copied
      <4>3. copied \in Nat
        BY DEF copied
      <4> QED
        BY <1>3, <3>2, <4>1, <4>2, <4>3
    <3> QED
      BY <3>4, <3>5
  <2> QED
    BY <1>4, <2>1, <2>2 DEF size
<1> QED
  BY <1>1, <1>7, <1>9 DEF Accounts, PoolAccounted, InPool, Encoding

LEMMA CallbackAccounts ==
    ASSUME IInv, Order, Accounts, NEW c \in Callbacks, FrameArrived(c), IInv'
    PROVE  Accounts'
<1>0. Shape /\ Serialised /\ Shape' /\ Serialised' /\ Counted /\ free \in [Sizes -> Nat]
      /\ queue \in Seq(Frame)
  BY DEF IInv, Shape, Order, Accounts
<1>1. CASE AcquireCopyTexture(c)
  BY <1>1, AcquireAccounts
<1>2. CASE Enter(c) \/ NextFrame(c) \/ Leave(c)
  <2>1. UNCHANGED <<runtime, queue, free, allocated, consumer>>
    BY <1>2 DEF Enter, NextFrame, Leave
  <2>2. callback[c].pc # "copy" /\ callback'[c].pc # "copy"
        /\ \A d \in Callbacks \ {c} : callback'[d].pc = callback[d].pc
    BY <1>0, <1>2 DEF Enter, NextFrame, Leave, Resting, Shape
  <2>3. Copying' = Copying
    BY <2>2 DEF Copying
  <2> QED
    BY <2>1, <2>3 DEF Accounts, PoolAccounted, InPool
<1>3. CASE QueueFrame(c)
  <2> DEFINE f == callback[c].frame
  <2>1. callback[c].pc = "copy" /\ UNCHANGED <<runtime, allocated>> /\ f \in Frame
    BY <1>3 DEF QueueFrame, IInv, Carrying
  <2>2. runtime # "idle" /\ allocated = InPool + Len(queue) + Encoding + 1
    BY <2>1, AccountedAtWork
  <2>3. InPool \in Nat /\ Len(queue) \in Nat /\ Encoding \in Nat
    BY <1>0, PoolNumbers
  <2>4. callback'[c].pc = "entered" /\ \A d \in Callbacks \ {c} : callback'[d].pc = callback[d].pc
    BY <1>0, <1>3 DEF QueueFrame, Shape
  <2>5. \A d \in Callbacks : callback'[d].pc # "copy"
    BY <1>0, <2>1, <2>4 DEF Serialised
  <2>6. Cardinality(Copying') = 0
    <3>1. Copying' = {}
      BY <2>5 DEF Copying
    <3> QED
      BY <3>1, FS_EmptySet
  <2>7. /\ consumer'.pc = "encode" <=> consumer.pc = "encode"
        /\ consumer'.frame = consumer.frame
    <3>1. consumer' = [consumer EXCEPT !.pc = Woken(consumer.pc)]
      BY <1>3 DEF QueueFrame
    <3> QED
      BY <1>0, <3>1 DEF Woken, Counted
  <2>8. free' \in [Sizes -> Nat] /\ InPool' + Len(queue') = InPool + Len(queue) + 1
    <3>1. CASE Len(queue) >= MaxQueued
      <4>1. queue # <<>>
        BY <1>0, <3>1, Bounds
      <4>2. queue[1] \in Frame /\ Tail(queue) \in Seq(Frame) /\ Len(Tail(queue)) = Len(queue) - 1
        BY <1>0, <4>1
      <4>3. queue' = Append(Tail(queue), f) /\ free' = [free EXCEPT ![queue[1].size] = @ + 1]
        BY <1>3, <3>1 DEF QueueFrame
      <4>4. Len(queue') = Len(queue)
        BY <2>1, <2>3, <4>2, <4>3
      <4>5. queue[1].size \in Sizes
        BY <4>2 DEF Frame
      <4>6. free' \in [Sizes -> Nat] /\ InPool' = InPool + 1
        BY <1>0, <4>3, <4>5, TextureAdded DEF InPool
      <4> QED
        BY <2>3, <4>4, <4>6
    <3>2. CASE ~(Len(queue) >= MaxQueued)
      <4>1. queue' = Append(queue, f) /\ free' = free
        BY <1>3, <3>2 DEF QueueFrame
      <4>2. Len(queue') = Len(queue) + 1 /\ InPool' = InPool
        BY <1>0, <2>1, <4>1 DEF InPool
      <4> QED
        BY <1>0, <2>3, <4>1, <4>2
    <3> QED
      BY <3>1, <3>2
  <2>9. InPool' \in Nat /\ Len(queue') \in Nat /\ Encoding' = Encoding
    BY <1>0, <2>7, <2>8, TexturesAreFinite DEF Shape, InPool, Encoding
  <2>10. PoolAccounted'
    <3>1. allocated' = InPool' + Len(queue') + Cardinality(Copying') + Encoding'
      BY <2>1, <2>2, <2>3, <2>6, <2>8, <2>9
    <3> QED
      BY <3>1 DEF PoolAccounted, Encoding
  <2> QED
    BY <2>7, <2>8, <2>10 DEF Accounts
<1> QED
  BY <1>1, <1>2, <1>3 DEF FrameArrived

LEMMA AccountsInvariance == Spec => []Accounts
<1>1. IInv /\ Order /\ Accounts /\ [Next]_vars /\ IInv' => Accounts'
  <2> SUFFICES ASSUME IInv, Order, Accounts, [Next]_vars, IInv' PROVE Accounts'
    OBVIOUS
  <2>1. CASE UNCHANGED vars
    BY <2>1 DEF vars, Accounts, PoolAccounted, InPool, Copying
  <2> QED
    BY <2>1, RuntimeAccounts, ConsumerAccounts, CallbackAccounts DEF Next
<1> QED
  BY <1>1, InitAccounts, Invariance, OrderInvariance, PTL DEF Spec

(* No texture leaks and none is counted twice, however many captures, sizes and
   callbacks there are: what the pool counts is free, queued, copied into or encoded
   (AcquireCopyTextureLocked, ReturnTextureLocked). *)
THEOREM NoTextureLeaks == Spec => []PoolAccounted
<1>1. Accounts => PoolAccounted
  BY DEF Accounts
<1> QED
  BY <1>1, AccountsInvariance, PTL

(* A new frame always finds a texture: the pool is one larger than the queue, and
   what is neither free nor queued is the one being encoded (StartCapture chooses
   the size of the pool, README.md:86-91). *)
THEOREM TextureIsAvailable == Spec => []TextureAvailable
<1>1. IInv /\ Accounts => TextureAvailable
  <2> SUFFICES ASSUME IInv, Accounts, NEW c \in Callbacks, callback[c].pc = "acquire"
               PROVE  LET size == callback[c].frame.size IN Fits(size) \/ Left(size) < PoolSize
    BY DEF TextureAvailable
  <2> DEFINE size == callback[c].frame.size
  <2>1. Shape /\ Serialised /\ free \in [Sizes -> Nat] /\ size \in Sizes
    BY DEF IInv, Accounts, Carrying, Frame
  <2>2. InPool \in Nat /\ Len(queue) \in Nat /\ Encoding \in {0, 1}
    BY <2>1, PoolNumbers DEF Encoding
  <2>3. allocated = InPool + Len(queue) + Encoding
    BY <2>2, AccountedAtWork
  <2>4. free[size] \in Nat
    BY <2>1
  <2> HIDE DEF size
  <2>5. SUFFICES ASSUME ~Fits(size) PROVE Left(size) < PoolSize
    BY DEF size
  <2>6. free[size] = 0
    BY <2>4, <2>5 DEF Fits
  <2>7. Kept(size) = Len(queue) + Encoding
    BY <2>2, <2>3, <2>6 DEF Kept
  <2>8. Len(queue) <= MaxQueued
    BY <2>1 DEF Shape
  <2>9. Kept(size) <= PoolSize
    BY <2>2, <2>7, <2>8, PoolBounds, Bounds
  <2>10. CASE Reclaims(size)
    <3>1. Left(size) = Kept(size) - 1
      BY <2>5, <2>10 DEF Left
    <3> QED
      BY <2>2, <2>7, <2>9, <3>1, PoolBounds
  <2>11. CASE ~Reclaims(size)
    <3>1. Left(size) = Kept(size)
      BY <2>11 DEF Left
    <3>2. ~(Kept(size) >= PoolSize) \/ queue = <<>>
      BY <2>6, <2>11 DEF Reclaims
    <3>3. queue = <<>> => Kept(size) <= 1
      BY <2>2, <2>7
    <3>4. PoolSize > 1
      BY PoolBounds, Bounds
    <3> QED
      BY <2>2, <2>7, <3>1, <3>2, <3>3, <3>4, PoolBounds
  <2> QED
    BY <2>10, <2>11
<1> QED
  BY <1>1, Invariance, AccountsInvariance, PTL

-----------------------------------------------------------------------------
(***************************************************************************)
(* The audio path (AudioCapture), for any size of the ring, any limits,    *)
(* sessions, frames and faults: packets leave in the order in which their  *)
(* frames were captured, and the newest frame of a running capture is never*)
(* the one given up.                                                       *)
(*                                                                         *)
(* Both follow from one order.  A frame goes through the ring, the encoder *)
(* thread, the queue of one and the sender thread, and at each place the   *)
(* numbers are greater than further on.  So what is overwritten, in the    *)
(* ring or in the queue, is older than what takes its place; and a stop,   *)
(* which empties the queue, comes after the capture is over.               *)
(***************************************************************************)

\* What a thread has in hand at its steps; that a capture belongs to a session; and
\* that the sender is told to stop only when a capture is undone.
AudioHolding ==
    /\ encoder.pc \in {"encode", "drainEncode"} => encoder.frame \in AudioFrame
    /\ sender.pc = "send" => sender.packet \in AudioFrame
    /\ capture.pc # Absent => session > 0
    /\ caller.pc \in {"starting", "capturing"} => ~sender.stop

\* The numbers at the places of a frame, from the last to the first.
SendingOrder == sender.packet = NoAudioFrame \/ sender.packet.no > history.sent

QueueOrder ==
    \A i \in 1 .. Len(packets) : packets[i].no > history.sent
      /\ packets[i].no > sender.packet.no

EncodingOrder ==
    \/ encoder.frame = NoAudioFrame
    \/ /\ encoder.frame.no > history.sent /\ encoder.frame.no > sender.packet.no
       /\ encoder.frame.no > history.settled
       /\ \A i \in 1 .. Len(packets) : encoder.frame.no > packets[i].no

RingOrder ==
    /\ \A i, j \in 1 .. Len(ring) : i < j => ring[i].no < ring[j].no
    /\ \A i \in 1 .. Len(ring) :
           /\ ring[i].no > history.sent /\ ring[i].no > sender.packet.no
           /\ ring[i].no > encoder.frame.no
           /\ ring[i].no > history.settled
           /\ \A j \in 1 .. Len(packets) : ring[i].no > packets[j].no

NewestLast ==
    /\ history.sent <= newest /\ sender.packet.no <= newest /\ encoder.frame.no <= newest
    /\ history.settled <= newest
    /\ \A i \in 1 .. Len(packets) : packets[i].no <= newest
    /\ \A i \in 1 .. Len(ring) : ring[i].no <= newest

AudioOrder == SendingOrder /\ QueueOrder /\ EncodingOrder /\ RingOrder /\ NewestLast

\* The newest frame is somewhere, from the start of a capture to its end.
NewestThere ==
    caller.pc \in {"starting", "capturing"} /\ newest > history.settled =>
        newest = history.sent \/ \E frame \in InFlight : frame.no = newest

AudioInv == AudioTypeOK /\ AudioHolding /\ AudioOrder /\ NewestThere

-----------------------------------------------------------------------------
(* The type of the state, and what the threads have in hand. *)

LEMMA AudioAssumed ==
    /\ RING_BUFFER_SIZE \in Nat /\ RING_BUFFER_SIZE >= 1
    /\ MAX_RETRY_ATTEMPTS \in Nat /\ LOAD_RETRIES \in Nat /\ MAX_REINIT_ATTEMPTS \in Nat
    /\ MaxSessions \in Nat /\ MaxAudioFrames \in Nat
  BY AudioAssumption

LEMMA InitAudioInv == AudioInit => AudioInv
<1> SUFFICES ASSUME AudioInit PROVE AudioInv
  OBVIOUS
<1> USE AudioAssumed DEF AudioInit
<1>1. AudioTypeOK
  BY DEF AudioTypeOK, Runtimes, Audios, Captures, Devices,
     Encoders, Senders, Pasts, Absent, NoAudioFrame
<1>2. AudioHolding
  BY DEF AudioHolding, Absent, NoAudioFrame
<1>3. AudioOrder
  BY DEF AudioOrder, SendingOrder, QueueOrder, EncodingOrder, RingOrder, NewestLast,
     NoAudioFrame
<1>4. NewestThere
  BY DEF NewestThere
<1> QED
  BY <1>1, <1>2, <1>3, <1>4 DEF AudioInv

LEMMA RuntimeTyped == AudioTypeOK /\ AudioRuntime => AudioTypeOK'
<1> SUFFICES ASSUME AudioTypeOK, AudioRuntime PROVE AudioTypeOK'
  OBVIOUS
<1> USE AudioAssumed DEF AudioTypeOK
<1>1. CASE StartRefused
  <2>1. audio' \in Audios /\ session' \in 0 .. MaxSessions
    BY <1>1 DEF StartRefused, Audios
  <2> QED
    BY <1>1, <2>1 DEF StartRefused
<1>2. CASE StartAudio
  <2>1. caller' \in Runtimes /\ audio' \in Audios
          /\ capture' \in Captures
    BY <1>2 DEF StartAudio, Runtimes, Audios, Captures, Absent
  <2>2. encoder' \in Encoders /\ sender' \in Senders
    BY <1>2 DEF StartAudio, Encoders, Senders
  <2>3. history' \in Pasts
    BY <1>2 DEF StartAudio, Pasts
  <2>4. ring' \in Seq(AudioFrame) /\ Len(ring') <= RING_BUFFER_SIZE
    BY <1>2 DEF StartAudio
  <2> QED
    BY <1>2, <2>1, <2>2, <2>3, <2>4 DEF StartAudio
<1>3. CASE Started
  BY <1>3 DEF Started, Runtimes, Audios, Pasts
<1>4. CASE StartFailed
  BY <1>4 DEF StartFailed, Runtimes, Audios
<1>5. CASE StopAudio
  BY <1>5 DEF StopAudio, Runtimes, Audios
<1>6. CASE JoinCapture
  BY <1>6 DEF JoinCapture, Runtimes, Captures, Absent
<1>7. CASE FlagEncoder
  BY <1>7 DEF FlagEncoder, Runtimes, Encoders
<1>8. CASE NotifyEncoder
  BY <1>8 DEF NotifyEncoder, Runtimes, Encoders, AudioWoken
<1>9. CASE JoinEncoder
  BY <1>9 DEF JoinEncoder, Runtimes, Encoders, Absent
<1>10. CASE StopQueueProcessor
  BY <1>10 DEF StopQueueProcessor, Runtimes, Senders, AudioWoken
<1>11. CASE Finish
  BY <1>11 DEF Finish, Runtimes, Audios, Senders, Absent
<1> QED
  BY <1>1, <1>2, <1>3, <1>4, <1>5, <1>6, <1>7, <1>8, <1>9, <1>10, <1>11 DEF AudioRuntime

LEMMA Reopened ==
  ASSUME NEW d \in Devices, NEW n \in 0 .. MAX_REINIT_ATTEMPTS
  PROVE  /\ [client |-> "ok", source |-> "device", events |-> d.events,
              reinits |-> n] \in Devices
         /\ [d EXCEPT !.client = "null", !.events = FALSE, !.reinits = n] \in Devices
  BY DEF Devices

(* Every step of the capture thread but the one that pushes a frame. *)
LEMMA CaptureTyped ==
  AudioTypeOK /\ CaptureThread /\ ~ProcessAudioFrame
    => AudioTypeOK'
<1> SUFFICES ASSUME AudioTypeOK, CaptureThread,
                    ~ProcessAudioFrame
             PROVE  AudioTypeOK'
  OBVIOUS
<1> USE AudioAssumed DEF AudioTypeOK, Quiet
<1>1. ASSUME NEW source \in {"process", "device"}, Begin(source) PROVE AudioTypeOK'
  BY <1>1 DEF Begin, Audios, Captures, Devices
<1>2. CASE ActivationFails
  BY <1>2 DEF ActivationFails, Captures
<1>3. CASE Poll
  BY <1>3 DEF Poll, Captures
<1>4. CASE NullClient
  BY <1>4 DEF NullClient, Runtimes, Captures, Encoders, Senders,
     Absent
<1>5. ASSUME NEW error \in FaultKinds, CallFails(error) PROVE AudioTypeOK'
  <2>1. capture' \in Captures
    <3>1. capture.pc \in {"poll", "packet"}
            /\ capture.errors \in 0 .. MAX_RETRY_ATTEMPTS + LOAD_RETRIES
      BY <1>5 DEF CallFails, Captures
    <3> DEFINE e == capture.errors
    <3>2. \/ \E next \in {"reinit", "reinitLast", "poll", "packet"} :
               /\ capture' = [pc |-> next, errors |-> e + 1]
               /\ e < MAX_RETRY_ATTEMPTS \/ e < LOAD_RETRIES
          \/ capture' = [pc |-> "poll", errors |-> 0]
          \/ capture' = [pc |-> "exit", errors |-> e]
      BY <1>5, <3>1 DEF CallFails, Retried, Captures
    <3> QED
      BY <3>1, <3>2 DEF Captures
  <2>2. audio' \in Audios
    BY <1>5 DEF CallFails, Audios
  <2>3. device' \in Devices
    BY <1>5 DEF CallFails, Devices
  <2> QED
    BY <1>5, <2>1, <2>2, <2>3 DEF CallFails
<1>6. CASE ReinitializeAudioClient
  <2>1. capture' \in Captures
    BY <1>6 DEF ReinitializeAudioClient, Unrecovered, Captures
  <2>2. audio' \in Audios
    BY <1>6 DEF ReinitializeAudioClient, Audios
  <2>3. device.reinits \in Nat /\ device.reinits + 1 \in 0 .. MAX_REINIT_ATTEMPTS
    BY <1>6 DEF ReinitializeAudioClient, Devices
  <2>4. device' \in Devices
    <3> DEFINE n == device.reinits + 1
    <3> HIDE DEF n
    <3>1. n \in 0 .. MAX_REINIT_ATTEMPTS
      BY <2>3 DEF n
    <3>2. \/ device' = [client |-> "ok", source |-> "device", events |-> device.events,
               reinits |-> n]
          \/ device' = [device EXCEPT !.client = "null", !.events = FALSE, !.reinits = n]
      BY <1>6 DEF ReinitializeAudioClient, n
    <3> QED
      BY <3>1, <3>2, Reopened
  <2> QED
    BY <1>6, <2>1, <2>2, <2>4 DEF ReinitializeAudioClient
<1>7. CASE ReinitRefused
  <2>1. capture' \in Captures
    BY <1>7 DEF ReinitRefused, Unrecovered, Captures
  <2>2. audio' \in Audios /\ device' \in Devices
    BY <1>7 DEF ReinitRefused, Audios, Devices
  <2> QED
    BY <1>7, <2>1, <2>2 DEF ReinitRefused
<1>8. CASE BlockFails
  BY <1>8 DEF BlockFails, Captures
<1>9. CASE Exit
  BY <1>9 DEF Exit, Audios, Captures
<1> QED
  BY <1>1, <1>2, <1>3, <1>4, <1>5, <1>6, <1>7, <1>8, <1>9
     DEF CaptureThread, ActivateProcess, ActivateDevice

(* The ring keeps its order: a frame given up is the first. *)
LEMMA PushedSeq ==
  ASSUME NEW buffer \in Seq(AudioFrame),
           Len(buffer) <= RING_BUFFER_SIZE, NEW f \in AudioFrame
  PROVE  /\ Pushed(buffer, f) \in Seq(AudioFrame)
         /\ Len(Pushed(buffer, f)) <= RING_BUFFER_SIZE
         /\ \E d \in {0, 1} :
                /\ Len(Pushed(buffer, f)) = Len(buffer) + 1 - d /\ d <= Len(buffer)
                /\ Pushed(buffer, f)[Len(buffer) + 1 - d] = f
                /\ \A i \in 1 .. Len(buffer) - d :
                       i + d \in 1 .. Len(buffer) /\ Pushed(buffer, f)[i] = buffer[i + d]
<1> USE AudioAssumed
<1>1. CASE Len(buffer) >= RING_BUFFER_SIZE
  <2> DEFINE t == Tail(buffer)
  <2>1. /\ t \in Seq(AudioFrame) /\ Len(t) = Len(buffer) - 1
        /\ \A i \in 1 .. Len(buffer) - 1 : t[i] = buffer[i + 1]
    BY <1>1
  <2>2. Pushed(buffer, f) = Append(t, f)
    BY <1>1 DEF Pushed
  <2> HIDE DEF t
  <2> QED
    BY <1>1, <2>1, <2>2
<1>2. CASE ~(Len(buffer) >= RING_BUFFER_SIZE)
  <2>1. Pushed(buffer, f) = Append(buffer, f)
    BY <1>2 DEF Pushed
  <2> QED
    BY <1>2, <2>1
<1> QED
  BY <1>1, <1>2

LEMMA NewestIsFrame ==
  AudioTypeOK /\ AudioHolding /\ ProcessAudioFrame
    /\ partial # <<>> =>
      [no |-> newest + 1, first |-> partial[1], last |-> session] \in AudioFrame
<1> SUFFICES ASSUME AudioTypeOK, AudioHolding, ProcessAudioFrame,
                    partial # <<>>
             PROVE  [no |-> newest + 1, first |-> partial[1], last |-> session] \in AudioFrame
  OBVIOUS
<1> USE AudioAssumed
<1>1. newest + 1 \in 1 .. MaxAudioFrames
  BY DEF AudioTypeOK, ProcessAudioFrame
<1>2. session \in 1 .. MaxSessions
  BY DEF AudioTypeOK, AudioHolding, ProcessAudioFrame, Absent
<1>3. partial[1] \in 1 .. MaxSessions
  BY DEF AudioTypeOK
<1> QED
  BY <1>1, <1>2, <1>3 DEF AudioFrame

LEMMA ProcessTyped ==
  AudioTypeOK /\ AudioHolding /\ ProcessAudioFrame
    => AudioTypeOK'
<1> SUFFICES ASSUME AudioTypeOK, AudioHolding, ProcessAudioFrame
             PROVE  AudioTypeOK'
  OBVIOUS
<1> USE AudioAssumed
<1>1. audio' \in Audios /\ capture' \in Captures
  <2>1. audio \in Audios
    BY DEF AudioTypeOK
  <2>2. audio' \in Audios
    BY <2>1 DEF ProcessAudioFrame, Heard, Audios
  <2>3. capture' \in Captures
    BY DEF ProcessAudioFrame, Captures
  <2> QED
    BY <2>2, <2>3
<1>2. CASE partial = <<>>
  <2>1. session \in 1 .. MaxSessions
    BY DEF AudioTypeOK, AudioHolding, ProcessAudioFrame, Absent
  <2> QED
    BY <1>1, <1>2, <2>1 DEF AudioTypeOK, ProcessAudioFrame
<1>3. CASE partial # <<>>
  <2> DEFINE f == [no |-> newest + 1, first |-> partial[1], last |-> session]
  <2>1. f \in AudioFrame
    BY <1>3, NewestIsFrame
  <2> HIDE DEF f
  <2>2. ring' = Pushed(ring, f)
    BY <1>3 DEF ProcessAudioFrame, f
  <2>3. ring' \in Seq(AudioFrame) /\ Len(ring') <= RING_BUFFER_SIZE
    BY <2>1, <2>2, PushedSeq DEF AudioTypeOK
  <2>4. encoder' \in Encoders
    BY <1>3 DEF AudioTypeOK, ProcessAudioFrame, AudioWoken, Encoders
  <2>5. newest' \in 0 .. MaxAudioFrames /\ partial' = <<>>
    BY <1>3 DEF AudioTypeOK, ProcessAudioFrame
  <2> QED
    BY <1>1, <2>3, <2>4, <2>5 DEF AudioTypeOK, ProcessAudioFrame
<1> QED
  BY <1>2, <1>3

LEMMA EncoderTyped ==
  AudioTypeOK /\ AudioHolding /\ EncoderThread => AudioTypeOK'
<1> SUFFICES ASSUME AudioTypeOK, AudioHolding, EncoderThread
             PROVE  AudioTypeOK'
  OBVIOUS
<1> USE AudioAssumed DEF AudioTypeOK, EncoderOnly
<1>1. CASE EncoderTest
  BY <1>1 DEF EncoderTest, Encoders
<1>2. CASE EncoderSleeps
  BY <1>2 DEF EncoderSleeps, Encoders
<1>3. CASE EncoderPop
  <2>1. ring # <<>> => /\ Head(ring) \in AudioFrame
                       /\ Tail(ring) \in Seq(AudioFrame) /\ Len(Tail(ring)) <= RING_BUFFER_SIZE
    OBVIOUS
  <2>2. ring' \in Seq(AudioFrame) /\ Len(ring') <= RING_BUFFER_SIZE
    BY <1>3, <2>1 DEF EncoderPop
  <2>3. encoder' \in Encoders
    <3>1. CASE ring = <<>>
      BY <1>3, <3>1 DEF EncoderPop, Encoders
    <3>2. CASE ring # <<>>
      <4> DEFINE f == Head(ring)
      <4>1. f \in AudioFrame
        BY <2>1, <3>2
      <4> HIDE DEF f
      <4>2. encoder' = [encoder EXCEPT !.pc = IF @ = "pop" THEN "encode" ELSE "drainEncode",
              !.frame = f]
        BY <1>3, <3>2 DEF EncoderPop, f
      <4> QED
        BY <4>1, <4>2 DEF Encoders
    <3> QED
      BY <3>1, <3>2
  <2> QED
    BY <1>3, <2>2, <2>3 DEF EncoderPop
<1>4. CASE EncodeAndQueueFrame
  <2>1. encoder.frame \in AudioFrame
    BY <1>4 DEF EncodeAndQueueFrame, AudioHolding
  <2>2. packets' \in Seq(AudioFrame) /\ Len(packets') <= 1
    <3> DEFINE q == <<encoder.frame>>
    <3>1. q \in Seq(AudioFrame) /\ Len(q) <= 1
      BY <2>1
    <3>2. packets' = q \/ packets' = packets
      BY <1>4 DEF EncodeAndQueueFrame
    <3> HIDE DEF q
    <3> QED
      BY <3>1, <3>2
  <2>3. sender' \in Senders
    BY <1>4 DEF EncodeAndQueueFrame, AudioWoken, Senders
  <2>4. history' \in Pasts
    <3> DEFINE n == encoder.frame.no
    <3>1. n \in 0 .. MaxAudioFrames
      BY <2>1 DEF AudioFrame
    <3>2. history' = [history EXCEPT !.settled = n] \/ history' = history
      BY <1>4 DEF EncodeAndQueueFrame
    <3> HIDE DEF n
    <3> QED
      BY <3>1, <3>2 DEF Pasts
  <2>5. encoder' \in Encoders
    BY <1>4 DEF EncodeAndQueueFrame, Encoders
  <2> QED
    BY <1>4, <2>2, <2>3, <2>4, <2>5 DEF EncodeAndQueueFrame
<1> QED
  BY <1>1, <1>2, <1>3, <1>4 DEF EncoderThread

LEMMA SenderTyped ==
  AudioTypeOK /\ AudioHolding /\ SenderThread => AudioTypeOK'
<1> SUFFICES ASSUME AudioTypeOK, AudioHolding, SenderThread
             PROVE  AudioTypeOK'
  OBVIOUS
<1> USE AudioAssumed DEF AudioTypeOK, SenderOnly
<1>1. CASE SenderTest
  BY <1>1 DEF SenderTest, Senders
<1>2. CASE SenderWait
  <2>1. packets # <<>> => Head(packets) \in AudioFrame
    OBVIOUS
  <2>2. sender' \in Senders
    BY <1>2, <2>1 DEF SenderWait, Senders
  <2>3. packets' \in Seq(AudioFrame) /\ Len(packets') <= 1
    BY <1>2 DEF SenderWait
  <2> QED
    BY <1>2, <2>2, <2>3 DEF SenderWait
<1>3. CASE SendPacket
  <2>1. history' \in Pasts
    <3> DEFINE n == sender.packet.no
    <3>1. n \in 0 .. MaxAudioFrames
      BY <1>3 DEF SendPacket, AudioHolding, AudioFrame
    <3>2. history' = [history EXCEPT !.sent = n]
      BY <1>3 DEF SendPacket
    <3> HIDE DEF n
    <3> QED
      BY <3>1, <3>2 DEF Pasts
  <2>2. sender' \in Senders
    BY <1>3 DEF SendPacket, Senders
  <2> QED
    BY <1>3, <2>1, <2>2 DEF SendPacket
<1> QED
  BY <1>1, <1>2, <1>3 DEF SenderThread

LEMMA Typed ==
  AudioTypeOK /\ AudioHolding /\ [AudioNext]_audioVars
    => AudioTypeOK'
<1>1. AudioTypeOK /\ UNCHANGED audioVars => AudioTypeOK'
  BY DEF AudioTypeOK, audioVars
<1> QED
  BY <1>1, RuntimeTyped, CaptureTyped, ProcessTyped, EncoderTyped, SenderTyped DEF AudioNext

LEMMA HoldingStep ==
  AudioTypeOK /\ AudioHolding /\ [AudioNext]_audioVars
    => AudioHolding'
<1> SUFFICES ASSUME AudioTypeOK, AudioHolding, [AudioNext]_audioVars
             PROVE  AudioHolding'
  OBVIOUS
<1>0. /\ caller \in Runtimes /\ capture \in Captures
      /\ encoder \in Encoders /\ sender \in Senders
      /\ session \in Nat
  BY AudioAssumed DEF AudioTypeOK
<1>1. CASE AudioRuntime
  <2> USE <1>0 DEF AudioHolding, Runtimes, Captures, Encoders, Senders
  <2>1. CASE StartRefused
    BY <2>1 DEF StartRefused
  <2>2. CASE StartAudio
    BY <2>2 DEF StartAudio
  <2>3. CASE Started
    BY <2>3 DEF Started
  <2>4. CASE StartFailed
    BY <2>4 DEF StartFailed
  <2>5. CASE StopAudio
    BY <2>5 DEF StopAudio
  <2>6. CASE JoinCapture
    BY <2>6 DEF JoinCapture
  <2>7. CASE FlagEncoder
    BY <2>7 DEF FlagEncoder
  <2>8. CASE NotifyEncoder
    BY <2>8 DEF NotifyEncoder, AudioWoken
  <2>9. CASE JoinEncoder
    BY <2>9 DEF JoinEncoder, Absent
  <2>10. CASE StopQueueProcessor
    BY <2>10 DEF StopQueueProcessor, AudioWoken
  <2>11. CASE Finish
    BY <2>11 DEF Finish, Absent
  <2> QED
    BY <1>1, <2>1, <2>2, <2>3, <2>4, <2>5, <2>6, <2>7, <2>8, <2>9, <2>10, <2>11
       DEF AudioRuntime
<1>2. CASE CaptureThread
  <2>1. capture.pc # Absent
    BY <1>2 DEF CaptureThread, ActivateProcess, ActivateDevice, Begin,
       ActivationFails, Poll, NullClient,
         CallFails, ReinitializeAudioClient, ReinitRefused,
         ProcessAudioFrame, BlockFails, Exit, Absent
  <2>2. CASE NullClient
    BY <1>0, <2>1, <2>2 DEF NullClient, AudioHolding, Runtimes, Encoders,
       Senders, Absent
  <2>3. CASE ProcessAudioFrame
    BY <1>0, <2>1, <2>3 DEF ProcessAudioFrame, AudioWoken, AudioHolding, Encoders
  <2>4. CASE Quiet
    BY <2>1, <2>4 DEF Quiet, AudioHolding
  <2> QED
    BY <1>2, <2>2, <2>3, <2>4 DEF CaptureThread, ActivateProcess,
       ActivateDevice, Begin, ActivationFails,
         Poll, CallFails, ReinitializeAudioClient, ReinitRefused,
         BlockFails, Exit
<1>3. CASE EncoderThread
  <2> USE <1>0 DEF AudioHolding, Encoders, EncoderOnly
  <2>1. CASE EncoderTest
    BY <2>1 DEF EncoderTest
  <2>2. CASE EncoderSleeps
    BY <2>2 DEF EncoderSleeps
  <2>3. CASE EncoderPop
    <3>1. ring # <<>> => Head(ring) \in AudioFrame
      BY DEF AudioTypeOK
    <3> QED
      BY <2>3, <3>1 DEF EncoderPop
  <2>4. CASE EncodeAndQueueFrame
    BY <2>4 DEF EncodeAndQueueFrame, AudioWoken, Senders
  <2> QED
    BY <1>3, <2>1, <2>2, <2>3, <2>4 DEF EncoderThread
<1>4. CASE SenderThread
  <2> USE <1>0 DEF AudioHolding, Senders, SenderOnly
  <2>1. CASE SenderTest
    BY <2>1 DEF SenderTest
  <2>2. CASE SenderWait
    <3>1. packets # <<>> => Head(packets) \in AudioFrame
      BY DEF AudioTypeOK
    <3> QED
      BY <2>2, <3>1 DEF SenderWait
  <2>3. CASE SendPacket
    BY <2>3 DEF SendPacket
  <2> QED
    BY <1>4, <2>1, <2>2, <2>3 DEF SenderThread
<1>5. CASE UNCHANGED audioVars
  BY <1>5 DEF audioVars, AudioHolding
<1> QED
  BY <1>1, <1>2, <1>3, <1>4, <1>5 DEF AudioNext

-----------------------------------------------------------------------------
(* The order of the frames. *)

Numbered(s) == \A i \in 1 .. Len(s) : s[i] \in AudioFrame /\ s[i].no \in Nat \ {0}

LEMMA AudioNumbers ==
  AudioTypeOK =>
      /\ newest \in Nat /\ history.sent \in Nat /\ history.settled \in Nat
      /\ encoder.frame.no \in Nat /\ sender.packet.no \in Nat
      /\ Numbered(ring) /\ Numbered(packets)
      /\ encoder.frame \in AudioFrame => encoder.frame.no > 0
<1> SUFFICES ASSUME AudioTypeOK
             PROVE  /\ newest \in Nat /\ history.sent \in Nat /\ history.settled \in Nat
                    /\ encoder.frame.no \in Nat /\ sender.packet.no \in Nat
                    /\ Numbered(ring) /\ Numbered(packets)
                    /\ encoder.frame \in AudioFrame => encoder.frame.no > 0
  OBVIOUS
<1> USE AudioAssumed
<1>1. newest \in Nat /\ history.sent \in Nat /\ history.settled \in Nat
  BY DEF AudioTypeOK, Pasts
<1>2. \A f \in AudioFrame : f.no \in Nat \ {0}
  BY DEF AudioFrame
<1>3. NoAudioFrame.no = 0
  BY DEF NoAudioFrame
<1>4. encoder.frame \in AudioFrame \cup {NoAudioFrame}
        /\ sender.packet \in AudioFrame \cup {NoAudioFrame}
  BY DEF AudioTypeOK, Encoders, Senders
<1>5. /\ \A i \in 1 .. Len(ring) : ring[i] \in AudioFrame
      /\ \A i \in 1 .. Len(packets) : packets[i] \in AudioFrame
  BY DEF AudioTypeOK
<1> QED
  BY <1>1, <1>2, <1>3, <1>4, <1>5 DEF Numbered

LEMMA FramesAreNumbered ==
    NoAudioFrame.no = 0 /\ (\A f \in AudioFrame : f.no \in Nat \ {0} /\ f # NoAudioFrame)
  BY AudioAssumed DEF AudioFrame, NoAudioFrame

(* No frame moves: the threads go on, wait, fail or end. *)
Unmoved ==
    /\ UNCHANGED <<ring, packets, newest>>
    /\ encoder'.frame = encoder.frame /\ sender'.packet = sender.packet
    /\ history'.sent = history.sent /\ history'.settled = history.settled
    /\ caller'.pc \in {"starting", "capturing"}
         => caller.pc \in {"starting", "capturing"}

LEMMA Moves ==
  AudioTypeOK /\ [AudioNext]_audioVars =>
      Unmoved \/ StartAudio \/ ProcessAudioFrame \/ EncoderPop
        \/ EncodeAndQueueFrame
              \/ SenderWait \/ SendPacket
<1> SUFFICES ASSUME AudioTypeOK, [AudioNext]_audioVars,
                    ~(StartAudio \/ ProcessAudioFrame \/ EncoderPop
                      \/ EncodeAndQueueFrame
                      \/ SenderWait \/ SendPacket)
             PROVE  Unmoved
  OBVIOUS
<1>0. /\ caller \in Runtimes /\ encoder \in Encoders
      /\ sender \in Senders /\ history \in Pasts
  BY DEF AudioTypeOK
<1>1. CASE AudioRuntime
  <2> USE <1>0 DEF Unmoved, Runtimes
  <2>1. CASE StartRefused \/ StartFailed \/ StopAudio \/ JoinCapture
    BY <2>1 DEF StartRefused, StartFailed, StopAudio, JoinCapture
  <2>2. CASE Started
    BY <2>2 DEF Started, Pasts
  <2>3. CASE FlagEncoder \/ JoinEncoder
    BY <2>3 DEF FlagEncoder, JoinEncoder, Encoders
  <2>4. CASE NotifyEncoder
    BY <2>4 DEF NotifyEncoder, AudioWoken, Encoders
  <2>5. CASE StopQueueProcessor
    BY <2>5 DEF StopQueueProcessor, AudioWoken, Senders
  <2>6. CASE Finish
    BY <2>6 DEF Finish, Senders
  <2> QED
    BY <1>1, <2>1, <2>2, <2>3, <2>4, <2>5, <2>6 DEF AudioRuntime
<1>2. CASE CaptureThread
  <2>1. CASE NullClient
    BY <1>0, <2>1 DEF NullClient, Unmoved, Runtimes, Encoders, Senders
  <2>2. CASE Quiet
    BY <2>2 DEF Quiet, Unmoved
  <2> QED
    BY <1>2, <2>1, <2>2 DEF CaptureThread, ActivateProcess, ActivateDevice,
       Begin, ActivationFails,
         Poll, CallFails, ReinitializeAudioClient, ReinitRefused,
         BlockFails, Exit
<1>3. CASE EncoderThread
  BY <1>0, <1>3 DEF EncoderThread, EncoderTest, EncoderSleeps,
     EncoderOnly, Unmoved, Encoders
<1>4. CASE SenderThread
  BY <1>0, <1>4
     DEF SenderThread, SenderTest, SenderOnly, Unmoved, Senders
<1>5. CASE UNCHANGED audioVars
  BY <1>5 DEF audioVars, Unmoved
<1> QED
  BY <1>1, <1>2, <1>3, <1>4, <1>5 DEF AudioNext

Moved == AudioOrder' /\ NewestThere'

LEMMA UnmovedStep == AudioInv /\ Unmoved => Moved
<1> SUFFICES ASSUME AudioInv, Unmoved PROVE Moved
  OBVIOUS
<1>1. AudioOrder'
  BY DEF AudioInv, AudioOrder, SendingOrder, QueueOrder, EncodingOrder, RingOrder, NewestLast,
     Unmoved
<1>2. InFlight' = InFlight
  BY DEF InFlight, Unmoved
<1>3. NewestThere'
  BY <1>2 DEF AudioInv, NewestThere, Unmoved
<1> QED
  BY <1>1, <1>3 DEF Moved

(* A start: the ring is empty, and nothing newer than its frames is owed. *)
LEMMA StartStep == AudioInv /\ StartAudio => Moved
<1> SUFFICES ASSUME AudioInv, StartAudio PROVE Moved
  OBVIOUS
<1>1. AudioTypeOK /\ AudioOrder
  BY DEF AudioInv
<1>2. /\ ring' = <<>> /\ packets' = packets /\ newest' = newest
      /\ encoder'.frame = NoAudioFrame /\ sender'.packet = NoAudioFrame
      /\ history'.sent = history.sent /\ history'.settled = newest
  BY <1>1 DEF StartAudio, AudioTypeOK, Pasts
<1>3. AudioOrder'
  <2>1. encoder'.frame.no = 0 /\ sender'.packet.no = 0
    BY <1>2, FramesAreNumbered
  <2>2. SendingOrder' /\ EncodingOrder' /\ RingOrder'
    BY <1>2 DEF SendingOrder, EncodingOrder, RingOrder
  <2>3. QueueOrder'
    BY <1>1, <1>2, <2>1, AudioNumbers DEF Numbered, AudioOrder, QueueOrder
  <2>4. NewestLast'
    BY <1>1, <1>2, <2>1, AudioNumbers DEF AudioOrder, NewestLast
  <2> QED
    BY <2>2, <2>3, <2>4 DEF AudioOrder
<1>4. NewestThere'
  BY <1>1, <1>2, AudioNumbers DEF NewestThere
<1> QED
  BY <1>3, <1>4 DEF Moved

(* A new frame is later than all; only the first of the ring may go. *)
LEMMA ProcessStep == AudioInv /\ ProcessAudioFrame => Moved
<1> SUFFICES ASSUME AudioInv, ProcessAudioFrame PROVE Moved
  OBVIOUS
<1>1. AudioTypeOK /\ AudioHolding /\ AudioOrder
  BY DEF AudioInv
<1>2. CASE partial = <<>>
  <2>1. Unmoved
    BY <1>1, <1>2 DEF ProcessAudioFrame, Unmoved
  <2> QED
    BY <2>1, UnmovedStep
<1>3. CASE partial # <<>>
  <2> DEFINE f == [no |-> newest + 1, first |-> partial[1], last |-> session]
             e == encoder.frame.no
             p == sender.packet.no
  <2>1. f \in AudioFrame
    BY <1>1, <1>3, NewestIsFrame
  <2>2. f.no = newest + 1
    OBVIOUS
  <2>3. /\ ring' = Pushed(ring, f) /\ newest' = newest + 1 /\ packets' = packets
        /\ sender' = sender /\ history' = history /\ caller' = caller
        /\ encoder'.frame = encoder.frame
    BY <1>1, <1>3 DEF ProcessAudioFrame, AudioTypeOK, Encoders, AudioWoken
  <2> HIDE DEF f
  <2>4. PICK d \in {0, 1} :
           /\ Len(ring') = Len(ring) + 1 - d /\ d <= Len(ring)
           /\ ring'[Len(ring) + 1 - d] = f
           /\ \A i \in 1 .. Len(ring) - d : i + d \in 1 .. Len(ring) /\ ring'[i] = ring[i + d]
    BY <1>1, <2>1, <2>3, PushedSeq DEF AudioTypeOK
  <2> DEFINE n == Len(ring) + 1 - d
  <2>5. n \in Nat \ {0} /\ Len(ring) - d = n - 1
    <3>1. Len(ring) \in Nat
      BY <1>1 DEF AudioTypeOK
    <3> QED
      BY <2>4, <3>1
  <2>6. /\ newest \in Nat /\ history.sent \in Nat /\ history.settled \in Nat
        /\ e \in Nat /\ p \in Nat
        /\ \A i \in 1 .. Len(ring) : ring[i].no \in Nat
        /\ \A i \in 1 .. Len(packets) : packets[i].no \in Nat
    BY <1>1, AudioNumbers DEF Numbered
  <2>7. \A i \in 1 .. n :
            i = n \/ (i \in 1 .. n - 1 /\ i + d \in 1 .. Len(ring) /\ ring'[i] = ring[i + d])
    BY <2>4, <2>5
  <2>8. SendingOrder' /\ QueueOrder' /\ EncodingOrder'
    BY <1>1, <2>3 DEF AudioOrder, SendingOrder, QueueOrder, EncodingOrder
  <2>9. RingOrder'
    <3>1. ASSUME NEW i \in 1 .. n
          PROVE  /\ ring'[i].no > history.sent /\ ring'[i].no > p /\ ring'[i].no > e
                 /\ ring'[i].no > history.settled
                 /\ \A j \in 1 .. Len(packets) : ring'[i].no > packets[j].no
      <4>1. CASE i = n
        <5>1. ring'[i].no = newest + 1
          BY <2>2, <2>4, <4>1
        <5>2. /\ history.sent <= newest /\ p <= newest /\ e <= newest
              /\ history.settled <= newest
              /\ \A j \in 1 .. Len(packets) : packets[j].no <= newest
          BY <1>1 DEF AudioOrder, NewestLast
        <5> QED
          BY <2>6, <5>1, <5>2
      <4>2. CASE i # n
        <5>1. i + d \in 1 .. Len(ring) /\ ring'[i] = ring[i + d]
          BY <2>7, <4>2
        <5> QED
          BY <1>1, <5>1 DEF AudioOrder, RingOrder
      <4> QED
        BY <4>1, <4>2
    <3>2. ASSUME NEW i \in 1 .. n, NEW j \in 1 .. n, i < j PROVE ring'[i].no < ring'[j].no
      <4>0. i # n
        BY <2>5, <3>2
      <4>1. i \in 1 .. n - 1 /\ i + d \in 1 .. Len(ring) /\ ring'[i] = ring[i + d]
        BY <2>7, <4>0
      <4>2. CASE j = n
        <5>1. ring[i + d].no <= newest /\ ring[i + d].no \in Nat
          BY <1>1, <2>6, <4>1 DEF AudioOrder, NewestLast
        <5>2. ring'[j].no = newest + 1
          BY <2>2, <2>4, <4>2
        <5> QED
          BY <2>6, <4>1, <5>1, <5>2
      <4>3. CASE j # n
        <5>1. j + d \in 1 .. Len(ring) /\ ring'[j] = ring[j + d]
          BY <2>7, <4>3
        <5> QED
          BY <1>1, <3>2, <4>1, <5>1 DEF AudioOrder, RingOrder
      <4> QED
        BY <4>2, <4>3
    <3> QED
      BY <2>3, <2>4, <3>1, <3>2 DEF RingOrder
  <2>10. NewestLast'
    <3>1. ASSUME NEW i \in 1 .. n PROVE ring'[i].no <= newest + 1
      <4>1. CASE i = n
        BY <2>2, <2>4, <2>6, <4>1
      <4>2. CASE i # n
        <5>1. i + d \in 1 .. Len(ring) /\ ring'[i] = ring[i + d]
          BY <2>7, <4>2
        <5> QED
          BY <1>1, <2>6, <5>1 DEF AudioOrder, NewestLast
      <4> QED
        BY <4>1, <4>2
    <3>2. /\ history.sent <= newest + 1 /\ p <= newest + 1 /\ e <= newest + 1
          /\ history.settled <= newest + 1
          /\ \A i \in 1 .. Len(packets) : packets[i].no <= newest + 1
      BY <1>1, <2>6 DEF AudioOrder, NewestLast
    <3> QED
      BY <2>3, <2>4, <3>1, <3>2 DEF NewestLast
  <2>11. NewestThere'
    <3>1. n \in DOMAIN ring' /\ ring'[n].no = newest'
      <4>1. ring' \in Seq(AudioFrame)
        BY <1>1, <2>1, <2>3, PushedSeq DEF AudioTypeOK
      <4>2. DOMAIN ring' = 1 .. n
        BY <2>4, <4>1
      <4> QED
        BY <2>2, <2>3, <2>4, <2>5, <4>2
    <3>2. \E frame \in InFlight' : frame.no = newest'
      BY <3>1 DEF InFlight
    <3> QED
      BY <3>2 DEF NewestThere
  <2> QED
    BY <2>8, <2>9, <2>10, <2>11 DEF Moved, AudioOrder
<1> QED
  BY <1>2, <1>3

(* The encoder takes the first of the ring, which all that is ahead precedes. *)
LEMMA PopStep == AudioInv /\ EncoderPop => Moved
<1> SUFFICES ASSUME AudioInv, EncoderPop PROVE Moved
  OBVIOUS
<1>1. AudioTypeOK /\ AudioHolding /\ AudioOrder /\ NewestThere
  BY DEF AudioInv
<1>2. /\ packets' = packets /\ sender' = sender /\ history' = history
      /\ caller' = caller /\ newest' = newest
  BY DEF EncoderPop, EncoderOnly
<1>3. CASE ring = <<>>
  <2>1. Unmoved
    BY <1>1, <1>2, <1>3 DEF EncoderPop, Unmoved, AudioTypeOK, Encoders
  <2> QED
    BY <2>1, UnmovedStep
<1>4. CASE ring # <<>>
  <2>1. encoder'.frame = ring[1] /\ ring' = Tail(ring)
    <3>1. encoder \in Encoders /\ Head(ring) = ring[1]
      BY <1>1, <1>4 DEF AudioTypeOK
    <3> QED
      BY <1>4, <3>1 DEF EncoderPop, Encoders
  <2>2. /\ 1 \in 1 .. Len(ring) /\ ring' \in Seq(AudioFrame) /\ Len(ring') = Len(ring) - 1
        /\ Len(ring) \in Nat
        /\ \A i \in 1 .. Len(ring') : i + 1 \in 1 .. Len(ring) /\ ring'[i] = ring[i + 1]
    BY <1>1, <1>4, <2>1 DEF AudioTypeOK
  <2>3. SendingOrder' /\ QueueOrder'
    BY <1>1, <1>2 DEF AudioOrder, SendingOrder, QueueOrder
  <2>4. EncodingOrder'
    <3>1. /\ ring[1].no > history.sent /\ ring[1].no > sender.packet.no
          /\ ring[1].no > history.settled
          /\ \A j \in 1 .. Len(packets) : ring[1].no > packets[j].no
      BY <1>1, <2>2 DEF AudioOrder, RingOrder
    <3> QED
      BY <1>2, <2>1, <3>1 DEF EncodingOrder
  <2>5. RingOrder'
    <3>1. ASSUME NEW i \in 1 .. Len(ring'), NEW j \in 1 .. Len(ring'),
                   i < j PROVE ring'[i].no < ring'[j].no
      <4>1. /\ i + 1 \in 1 .. Len(ring) /\ ring'[i] = ring[i + 1]
            /\ j + 1 \in 1 .. Len(ring) /\ ring'[j] = ring[j + 1]
        BY <2>2
      <4>2. i + 1 < j + 1
        BY <2>2, <3>1
      <4> QED
        BY <1>1, <4>1, <4>2 DEF AudioOrder, RingOrder
    <3>2. ASSUME NEW i \in 1 .. Len(ring')
          PROVE  /\ ring'[i].no > history.sent /\ ring'[i].no > sender.packet.no
                 /\ ring'[i].no > ring[1].no
                 /\ ring'[i].no > history.settled
                 /\ \A j \in 1 .. Len(packets) : ring'[i].no > packets[j].no
      <4>1. 1 < i + 1 /\ i + 1 \in 1 .. Len(ring) /\ ring'[i] = ring[i + 1]
        BY <2>2
      <4>2. ring[1].no < ring[i + 1].no /\ ring[1].no \in Nat /\ ring[i + 1].no \in Nat
        BY <1>1, <2>2, <4>1, AudioNumbers DEF AudioOrder, RingOrder, Numbered
      <4> QED
        BY <1>1, <4>1, <4>2 DEF AudioOrder, RingOrder
    <3> QED
      BY <1>2, <2>1, <3>1, <3>2 DEF RingOrder
  <2>6. NewestLast'
    BY <1>1, <1>2, <2>1, <2>2 DEF AudioOrder, NewestLast
  <2>7. NewestThere'
    <3> SUFFICES ASSUME caller.pc \in {"starting", "capturing"},
                        newest > history.settled, newest # history.sent
                 PROVE  \E frame \in InFlight' : frame.no = newest
      BY <1>2 DEF NewestThere
    <3>1. PICK f \in InFlight : f.no = newest
      BY <1>1 DEF NewestThere
    <3>2. ring[1] # NoAudioFrame /\ ring[1] = encoder'.frame
      BY <1>1, <2>1, <2>2, FramesAreNumbered DEF AudioTypeOK
    <3>3. CASE f \in {ring[i] : i \in DOMAIN ring}
      <4>1. PICK i \in 1 .. Len(ring) : f = ring[i]
        BY <1>1, <3>3 DEF AudioTypeOK
      <4>2. CASE i = 1
        BY <3>1, <3>2, <4>1, <4>2 DEF InFlight
      <4>3. CASE i # 1
        <5>1. i - 1 \in DOMAIN ring' /\ ring'[i - 1] = f
          BY <2>2, <4>1, <4>3
        <5> QED
          BY <3>1, <5>1 DEF InFlight
      <4> QED
        BY <4>2, <4>3
    <3>4. CASE f = encoder.frame /\ f # NoAudioFrame
      <4>1. ring[1].no > newest /\ ring[1].no <= newest /\ ring[1].no \in Nat /\ newest \in Nat
        BY <1>1, <2>2, <3>1, <3>4, AudioNumbers DEF AudioOrder, RingOrder, NewestLast, Numbered
      <4> QED
        BY <4>1
    <3>5. CASE f \in {packets[i] : i \in DOMAIN packets} \/ (f = sender.packet
            /\ f # NoAudioFrame)
      BY <1>2, <3>1, <3>5 DEF InFlight
    <3> QED
      BY <3>1, <3>3, <3>4, <3>5 DEF InFlight
  <2> QED
    BY <2>3, <2>4, <2>5, <2>6, <2>7 DEF Moved, AudioOrder
<1> QED
  BY <1>3, <1>4

(* The packet takes the place of an older one; a frame that Opus refuses is   *)
(* the newest that is owed no more.                                           *)
LEMMA EncodeStep == AudioInv /\ EncodeAndQueueFrame => Moved
<1> SUFFICES ASSUME AudioInv, EncodeAndQueueFrame PROVE Moved
  OBVIOUS
<1>1. AudioTypeOK /\ AudioHolding /\ AudioOrder /\ NewestThere
  BY DEF AudioInv
<1> DEFINE f == encoder.frame
<1>2. /\ ring' = ring /\ newest' = newest /\ caller' = caller
      /\ encoder'.frame = NoAudioFrame /\ sender'.packet = sender.packet
      /\ history'.sent = history.sent
  BY <1>1 DEF EncodeAndQueueFrame, EncoderOnly, AudioTypeOK, Encoders,
     Senders, Pasts, AudioWoken
<1>3. f \in AudioFrame /\ f # NoAudioFrame /\ f.no \in Nat /\ f.no > 0 /\ NoAudioFrame.no = 0
  BY <1>1, AudioNumbers, FramesAreNumbered DEF EncodeAndQueueFrame, AudioHolding
<1>4. /\ f.no > history.sent /\ f.no > sender.packet.no /\ f.no > history.settled
      /\ f.no <= newest
      /\ \A i \in 1 .. Len(packets) : f.no > packets[i].no
      /\ \A i \in 1 .. Len(ring) : ring[i].no > f.no
  BY <1>1, <1>3 DEF AudioOrder, EncodingOrder, RingOrder, NewestLast
<1>5. \/ packets' = <<f>> /\ history' = history
      \/ packets' = packets /\ history'.settled = f.no
  BY <1>1 DEF EncodeAndQueueFrame, AudioTypeOK, Pasts
<1> HIDE DEF f
<1>6. /\ newest \in Nat /\ history.settled \in Nat /\ history.sent \in Nat
      /\ sender.packet.no \in Nat
      /\ Numbered(ring) /\ Numbered(packets)
  BY <1>1, AudioNumbers
<1>7. \A i \in 1 .. Len(packets') :
          \/ packets' = <<f>> /\ packets'[i] = f
          \/ packets' = packets /\ packets'[i] = packets[i]
  <2>1. CASE packets' = <<f>>
    <3>1. \A i \in 1 .. Len(<<f>>) : <<f>>[i] = f
      OBVIOUS
    <3> QED
      BY <2>1, <3>1
  <2> QED
    BY <1>5, <2>1
<1>8. SendingOrder' /\ EncodingOrder'
  BY <1>1, <1>2 DEF AudioOrder, SendingOrder, EncodingOrder
<1>9. QueueOrder'
  BY <1>1, <1>2, <1>4, <1>7 DEF AudioOrder, QueueOrder
<1>10. RingOrder'
  <2>1. ASSUME NEW i \in 1 .. Len(ring)
        PROVE  /\ ring[i].no > 0 /\ ring[i].no > history'.settled
               /\ \A j \in 1 .. Len(packets') : ring[i].no > packets'[j].no
    <3>1. ring[i].no > 0 /\ ring[i].no > history'.settled
      BY <1>1, <1>4, <1>5, <1>6 DEF AudioOrder, RingOrder, Numbered
    <3>2. ASSUME NEW j \in 1 .. Len(packets') PROVE ring[i].no > packets'[j].no
      BY <1>1, <1>4, <1>7 DEF AudioOrder, RingOrder
    <3> QED
      BY <3>1, <3>2
  <2> QED
    BY <1>1, <1>2, <1>3, <2>1 DEF AudioOrder, RingOrder
<1>11. NewestLast'
  <2>1. ASSUME NEW i \in 1 .. Len(packets') PROVE packets'[i].no <= newest
    BY <1>1, <1>4, <1>7 DEF AudioOrder, NewestLast
  <2>2. history'.settled <= newest
    BY <1>1, <1>4, <1>5 DEF AudioOrder, NewestLast
  <2> QED
    BY <1>1, <1>2, <1>3, <1>6, <2>1, <2>2 DEF AudioOrder, NewestLast
<1>12. NewestThere'
  <2> SUFFICES ASSUME caller.pc \in {"starting", "capturing"},
                      newest > history'.settled, newest # history.sent
               PROVE  \E frame \in InFlight' : frame.no = newest
    BY <1>2 DEF NewestThere
  <2>1. CASE packets' = <<f>> /\ history' = history
    <3>1. f \in InFlight'
      <4>1. 1 \in DOMAIN <<f>> /\ <<f>>[1] = f
        OBVIOUS
      <4> QED
        BY <2>1, <4>1 DEF InFlight
    <3>2. PICK g \in InFlight : g.no = newest
      BY <1>1, <2>1 DEF NewestThere
    <3>3. ASSUME NEW i \in 1 .. Len(packets), g = packets[i] PROVE FALSE
      BY <1>4, <1>3, <1>6, <3>2, <3>3 DEF Numbered
    <3>4. g \in {ring[i] : i \in DOMAIN ring} \/ g = f
          \/ (g = sender.packet /\ g # NoAudioFrame)
      BY <1>1, <3>2, <3>3 DEF InFlight, AudioTypeOK, f
    <3> QED
      BY <1>2, <3>1, <3>2, <3>4 DEF InFlight
  <2>2. CASE packets' = packets /\ history'.settled = f.no
    <3>1. newest > f.no /\ newest > history.settled
      BY <1>3, <1>4, <1>6, <2>2
    <3>2. PICK g \in InFlight : g.no = newest
      BY <1>1, <3>1 DEF NewestThere
    <3>3. g # f
      BY <1>3, <1>6, <3>1, <3>2
    <3> QED
      BY <1>2, <2>2, <3>2, <3>3 DEF InFlight, f
  <2> QED
    BY <1>5, <2>1, <2>2
<1> QED
  BY <1>8, <1>9, <1>10, <1>11, <1>12 DEF Moved, AudioOrder

(* The sender takes the packet that waits, or throws it away when it is told  *)
(* to stop, which it is only after the capture.                               *)
LEMMA WaitStep == AudioInv /\ SenderWait => Moved
<1> SUFFICES ASSUME AudioInv, SenderWait PROVE Moved
  OBVIOUS
<1>1. AudioTypeOK /\ AudioHolding /\ AudioOrder /\ NewestThere
  BY DEF AudioInv
<1>2. /\ ring' = ring /\ encoder' = encoder /\ history' = history
      /\ caller' = caller /\ newest' = newest
      /\ packets' = <<>>
  BY DEF SenderWait, SenderOnly
<1>3. /\ newest \in Nat /\ sender.packet.no \in Nat /\ Numbered(packets)
  BY <1>1, AudioNumbers
<1>4. CASE sender.stop
  <2>1. sender'.packet = sender.packet
    BY <1>1, <1>4 DEF SenderWait, AudioTypeOK, Senders
  <2>2. AudioOrder'
    BY <1>1, <1>2, <2>1
       DEF AudioOrder, SendingOrder, QueueOrder, EncodingOrder, RingOrder, NewestLast
  <2>3. NewestThere'
    BY <1>1, <1>2, <1>4 DEF AudioHolding, NewestThere
  <2> QED
    BY <2>2, <2>3 DEF Moved
<1>5. CASE ~sender.stop /\ packets = <<>>
  <2>1. Unmoved
    BY <1>1, <1>2, <1>5 DEF SenderWait, Unmoved, AudioTypeOK, Senders
  <2> QED
    BY <2>1, UnmovedStep
<1>6. CASE ~sender.stop /\ packets # <<>>
  <2>1. /\ 1 \in 1 .. Len(packets) /\ Head(packets) = packets[1]
        /\ packets[1] \in AudioFrame
        /\ \A i \in 1 .. Len(packets) : i = 1
    BY <1>1, <1>6 DEF AudioTypeOK
  <2>2. sender'.packet = packets[1]
    <3>1. sender \in Senders
      BY <1>1 DEF AudioTypeOK
    <3> QED
      BY <1>6, <2>1, <3>1 DEF SenderWait, Senders
  <2>3. SendingOrder' /\ QueueOrder' /\ EncodingOrder'
    BY <1>1, <1>2, <2>1, <2>2 DEF AudioOrder, SendingOrder, QueueOrder, EncodingOrder
  <2>4. RingOrder' /\ NewestLast'
    BY <1>1, <1>2, <2>1, <2>2 DEF AudioOrder, RingOrder, NewestLast
  <2>5. NewestThere'
    <3> SUFFICES ASSUME caller.pc \in {"starting", "capturing"},
                        newest > history.settled, newest # history.sent
                 PROVE  \E frame \in InFlight' : frame.no = newest
      BY <1>2 DEF NewestThere
    <3>1. PICK f \in InFlight : f.no = newest
      BY <1>1 DEF NewestThere
    <3>2. packets[1] \in InFlight'
      BY <2>1, <2>2, FramesAreNumbered DEF InFlight
    <3>3. CASE f \in {packets[i] : i \in DOMAIN packets}
      BY <1>1, <2>1, <3>1, <3>2, <3>3 DEF AudioTypeOK
    <3>4. CASE f = sender.packet /\ f # NoAudioFrame
      BY <1>1, <1>3, <2>1, <3>1, <3>4 DEF AudioOrder, QueueOrder, NewestLast, Numbered
    <3>5. CASE f \in {ring[i] : i \in DOMAIN ring} \/ (f = encoder.frame /\ f # NoAudioFrame)
      BY <1>2, <3>1, <3>5 DEF InFlight
    <3> QED
      BY <3>1, <3>3, <3>4, <3>5 DEF InFlight
  <2> QED
    BY <2>3, <2>4, <2>5 DEF Moved, AudioOrder
<1> QED
  BY <1>4, <1>5, <1>6

LEMMA SendStep ==
  AudioInv /\ SendPacket
    => Moved /\ history'.sent > history.sent
<1> SUFFICES ASSUME AudioInv, SendPacket
             PROVE  Moved /\ history'.sent > history.sent
  OBVIOUS
<1>1. AudioTypeOK /\ AudioHolding /\ AudioOrder /\ NewestThere
  BY DEF AudioInv
<1> DEFINE f == sender.packet
<1>2. /\ ring' = ring /\ encoder' = encoder /\ packets' = packets
      /\ caller' = caller /\ newest' = newest
      /\ history'.sent = f.no /\ history'.settled = history.settled
      /\ sender'.packet = NoAudioFrame
  BY <1>1 DEF SendPacket, SenderOnly, AudioTypeOK, Pasts, Senders
<1>3. f \in AudioFrame /\ f # NoAudioFrame /\ f.no \in Nat \ {0} /\ NoAudioFrame.no = 0
  BY <1>1, FramesAreNumbered DEF SendPacket, AudioHolding
<1>4. f.no > history.sent /\ f.no <= newest
  BY <1>1, <1>3 DEF AudioOrder, SendingOrder, NewestLast
<1>5. newest \in Nat /\ encoder.frame.no \in Nat /\ Numbered(ring) /\ Numbered(packets)
  BY <1>1, AudioNumbers
<1>6. QueueOrder'
  BY <1>1, <1>2, <1>3, <1>5 DEF AudioOrder, QueueOrder, Numbered
<1>7. SendingOrder' /\ EncodingOrder'
  BY <1>1, <1>2, <1>3, <1>5 DEF AudioOrder, SendingOrder, EncodingOrder
<1>8. RingOrder'
  BY <1>1, <1>2, <1>3, <1>5 DEF AudioOrder, RingOrder, Numbered
<1>9. NewestLast'
  BY <1>1, <1>2, <1>3, <1>4, <1>5 DEF AudioOrder, NewestLast
<1>10. NewestThere'
  <2> SUFFICES ASSUME caller.pc \in {"starting", "capturing"},
                      newest > history.settled, newest # f.no
               PROVE  \E frame \in InFlight' : frame.no = newest
    BY <1>2 DEF NewestThere
  <2>1. newest # history.sent
    BY <1>1, <1>3, <1>4, <1>5, AudioNumbers
  <2>2. PICK g \in InFlight : g.no = newest
    BY <1>1, <2>1 DEF NewestThere
  <2>3. g # f
    BY <2>2
  <2> QED
    BY <1>2, <2>2, <2>3 DEF InFlight
<1> QED
  BY <1>2, <1>4, <1>6, <1>7, <1>8, <1>9, <1>10 DEF Moved, AudioOrder

LEMMA AudioInvStep ==
  AudioInv /\ [AudioNext]_audioVars => AudioInv'
<1> SUFFICES ASSUME AudioInv, [AudioNext]_audioVars PROVE AudioInv'
  OBVIOUS
<1>1. AudioTypeOK' /\ AudioHolding'
  BY Typed, HoldingStep DEF AudioInv
<1>2. Moved
  BY Moves, UnmovedStep, StartStep, ProcessStep, PopStep, EncodeStep, WaitStep, SendStep
     DEF AudioInv
<1> QED
  BY <1>1, <1>2 DEF AudioInv, Moved

-----------------------------------------------------------------------------
(* The buffers stay within their bounds, no error count or device counter   *)
(* passes its limit, and the threads stay in their states.                  *)
THEOREM AudioTypeCorrect == AudioSpec => []AudioTypeOK
<1>1. AudioInv => AudioTypeOK
  BY DEF AudioInv
<1> QED
  BY <1>1, InitAudioInv, AudioInvStep, PTL DEF AudioSpec

(* Whatever is overwritten in the ring or the queue, the newest frame of a  *)
(* running capture is on its way or was sent.                               *)
THEOREM NewestFrameSurvives == AudioSpec => []NewestSurvives
<1>1. AudioInv => NewestSurvives
  BY DEF AudioInv, NewestThere, NewestSurvives
<1> QED
  BY <1>1, InitAudioInv, AudioInvStep, PTL DEF AudioSpec

(* Packets are sent in the order of their frames, also those that a stop    *)
(* left in the queue for the next capture.                                  *)
THEOREM PacketsLeaveInOrder == AudioSpec => SentInOrder
<1> DEFINE Later == history'.sent # history.sent => history'.sent > history.sent
<1>1. ASSUME AudioInv, [AudioNext]_audioVars PROVE [Later]_audioVars
  <2>1. AudioTypeOK
    BY <1>1 DEF AudioInv
  <2>2. CASE SendPacket
    BY <1>1, <2>2, SendStep
  <2>3. CASE ~SendPacket
    <3>1. history'.sent = history.sent
      BY <1>1, <2>1, <2>3, Moves
         DEF Unmoved, StartAudio, ProcessAudioFrame, EncoderPop,
           EncodeAndQueueFrame, SenderWait, AudioTypeOK, Pasts
    <3> QED
      BY <3>1
  <2> QED
    BY <2>2, <2>3
<1> HIDE DEF Later
<1>2. AudioSpec => [][Later]_audioVars
  BY <1>1, InitAudioInv, AudioInvStep, PTL DEF AudioSpec
<1> QED
  BY <1>2 DEF Later, SentInOrder

=============================================================================
