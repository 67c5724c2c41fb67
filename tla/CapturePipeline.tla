--------------------------- MODULE CapturePipeline ---------------------------
(***************************************************************************)
(* The video capture of the host (src/Host/CaptureHelpers.cpp), from the   *)
(* callbacks of Windows Graphics Capture to the thread that encodes.  A    *)
(* callback copies a frame into a texture of its own pool and queues it,   *)
(* giving up the oldest frame when there is no room; the consumer takes    *)
(* the newest and returns its texture.  The runtime thread starts and      *)
(* stops both.                                                             *)
(*                                                                         *)
(* A frame is its number and the size of its texture; the textures of the  *)
(* pool are counted by size.  Callbacks may run on several threads and are *)
(* serialised by g_callbackMutex.  isCapturing is cleared without the      *)
(* mutex of the queue, so the test of the consumer's wait and its falling  *)
(* asleep, both under that mutex, are two steps.                           *)
(***************************************************************************)
EXTENDS Naturals, Sequences, FiniteSets, FiniteSetsExt

CONSTANTS
    Callbacks,     \* threads of the frame pool
    Sizes,         \* sizes of the captured window
    MaxQueued,     \* g_maxQueuedFrames
    CopyPoolSize,  \* g_copyPoolSize as configured (clamped to 2..32)
    MaxFrames,     \* bound on the frames of a capture
    MaxResizes,    \* bound on changes of the window's size
    MaxCaptures    \* bound on calls of StartCapture

ASSUME CaptureAssumption ==
    /\ MaxQueued \in Nat \ {0} /\ CopyPoolSize \in Nat \ {0, 1}
    /\ {MaxFrames, MaxResizes, MaxCaptures} \subseteq Nat
    /\ IsFiniteSet(Sizes)
    /\ "none" \notin Callbacks \cup Sizes

VARIABLES
    runtime,     \* the runtime thread: between captures, capturing, or where StopCapture is
    isCapturing,
    window,      \* [size, pool, resizes]: size of the window and of the frame pool's surfaces
    arrived,     \* frames of this capture delivered so far
    mutex,       \* g_callbackMutex: its holder
    callback,    \* [Callbacks -> [pc, frame, resize]]
    queue,       \* g_frameQueue
    free,        \* [Sizes -> Nat]: g_freeTextures
    allocated,   \* g_allocatedTextures
    consumer,    \* [pc, frame]: the encoding thread
    past         \* [captures, encoded]: history: captures so far, and the last frame that
                 \* the consumer is done with

vars == <<runtime, isCapturing, window, arrived, mutex, callback, queue, free, allocated,
          consumer, past>>

None == "none"
Frame == [no: 1..MaxFrames, size: Sizes]
NoFrame == [no |-> 0, size |-> None]
Resting == [pc |-> "idle", frame |-> NoFrame, resize |-> None]

Nothing == [s \in Sizes |-> 0]

\* The textures of a count by size: the first, the second, ... of each size.
Textures(count) == UNION {{s} \X (1..count[s]) : s \in Sizes}
InPool == Cardinality(Textures(free))

\* StartCapture keeps one texture outside the queue.
PoolSize == Max({CopyPoolSize, MaxQueued + 1})

TypeOK ==
    /\ runtime \in {"idle", "capturing", "flagged", "synchronised", "joining", "joined"}
    /\ isCapturing \in BOOLEAN
    /\ window \in [size: Sizes, pool: Sizes, resizes: 0..MaxResizes]
    /\ arrived \in 0..MaxFrames
    /\ mutex \in Callbacks \cup {None}
    /\ callback \in [Callbacks -> [pc: {"idle", "entered", "acquire", "copy"},
                                   frame: Frame \cup {NoFrame},
                                   resize: Sizes \cup {None}]]
    /\ queue \in Seq(Frame) /\ Len(queue) <= MaxQueued
    /\ free \in [Sizes -> 0..PoolSize]
    /\ allocated \in 0..PoolSize
    /\ consumer \in [pc: {None, "wait", "dozing", "asleep", "encode", "ended"},
                     frame: Frame \cup {NoFrame}]
    /\ past \in [captures: 0..MaxCaptures, encoded: 0..MaxFrames]

Init ==
    /\ runtime = "idle" /\ isCapturing = FALSE
    /\ \E s \in Sizes : window = [size |-> s, pool |-> s, resizes |-> 0]
    /\ arrived = 0
    /\ mutex = None /\ callback = [c \in Callbacks |-> Resting]
    /\ queue = <<>> /\ free = Nothing /\ allocated = 0
    /\ consumer = [pc |-> None, frame |-> NoFrame]
    /\ past = [captures |-> 0, encoded |-> 0]

----------------------------------------------------------------------------
(* The runtime thread and the window. *)

\* InitializeCapture creates a pool of the window's size; StartCapture empties
\* the queue and the pool and starts the consumer.
StartCapture ==
    /\ runtime = "idle" /\ past.captures < MaxCaptures
    /\ runtime' = "capturing"
    /\ isCapturing' = TRUE
    /\ window' = [window EXCEPT !.pool = window.size]
    /\ arrived' = 0
    /\ queue' = <<>> /\ free' = Nothing /\ allocated' = 0
    /\ consumer' = [pc |-> "wait", frame |-> NoFrame]
    /\ past' = [captures |-> past.captures + 1, encoded |-> 0]
    /\ UNCHANGED <<mutex, callback>>

\* The event is revoked and the flag cleared; a callback may still be running.
StopCapture ==
    /\ runtime = "capturing"
    /\ runtime' = "flagged"
    /\ isCapturing' = FALSE
    /\ UNCHANGED <<window, arrived, mutex, callback, queue, free, allocated, consumer, past>>

\* The callback mutex is taken and released.
CallbackIgnored == TRUE

CallbackReturned == mutex = None

WaitForCallback ==
    /\ runtime = "flagged" /\ CallbackReturned
    /\ runtime' = "synchronised"
    /\ UNCHANGED <<isCapturing, window, arrived, mutex, callback, queue, free, allocated, consumer, past>>

Woken(pc) == IF pc = "asleep" THEN "wait" ELSE pc

\* notify_all, without the mutex of the queue.
NotifyConsumer ==
    /\ runtime = "synchronised"
    /\ runtime' = "joining"
    /\ consumer' = [consumer EXCEPT !.pc = Woken(@)]
    /\ UNCHANGED <<isCapturing, window, arrived, mutex, callback, queue, free, allocated, past>>

JoinConsumer ==
    /\ runtime = "joining" /\ consumer.pc = "ended"
    /\ runtime' = "joined"
    /\ consumer' = [consumer EXCEPT !.pc = None]
    /\ UNCHANGED <<isCapturing, window, arrived, mutex, callback, queue, free, allocated, past>>

\* The textures are released, the frame pool closed and the encoder finalized.
Release ==
    /\ runtime = "joined"
    /\ runtime' = "idle"
    /\ queue' = <<>> /\ free' = Nothing /\ allocated' = 0
    /\ UNCHANGED <<isCapturing, window, arrived, mutex, callback, consumer, past>>

Resize(s) ==
    /\ s # window.size /\ window.resizes < MaxResizes
    /\ window' = [window EXCEPT !.size = s, !.resizes = @ + 1]
    /\ UNCHANGED <<runtime, isCapturing, arrived, mutex, callback, queue, free, allocated, consumer, past>>

----------------------------------------------------------------------------
(* The callback FrameArrived on thread c. *)

\* Only the mutex serialises the callbacks.
MutexIgnored == TRUE

MutexFree == mutex = None

\* A callback that is late finds the flag cleared and leaves.
Enter(c) ==
    /\ callback[c].pc = "idle" /\ MutexFree
    /\ isCapturing
    /\ mutex' = c
    /\ callback' = [callback EXCEPT ![c].pc = "entered"]
    /\ UNCHANGED <<runtime, isCapturing, window, arrived, queue, free, allocated, consumer, past>>

\* The next frame; its surface has the pool's size, its content the window's.  A
\* frame that the pacing skips changes nothing and is not told apart.
NextFrame(c) ==
    /\ callback[c].pc = "entered" /\ isCapturing
    /\ arrived < MaxFrames
    /\ arrived' = arrived + 1
    /\ callback' = [callback EXCEPT ![c] =
           [pc |-> "acquire",
            frame |-> [no |-> arrived + 1, size |-> window.pool],
            resize |-> IF window.size # window.pool THEN window.size ELSE @.resize]]
    /\ UNCHANGED <<runtime, isCapturing, window, mutex, queue, free, allocated, consumer, past>>

\* The mutex of the queue, which the consumer holds from its test until it sleeps.
QueueFreeAlways == TRUE

QueueFree == consumer.pc # "dozing"

\* AcquireCopyTextureLocked takes a free texture of the size.  If there is none it
\* drops the free textures of other sizes, takes that of the oldest queued frame
\* if the pool is exhausted, and, unless that one fits, creates one.
KeptAll(size) == allocated

Kept(size) == IF free[size] > 0 THEN allocated ELSE allocated - InPool
Reclaims(size) == free[size] = 0 /\ Kept(size) >= PoolSize /\ queue # <<>>
Fits(size) == free[size] > 0 \/ (Reclaims(size) /\ queue[1].size = size)
Left(size) == IF Reclaims(size) /\ ~Fits(size) THEN Kept(size) - 1 ELSE Kept(size)

AcquireCopyTexture(c) ==
    LET size == callback[c].frame.size IN
    /\ callback[c].pc = "acquire" /\ QueueFree
    /\ free' = IF free[size] > 0 THEN [free EXCEPT ![size] = @ - 1] ELSE Nothing
    /\ queue' = IF Reclaims(size) THEN Tail(queue) ELSE queue
    /\ \/ /\ Fits(size) \/ Left(size) < PoolSize
          /\ allocated' = IF Fits(size) THEN Left(size) ELSE Left(size) + 1
          /\ callback' = [callback EXCEPT ![c].pc = "copy"]
       \/ /\ ~Fits(size)
          /\ allocated' = Left(size)
          /\ callback' = [callback EXCEPT ![c].pc = "entered", ![c].frame = NoFrame]
    /\ UNCHANGED <<runtime, isCapturing, window, arrived, mutex, consumer, past>>

\* The copy is made and queued; the oldest frame gives way, its texture is free
\* again, and the consumer is woken.
QueueFrame(c) ==
    /\ callback[c].pc = "copy" /\ QueueFree
    /\ IF Len(queue) >= MaxQueued
       THEN /\ queue' = Append(Tail(queue), callback[c].frame)
            /\ free' = [free EXCEPT ![queue[1].size] = @ + 1]
       ELSE queue' = Append(queue, callback[c].frame) /\ UNCHANGED free
    /\ callback' = [callback EXCEPT ![c].pc = "entered", ![c].frame = NoFrame]
    /\ consumer' = [consumer EXCEPT !.pc = Woken(@)]
    /\ UNCHANGED <<runtime, isCapturing, window, arrived, mutex, allocated, past>>

\* There is no further frame, or the capture stops; the frame pool is recreated
\* in the size that a frame had, unless the capture stops.
Leave(c) ==
    /\ callback[c].pc = "entered"
    /\ window' = IF callback[c].resize # None /\ isCapturing
                 THEN [window EXCEPT !.pool = callback[c].resize] ELSE window
    /\ callback' = [callback EXCEPT ![c] = Resting]
    /\ mutex' = None
    /\ UNCHANGED <<runtime, isCapturing, arrived, queue, free, allocated, consumer, past>>

FrameArrived(c) ==
    \/ Enter(c) \/ NextFrame(c) \/ AcquireCopyTexture(c) \/ QueueFrame(c) \/ Leave(c)

----------------------------------------------------------------------------
(* The consumer. *)

ConsumerOnly == UNCHANGED <<runtime, isCapturing, window, arrived, mutex, callback, allocated>>

\* The wait's predicate and what follows it, under the mutex of the queue: the
\* newest frame is taken, the textures of the others are free again.
TakeNewest ==
    /\ consumer.pc = "wait" /\ queue # <<>>
    /\ consumer' = [pc |-> "encode", frame |-> queue[Len(queue)]]
    /\ free' = [s \in Sizes |->
           free[s] + Cardinality({i \in 1..Len(queue) - 1 : queue[i].size = s})]
    /\ queue' = <<>>
    /\ UNCHANGED past /\ ConsumerOnly

NothingQueued ==
    /\ consumer.pc = "wait" /\ queue = <<>>
    /\ consumer' = [consumer EXCEPT !.pc = IF isCapturing THEN "dozing" ELSE "ended"]
    /\ UNCHANGED <<queue, free, past>> /\ ConsumerOnly

ConsumerSleeps ==
    /\ consumer.pc = "dozing"
    /\ consumer' = [consumer EXCEPT !.pc = "asleep"]
    /\ UNCHANGED <<queue, free, past>> /\ ConsumerOnly

\* The frame is encoded, or skipped because it is late or not wanted; either way
\* its texture is recycled.
EncodeFrameLeaks ==
    /\ consumer.pc = "encode"
    /\ consumer' = [pc |-> "wait", frame |-> NoFrame]
    /\ past' = [past EXCEPT !.encoded = consumer.frame.no]
    /\ UNCHANGED <<queue, free>> /\ ConsumerOnly

EncodeFrame ==
    /\ consumer.pc = "encode"
    /\ consumer' = [pc |-> "wait", frame |-> NoFrame]
    /\ free' = [free EXCEPT ![consumer.frame.size] = @ + 1]
    /\ past' = [past EXCEPT !.encoded = consumer.frame.no]
    /\ UNCHANGED queue /\ ConsumerOnly

Consumer == TakeNewest \/ NothingQueued \/ ConsumerSleeps \/ EncodeFrame

----------------------------------------------------------------------------
Runtime ==
    \/ StartCapture \/ StopCapture \/ WaitForCallback \/ NotifyConsumer
    \/ JoinConsumer \/ Release

Next ==
    \/ Runtime \/ Consumer
    \/ \E s \in Sizes : Resize(s)
    \/ \E c \in Callbacks : FrameArrived(c)

Spec == Init /\ [][Next]_vars

\* The consumer and a callback that has begun are scheduled, and a stop that has
\* begun proceeds; no frame need arrive.
FairSpec ==
    /\ Spec
    /\ WF_vars(Consumer)
    /\ WF_vars(WaitForCallback \/ NotifyConsumer \/ JoinConsumer \/ Release)
    /\ \A c \in Callbacks : WF_vars(AcquireCopyTexture(c) \/ QueueFrame(c) \/ Leave(c))

----------------------------------------------------------------------------
(* Every texture that the pool counts is free, queued, being copied into or being
   encoded: none leaks, across overwrites, size changes, skips and restarts
   (ReturnTextureLocked, AcquireCopyTextureLocked). *)
Copying == {c \in Callbacks : callback[c].pc = "copy"}

PoolAccounted ==
    runtime # "idle" =>
        allocated = InPool + Len(queue) + Cardinality(Copying)
                    + (IF consumer.pc = "encode" THEN 1 ELSE 0)

(* A new frame always finds a texture: however slow the encoder, and also when the
   size changes, the pool is not exhausted by what is not queued (README.md:86-91). *)
TextureAvailable ==
    \A c \in Callbacks : callback[c].pc = "acquire" =>
        Fits(callback[c].frame.size) \/ Left(callback[c].frame.size) < PoolSize

(* The encoder sees the frames of a capture in the order in which they arrived,
   whichever threads delivered them (g_callbackMutex). *)
EncodedInOrder ==
    [][past'.captures = past.captures /\ past'.encoded # past.encoded
        => past'.encoded > past.encoded]_vars

(* No callback is at work while or after the textures are released and the frame
   pool is closed (StopCapture; README.md:92-93). *)
ReleasedUndisturbed ==
    runtime \in {"joined", "idle"} => \A c \in Callbacks : callback[c] = Resting

(* No frame is left in the queue while the consumer sleeps, also when no further
   frame comes to wake it. *)
EveryFrameTaken == []<>(queue = <<>> \/ runtime = "idle")

(* A stop ends (README.md:124-125: the shutdown terminates background workers). *)
StopReturns == runtime = "flagged" ~> runtime = "idle"
=============================================================================
