----------------------------- MODULE PeerMedia -----------------------------
(***************************************************************************)
(* Video through the Go side of the host (gortc_main/main.go): the encoder *)
(* thread in sendVideoSample, the sender goroutine behind the two-sample   *)
(* queue, and the replacement and closing of the peer connection (see      *)
(* PeerConnection), which runs beside the other two.                       *)
(*                                                                         *)
(* A step is one critical section of pcMutex, one atomic operation or one  *)
(* operation on the queue channel.                                         *)
(***************************************************************************)
EXTENDS PeerConnection, FiniteSets

CONSTANTS
    QueueCap,   \* capacity of videoSendQueue, 2 in the code
    MaxFrames   \* bound: frames the encoder hands over

ASSUME PeerMediaAssumption == QueueCap \in Nat \ {0} /\ MaxFrames \in Nat

VARIABLES
    track,      \* videoTrack: the peer it was added to, 0 if nil
    queue,      \* videoSendQueue
    pending,    \* videoPendingDrops
    frames,     \* frames handed over so far
    producer,   \* the frame in sendVideoSample
    sender,     \* the frame in videoSenderGoroutine
    accepted,   \* accepted[g]: frames taken while g was the connected peer
    shown       \* shown[g]: frame durations the track of g has advanced by

countVars == <<accepted, shown>>
videoVars == <<queue, pending, frames, producer, sender, countVars>>
vars == <<connVars, track, videoVars>>

(* prev: PrevDroppedPackets, the durations of the frames dropped before it.*)
Frames == [n : 1 .. MaxFrames, key : BOOLEAN, prev : Nat, gen : Gens]
Idle == [at |-> "idle"]
Producing == [at : {"swap", "stamp", "push", "evict", "putBack", "replace"},
              frame : Frames, oldest : Frames \cup {Idle}]
Sending == [at : {"judge", "write"}, frame : Frames]

TypeOK ==
    /\ ConnTypeOK
    /\ track \in Gens
    /\ queue \in Seq(Frames) /\ Len(queue) <= QueueCap
    /\ pending \in Nat
    /\ frames \in 0 .. MaxFrames
    /\ producer = Idle \/ producer \in Producing
    /\ sender = Idle \/ sender \in Sending
    /\ accepted \in [Gens -> Nat]
    /\ shown \in [Gens -> Nat]

Init ==
    /\ ConnInit
    /\ track = 0
    /\ queue = <<>> /\ pending = 0 /\ frames = 0
    /\ producer = Idle /\ sender = Idle
    /\ accepted = [g \in Gens |-> 0]
    /\ shown = [g \in Gens |-> 0]

-----------------------------------------------------------------------------
BeginCreate == gen < MaxGen /\ BeginCreateConn /\ track' = 0 /\ UNCHANGED videoVars
BeginClose == gen < MaxGen /\ BeginCloseConn /\ track' = 0 /\ UNCHANGED videoVars
CloseOld == CloseOldConn /\ UNCHANGED <<track, videoVars>>
Bump == BumpConn /\ UNCHANGED <<track, videoVars>>

Forget ==
    /\ PassConn("forget")
    /\ pending' = 0
    /\ UNCHANGED <<track, queue, frames, producer, sender, countVars>>

(* discardQueuedMedia takes frames until it finds the queue empty.         *)
Discard ==
    /\ IF queue # <<>> THEN At("video") /\ queue' = Tail(queue) /\ UNCHANGED connVars
       ELSE PassConn("video") /\ UNCHANGED queue
    /\ UNCHANGED <<track, pending, frames, producer, sender, countVars>>

(* What is done to audio is of no concern to video.                        *)
AudioStage ==
    /\ \E stage \in {"audio", "reset", "resetTime", "unset", "clear"} : PassConn(stage)
    /\ UNCHANGED <<track, videoVars>>

Install == InstallConn /\ track' = gen /\ UNCHANGED videoVars

(* If it is AddTrack that fails, videoTrack stays.                         *)
InstallFails == InstallFailsConn /\ track' \in {0, gen} /\ UNCHANGED videoVars

WireChanges(g) == WireChangesConn(g) /\ UNCHANGED <<track, videoVars>>
StateChanges(g) == StateChangesConn(g) /\ UNCHANGED <<track, videoVars>>

-----------------------------------------------------------------------------
(* sendVideoSample.                                                        *)
Full == Len(queue) >= QueueCap
p == producer.frame

(* Only a connected peer is given the frame.                               *)
Offer ==
    /\ producer = Idle /\ frames < MaxFrames
    /\ peer # 0 /\ track # 0 /\ state = "connected"
    /\ frames' = frames + 1
    /\ accepted' = [accepted EXCEPT ![peer] = @ + 1]
    /\ \E key \in BOOLEAN :
          producer' = [at |-> "swap", oldest |-> Idle,
                       frame |-> [n |-> frames + 1, key |-> key, prev |-> 0, gen |-> 0]]
    /\ UNCHANGED <<connVars, track, queue, pending, sender, shown>>

Swap ==
    /\ producer.at = "swap"
    /\ producer' = [producer EXCEPT !.at = "stamp", !.frame.prev = pending]
    /\ pending' = 0
    /\ UNCHANGED <<connVars, track, queue, frames, sender, countVars>>

Stamp ==
    /\ producer.at = "stamp"
    /\ producer' = [producer EXCEPT !.at = "push", !.frame.gen = gen]
    /\ UNCHANGED <<connVars, track, queue, pending, frames, sender, countVars>>

Push ==
    /\ producer.at = "push"
    /\ IF Full THEN producer' = [producer EXCEPT !.at = "evict"] /\ UNCHANGED queue
       ELSE queue' = Append(queue, p) /\ producer' = Idle
    /\ UNCHANGED <<connVars, track, pending, frames, sender, countVars>>

(* addPendingVideoDrops for a frame that is given up.                      *)
GiveUp == pending' = pending + p.prev + 1 /\ producer' = Idle

(* Mutant: the duration of a replaced frame is not carried over.           *)
ReplacingForgotten(oldest) ==
    producer' = [producer EXCEPT !.at = "replace", !.oldest = Idle]

(* The incoming frame takes over the duration of the one it replaces.      *)
Replacing(oldest) ==
    producer' = [producer EXCEPT !.at = "replace", !.oldest = Idle,
                                 !.frame.prev = @ + oldest.prev + 1]

(* Mutant: a keyframe is replaced like any other frame.                    *)
EvictAny ==
    /\ producer.at = "evict"
    /\ IF queue = <<>> THEN GiveUp /\ UNCHANGED queue
       ELSE queue' = Tail(queue) /\ Replacing(Head(queue)) /\ UNCHANGED pending
    /\ UNCHANGED <<connVars, track, frames, sender, countVars>>

(* The oldest frame is taken out of the full queue, unless the sender has  *)
(* emptied it.  A keyframe is put back rather than replaced by a delta.    *)
Evict ==
    /\ producer.at = "evict"
    /\ IF queue = <<>> THEN GiveUp /\ UNCHANGED queue
       ELSE /\ queue' = Tail(queue)
            /\ IF Head(queue).key /\ ~p.key
               THEN producer' = [producer EXCEPT !.at = "putBack", !.oldest = Head(queue)]
               ELSE Replacing(Head(queue))
            /\ UNCHANGED pending
    /\ UNCHANGED <<connVars, track, frames, sender, countVars>>

PutBack ==
    /\ producer.at = "putBack"
    /\ IF Full THEN Replacing(producer.oldest) /\ UNCHANGED <<queue, pending>>
       ELSE queue' = Append(queue, producer.oldest) /\ GiveUp
    /\ UNCHANGED <<connVars, track, frames, sender, countVars>>

Replace ==
    /\ producer.at = "replace"
    /\ IF Full THEN GiveUp /\ UNCHANGED queue
       ELSE queue' = Append(queue, p) /\ producer' = Idle /\ UNCHANGED pending
    /\ UNCHANGED <<connVars, track, frames, sender, countVars>>

-----------------------------------------------------------------------------
(* videoSenderGoroutine.                                                   *)
Pop ==
    /\ sender = Idle /\ queue # <<>>
    /\ sender' = [at |-> "judge", frame |-> Head(queue)]
    /\ queue' = Tail(queue)
    /\ UNCHANGED <<connVars, track, pending, frames, producer, countVars>>

(* A frame of another generation is dropped; then comes the pacing wait.   *)
Judge ==
    /\ sender.at = "judge"
    /\ sender' = IF sender.frame.gen # gen THEN Idle ELSE [sender EXCEPT !.at = "write"]
    /\ UNCHANGED <<connVars, track, queue, pending, frames, producer, countVars>>

(* WriteSample to the track there is after the wait, if any.               *)
Write ==
    /\ sender.at = "write"
    /\ shown' = IF track = 0 THEN shown
                ELSE [shown EXCEPT ![track] = @ + sender.frame.prev + 1]
    /\ sender' = Idle
    /\ UNCHANGED <<connVars, track, queue, pending, frames, producer, accepted>>

-----------------------------------------------------------------------------
Lifecycle == BeginCreate \/ BeginClose \/ CloseOld \/ Bump \/ Forget \/ Discard
             \/ AudioStage \/ Install \/ InstallFails
Encode == Offer \/ Swap \/ Stamp \/ Push \/ Evict \/ PutBack \/ Replace
SendOut == Pop \/ Judge \/ Write

Next == Lifecycle \/ Encode \/ SendOut \/ \E g \in Gens : WireChanges(g) \/ StateChanges(g)

Spec == Init /\ [][Next]_vars

-----------------------------------------------------------------------------
(* The durations a frame stands for: its own, and those of the frames that *)
(* were dropped before it.  A queue holds those of its frames.             *)
Units(f) == f.prev + 1
UnitsIn(q) == Cardinality(UNION {{i} \X (0 .. q[i].prev) : i \in DOMAIN q})
InProducer == IF producer = Idle THEN 0
              ELSE Units(p) + (IF producer.oldest = Idle THEN 0 ELSE Units(producer.oldest))
InSender == IF sender = Idle THEN 0 ELSE Units(sender.frame)

(* README: the duration of a dropped frame is carried into the next one.   *)
(* No frame taken for the peer there is has dropped out of its timeline:   *)
(* it was written, or its duration is with a frame still to be written or  *)
(* among the pending drops.                                                *)
NoDropForgotten ==
    peer # 0 => accepted[peer] <= shown[peer] + InSender + UnitsIn(queue) + InProducer + pending

(* The frames the queue holds, and those the encoder thread has taken out  *)
(* of it or is about to put there in their place.                          *)
Queued == {queue[i] : i \in 1 .. Len(queue)}
Held == Queued \cup (IF producer = Idle THEN {} ELSE {producer.oldest} \ {Idle})
               \cup (IF producer.at = "replace" THEN {p} ELSE {})
Keyframes == {f.n : f \in {f \in Held : f.key}}

(* "An IDR is the decoder's recovery point": while the peer stays, a       *)
(* keyframe in the queue leaves it towards the track or for a later        *)
(* keyframe, whatever the sender takes out meanwhile.                      *)
KeyframeSurvives ==
    [][peer # 0 /\ sender' = sender => \A k \in Keyframes : \E m \in Keyframes' : m >= k]_vars

(* README: packets of an old peer are prevented from reaching a new        *)
(* session.  A frame is written only to the track of its own generation.   *)
OwnTrackOnly ==
    [][sender # Idle /\ sender' = Idle /\ sender.at = "write" => track \in {0, sender.frame.gen}]_vars

(* README: the receiver timeline remains correct when frames are dropped.  *)
(* No frame is written while an earlier one of its generation still waits: *)
(* its place on the timeline would be after the later frame.               *)
TimelineInOrder ==
    [][sender # Idle /\ sender' = Idle /\ sender.at = "write" =>
        \A f \in Queued : f.gen = sender.frame.gen => f.n > sender.frame.n]_vars
=============================================================================
