----------------------------- MODULE PeerAudio -----------------------------
(***************************************************************************)
(* Audio through the Go side of the host (gortc_main/main.go): the capture *)
(* thread in sendAudioPacket, the buffer that fills while the peer is      *)
(* connecting, its flush by the state callbacks, the sender goroutine      *)
(* behind the queue, and the start and stop of the media runtime.          *)
(*                                                                         *)
(* A time is counted in frames of 10 ms.  The state of RTP is read and     *)
(* written without a lock, except that Reset and SetBaseline exclude each  *)
(* other; it wraps at TimeWrap, 2^32 in the code.                          *)
(***************************************************************************)
EXTENDS PeerConnection, Integers, FiniteSets

CONSTANTS
    QueueCap,    \* capacity of audioSendQueue, 3 in the code
    BufferCap,   \* maxAudioBufferSize, 3 in the code
    TimeWrap,    \* a timestamp is a number below
    FirstPts,    \* the capture clock at the first packet
    Gaps,        \* bound: by how much the clock may advance from one packet to the next
    MaxPackets,  \* bound: packets the capture thread hands over
    MaxRuns      \* bound: starts of the media runtime

ASSUME PeerAudioAssumption ==
    /\ QueueCap \in Nat \ {0} /\ BufferCap \in Nat \ {0}
    /\ TimeWrap \in Nat \ {0, 1}
    /\ FirstPts \in Nat /\ Gaps \subseteq Nat /\ MaxPackets \in Nat /\ MaxRuns \in Nat \ {0}

VARIABLES
    track,    \* audioTrack: the peer it was added to, 0 if nil
    runtime,  \* [on, halting, run]: mediaRuntimeRunning, closeGo at work, starts so far
    rtp,      \* audioRTPState
    clock,    \* the capture clock
    packets,  \* packets handed over so far
    producer, \* the packet in sendAudioPacket
    buffer,   \* audioConnectionBuffer
    flush,    \* flush[g]: the packets flushAudioConnectionBuffer has in hand, for g's callback
    enqueue,  \* enqueue[w]: how far w is in enqueueLatestAudioPacket
    queue,    \* audioSendQueue
    sender,   \* the packet in audioSenderGoroutine
    newest    \* the last packet numbered for the peer there is

audioVars == <<rtp, clock, packets, producer, buffer, flush, enqueue, queue, sender, newest>>
vars == <<connVars, track, runtime, audioVars>>

Timestamps == 0 .. TimeWrap - 1
(* Who puts packets into the queue: the capture thread (0) and the         *)
(* callbacks of the peers.                                                 *)
Capture == 0
Packets == [n : 1 .. MaxPackets, gen : Gens, seq : Nat, ts : Timestamps]
Idle == [at |-> "idle"]
NoPacket == [n |-> 0, gen |-> 0, seq |-> 0, ts |-> 0]

TypeOK ==
    /\ ConnTypeOK
    /\ track \in Gens
    /\ runtime \in [on : BOOLEAN, halting : {"no", "sender", "queue", "receive", "buffer", "peer"}, run : 1 .. MaxRuns]
    /\ rtp \in [seq : Nat, ts : Timestamps, base : Timestamps, pts : Nat, set : {0, 1}]
    /\ clock \in Nat /\ packets \in 0 .. MaxPackets
    /\ producer = Idle \/ producer \in [at : {"baseline", "number", "time", "store"}, pkt : Packets, pts : Nat]
    /\ buffer \in Seq(Packets) /\ Len(buffer) <= BufferCap
    /\ flush \in [Gens -> [at : {"idle", "take", "send"}, pkts : Seq(Packets)]]
    /\ \A w \in Gens : enqueue[w] = Idle
                       \/ enqueue[w] \in [at : {"push", "evict", "again"}, pkt : Packets, run : 1 .. MaxRuns]
    /\ queue \in Seq(Packets) /\ Len(queue) <= QueueCap
    /\ sender = Idle \/ sender \in Packets
    /\ newest \in Packets \cup {NoPacket}

Unset == [seq |-> 0, ts |-> 0, base |-> 0, pts |-> 0, set |-> 0]
NoFlush == [at |-> "idle", pkts |-> <<>>]

Init ==
    /\ ConnInit
    /\ track = 0
    /\ runtime = [on |-> TRUE, halting |-> "no", run |-> 1]
    /\ rtp = Unset /\ clock = FirstPts /\ packets = 0 /\ producer = Idle
    /\ buffer = <<>> /\ flush = [g \in Gens |-> NoFlush]
    /\ enqueue = [w \in Gens |-> Idle] /\ queue = <<>> /\ sender = Idle
    /\ newest = NoPacket

-----------------------------------------------------------------------------
(* createPeerConnectionGo and closePeerConnection.                         *)
OthersKeep == UNCHANGED <<track, runtime, audioVars>>

LoseTrack ==
    /\ track' = 0 /\ newest' = NoPacket
    /\ UNCHANGED <<rtp, clock, packets, producer, buffer, flush, enqueue, queue, sender>>

(* The host has the runtime while it answers offers.  One value of the     *)
(* generation is left for closeGo.                                         *)
BeginCreate ==
    /\ runtime.on /\ runtime.halting = "no" /\ gen < MaxGen - 1
    /\ BeginCreateConn /\ LoseTrack /\ UNCHANGED runtime

BeginClose ==
    /\ runtime.halting = "peer" \/ (runtime.halting = "no" /\ gen < MaxGen - 1)
    /\ runtime' = [runtime EXCEPT !.halting = "no"]
    /\ BeginCloseConn /\ LoseTrack

CloseOld == CloseOldConn /\ OthersKeep
Bump == BumpConn /\ OthersKeep
VideoStage == (PassConn("forget") \/ PassConn("video")) /\ OthersKeep

Discard ==
    /\ IF queue # <<>> THEN At("audio") /\ queue' = Tail(queue) /\ UNCHANGED connVars
       ELSE PassConn("audio") /\ UNCHANGED queue
    /\ UNCHANGED <<track, runtime, rtp, clock, packets, producer, buffer, flush, enqueue, sender, newest>>

(* Reset holds the mutex of SetBaseline from its first store to its last.  *)
Resetting == life.at \in {"resetTime", "unset"}
WithoutTime(r) == [seq |-> r.seq, ts |-> 0, base |-> 0, pts |-> 0, set |-> r.set]

ResetStep ==
    /\ \/ PassConn("reset") /\ rtp' = [rtp EXCEPT !.seq = 0]
       \/ PassConn("resetTime") /\ rtp' = WithoutTime(rtp)
       \/ PassConn("unset") /\ rtp' = [rtp EXCEPT !.set = 0]
    /\ UNCHANGED <<track, runtime, clock, packets, producer, buffer, flush, enqueue, queue, sender, newest>>

(* Mutant: the buffer of the replaced peer is kept.                        *)
ClearNothing ==
    /\ PassConn("clear")
    /\ OthersKeep

ClearBuffer ==
    /\ PassConn("clear")
    /\ buffer' = <<>>
    /\ UNCHANGED <<track, runtime, rtp, clock, packets, producer, flush, enqueue, queue, sender, newest>>

(* The peer stays without audio if its audio track cannot be added.        *)
Install == InstallConn /\ track' \in {0, gen} /\ UNCHANGED <<runtime, audioVars>>
InstallFails == InstallFailsConn /\ OthersKeep
WireChanges(g) == WireChangesConn(g) /\ OthersKeep

(* Mutant: the buffer is flushed at the first connection only.             *)
StateChangesOnce(g) ==
    /\ StateChangesConn(g)
    /\ IF Head(callbacks[g]) = "connected" /\ state = "new"
       THEN flush[g] = NoFlush /\ flush' = [flush EXCEPT ![g].at = "take"]
       ELSE UNCHANGED flush
    /\ UNCHANGED <<track, runtime, rtp, clock, packets, producer, buffer, enqueue, queue, sender, newest>>

(* A callback with the state "connected" goes on to flush the buffer.      *)
StateChanges(g) ==
    /\ StateChangesConn(g)
    /\ IF Head(callbacks[g]) = "connected"
       THEN flush[g] = NoFlush /\ flush' = [flush EXCEPT ![g].at = "take"]
       ELSE UNCHANGED flush
    /\ UNCHANGED <<track, runtime, rtp, clock, packets, producer, buffer, enqueue, queue, sender, newest>>

Lifecycle == BeginCreate \/ BeginClose \/ CloseOld \/ Bump \/ VideoStage \/ Discard \/ ResetStep
             \/ ClearBuffer \/ Install \/ InstallFails
             \/ \E g \in Gens : WireChanges(g) \/ StateChanges(g)
-----------------------------------------------------------------------------
(* Numbers and times.  a is behind b if the shorter way round the circle   *)
(* leads from a to b: int32(a - b) < 0.                                    *)
Behind(a, b) == (a - b) % TimeWrap >= TimeWrap \div 2

(* SetBaseline, if no baseline is set.                                     *)
Based(r, pts) ==
    IF r.set = 1 THEN r
    ELSE [r EXCEPT !.base = pts % TimeWrap, !.ts = pts % TimeWrap, !.pts = pts, !.set = 1]

(* Mutant: a time of the grid is given out twice.                          *)
TimeRepeats(r, pts) ==
    IF pts = 0 \/ pts < r.pts THEN r.ts ELSE (r.base + (pts - r.pts)) % TimeWrap

(* TimestampForPTS: the frame of the grid that pts falls in, and never one *)
(* that was given out.                                                     *)
Time(r, pts) ==
    LET candidate == (r.base + (pts - r.pts)) % TimeWrap
    IN IF pts = 0 \/ pts < r.pts \/ Behind(candidate, r.ts) THEN r.ts ELSE candidate

(* The packet numbered with rtp as it is, and what that leaves behind.     *)
Numbered(r, pkt, pts) == [pkt EXCEPT !.seq = r.seq, !.ts = Time(r, pts)]
Past(r, pts) == [r EXCEPT !.seq = @ + 1, !.ts = (Time(r, pts) + 1) % TimeWrap]

(* sendAudioPacket is called, with a clock that does not run backwards.    *)
Called(pts) ==
    /\ producer = Idle /\ enqueue[Capture] = Idle /\ packets < MaxPackets
    /\ peer # 0 /\ track # 0
    /\ clock' = pts /\ packets' = packets + 1

Handed == [n |-> packets + 1, gen |-> peer, seq |-> 0, ts |-> 0]
Clocks == {clock + gap : gap \in Gaps}

(* While the peer is connecting the packet is kept, in the place of the    *)
(* oldest if need be.  All of it is done under pcMutex, so neither         *)
(* connectionState nor the peer changes meanwhile.                         *)
Buffer ==
    /\ state # "connected"
    /\ \E pts \in Clocks :
          /\ Called(pts)
          /\ LET r == Based(rtp, pts)
                 pkt == Numbered(r, Handed, pts)
                 kept == IF Len(buffer) < BufferCap THEN buffer ELSE Tail(buffer)
             IN /\ rtp' = Past(r, pts)
                /\ buffer' = Append(kept, pkt)
                /\ newest' = pkt
    /\ UNCHANGED <<connVars, track, runtime, producer, flush, enqueue, queue, sender>>

(* Otherwise pcMutex is released at once, and the peer may be replaced     *)
(* while the packet is numbered and queued.                                *)
Take ==
    /\ state = "connected"
    /\ \E pts \in Clocks :
          Called(pts) /\ producer' = [at |-> "baseline", pkt |-> Handed, pts |-> pts]
    /\ UNCHANGED <<connVars, track, runtime, rtp, buffer, flush, enqueue, queue, sender, newest>>

p == producer.pkt
Working(stage) ==
    /\ producer.at = stage
    /\ UNCHANGED <<connVars, track, runtime, clock, packets, buffer, flush, queue, sender>>

(* A packet whose numbering is over is offered to the queue there is.      *)
Offering(pkt) == IF runtime.on THEN [at |-> "push", pkt |-> pkt, run |-> runtime.run] ELSE Idle

Baseline ==
    /\ Working("baseline")
    /\ rtp.set = 1 \/ ~Resetting
    /\ rtp' = Based(rtp, producer.pts)
    /\ producer' = [producer EXCEPT !.at = "number"]
    /\ UNCHANGED <<enqueue, newest>>

Number ==
    /\ Working("number")
    /\ rtp' = [rtp EXCEPT !.seq = @ + 1]
    /\ producer' = [producer EXCEPT !.at = "time", !.pkt.seq = rtp.seq]
    /\ UNCHANGED <<enqueue, newest>>

(* The baseline is asked for again; then the time is computed and, in a    *)
(* step of its own, stored.                                                *)
TimeOf ==
    /\ Working("time")
    /\ rtp.set = 1 \/ ~Resetting
    /\ rtp' = Based(rtp, producer.pts)
    /\ producer' = [producer EXCEPT !.at = "store", !.pkt.ts = Time(rtp', producer.pts)]
    /\ UNCHANGED <<enqueue, newest>>

Store ==
    /\ Working("store")
    /\ rtp' = [rtp EXCEPT !.ts = (p.ts + 1) % TimeWrap]
    /\ newest' = IF p.gen = peer THEN p ELSE newest
    /\ enqueue' = [enqueue EXCEPT ![Capture] = Offering(p)]
    /\ producer' = Idle

-----------------------------------------------------------------------------
(* flushAudioConnectionBuffer, in the callback of peer g.                  *)
Flushing(g) ==
    UNCHANGED <<connVars, track, runtime, rtp, clock, packets, producer, queue, sender, newest>>

TakeBuffer(g) ==
    /\ flush[g].at = "take"
    /\ flush' = [flush EXCEPT ![g] = IF buffer = <<>> THEN NoFlush ELSE [at |-> "send", pkts |-> buffer]]
    /\ buffer' = <<>>
    /\ UNCHANGED enqueue /\ Flushing(g)

FlushNext(g) ==
    /\ flush[g].at = "send" /\ enqueue[g] = Idle
    /\ IF flush[g].pkts = <<>> THEN flush' = [flush EXCEPT ![g] = NoFlush] /\ UNCHANGED enqueue
       ELSE /\ flush' = [flush EXCEPT ![g].pkts = Tail(@)]
            /\ enqueue' = [enqueue EXCEPT ![g] = Offering(Head(flush[g].pkts))]
    /\ UNCHANGED buffer /\ Flushing(g)

-----------------------------------------------------------------------------
(* enqueueLatestAudioPacket.  A queue whose run is over leads nowhere.     *)
Full == Len(queue) >= QueueCap
Enqueuing(w, stage) ==
    /\ enqueue[w].at = stage
    /\ UNCHANGED <<connVars, track, runtime, rtp, clock, packets, producer, buffer, flush, sender, newest>>
Reaches(w) == runtime.on /\ enqueue[w].run = runtime.run
EnqueueStep(w, step) == enqueue' = [enqueue EXCEPT ![w] = step]

(* Mutant: a packet that was queued goes on to evict another.              *)
PushFallsThrough(w) ==
    /\ Enqueuing(w, "push")
    /\ IF ~Reaches(w) THEN EnqueueStep(w, Idle) /\ UNCHANGED queue
       ELSE EnqueueStep(w, [enqueue[w] EXCEPT !.at = "evict"])
            /\ queue' = IF Full THEN queue ELSE Append(queue, enqueue[w].pkt)

Push(w) ==
    /\ Enqueuing(w, "push")
    /\ IF ~Reaches(w) THEN EnqueueStep(w, Idle) /\ UNCHANGED queue
       ELSE IF Full THEN EnqueueStep(w, [enqueue[w] EXCEPT !.at = "evict"]) /\ UNCHANGED queue
       ELSE EnqueueStep(w, Idle) /\ queue' = Append(queue, enqueue[w].pkt)

(* Mutant: the incoming packet is given up with the oldest.                *)
EvictBoth(w) ==
    /\ Enqueuing(w, "evict")
    /\ EnqueueStep(w, Idle)
    /\ queue' = IF Reaches(w) /\ queue # <<>> THEN Tail(queue) ELSE queue

(* The oldest is taken out, unless the sender has emptied the queue.       *)
Evict(w) ==
    /\ Enqueuing(w, "evict")
    /\ EnqueueStep(w, [enqueue[w] EXCEPT !.at = "again"])
    /\ queue' = IF Reaches(w) /\ queue # <<>> THEN Tail(queue) ELSE queue

Again(w) ==
    /\ Enqueuing(w, "again")
    /\ EnqueueStep(w, Idle)
    /\ queue' = IF Reaches(w) /\ ~Full THEN Append(queue, enqueue[w].pkt) ELSE queue

-----------------------------------------------------------------------------
(* audioSenderGoroutine.                                                   *)
Pop ==
    /\ runtime.on /\ runtime.halting \in {"no", "sender"}
    /\ sender = Idle /\ queue # <<>>
    /\ sender' = Head(queue) /\ queue' = Tail(queue)
    /\ UNCHANGED <<connVars, track, runtime, rtp, clock, packets, producer, buffer, flush, enqueue, newest>>

(* WriteRTP to the track there is, if any.                                 *)
Write ==
    /\ sender # Idle
    /\ sender' = Idle
    /\ UNCHANGED <<connVars, track, runtime, rtp, clock, packets, producer, buffer, flush, enqueue, queue, newest>>

-----------------------------------------------------------------------------
(* closeGo.  The host has closed the peer and stopped the capture before.  *)
Halting(from, to) ==
    /\ runtime.halting = from
    /\ runtime' = [runtime EXCEPT !.halting = to]
    /\ UNCHANGED <<connVars, track, rtp, clock, packets, producer, flush, enqueue, newest>>

Halt ==
    /\ runtime.on /\ At("idle") /\ peer = 0 /\ gen < MaxGen
    /\ producer = Idle /\ enqueue[Capture] = Idle
    /\ Halting("no", "sender")
    /\ UNCHANGED <<buffer, queue, sender>>

(* The sender's select may choose packets before it chooses the stop.      *)
SenderStops ==
    /\ sender = Idle
    /\ Halting("sender", "queue")
    /\ UNCHANGED <<buffer, queue, sender>>

(* The length of the queue is read, and then a packet is waited for: by    *)
(* then a callback that is still flushing may have evicted it.             *)
Drain == queue # <<>> /\ Halting("queue", "receive") /\ UNCHANGED <<buffer, queue, sender>>
Receive == queue # <<>> /\ queue' = Tail(queue) /\ Halting("receive", "queue") /\ UNCHANGED <<buffer, sender>>

Drained ==
    /\ queue = <<>> /\ runtime.halting = "queue"
    /\ runtime' = [runtime EXCEPT !.on = FALSE, !.halting = "buffer"]
    /\ UNCHANGED <<connVars, track, audioVars>>

DropBuffer == Halting("buffer", "peer") /\ buffer' = <<>> /\ UNCHANGED <<queue, sender>>

(* startMediaRuntime makes a new queue.                                    *)
StartRuntime ==
    /\ ~runtime.on /\ runtime.halting = "no" /\ At("idle") /\ runtime.run < MaxRuns
    /\ runtime' = [runtime EXCEPT !.on = TRUE, !.run = @ + 1]
    /\ queue' = <<>>
    /\ UNCHANGED <<connVars, track, rtp, clock, packets, producer, buffer, flush, enqueue, sender, newest>>

-----------------------------------------------------------------------------
SendAudio == Buffer \/ Take \/ Baseline \/ Number \/ TimeOf \/ Store
Flush(g) == TakeBuffer(g) \/ FlushNext(g)
Enqueue(w) == Push(w) \/ Evict(w) \/ Again(w)
StopRuntime == SenderStops \/ Drain \/ Receive \/ Drained \/ DropBuffer
               \/ (runtime.halting = "peer" /\ BeginClose)

Next ==
    \/ Lifecycle \/ SendAudio \/ Pop \/ Write \/ Halt \/ StopRuntime \/ StartRuntime
    \/ \E g \in Gens \ {Capture} : Flush(g)
    \/ \E w \in Gens : Enqueue(w)

Spec == Init /\ [][Next]_vars

-----------------------------------------------------------------------------
(* "Flush buffered audio packets when connection becomes connected": a     *)
(* packet that is buffered just as the peer connects is not left behind.   *)
(* While connectionState is connected the buffer is empty, or a callback   *)
(* is about to take it.                                                    *)
NothingStranded ==
    state = "connected" => buffer = <<>> \/ \E g \in Gens : flush[g].at = "take"

(* Replacing a peer clears the bounded media queues: what is buffered was  *)
(* made for the peer there is.                                             *)
BufferIsOwn == peer # 0 => \A i \in DOMAIN buffer : buffer[i].gen = peer

(* "The RTP timestamp still advances, so the receiver does not accumulate  *)
(* A/V drift": as long as a peer stays, each of its packets has a later    *)
(* number and, on the circle, a later time than the one before, though     *)
(* Reset and a packet of an earlier peer may overlap.                      *)
NumberedInOrder ==
    [][newest' # newest /\ NoPacket \notin {newest, newest'} =>
        /\ newest'.seq > newest.seq
        /\ newest'.ts # newest.ts
        /\ Behind(newest.ts, newest'.ts)]_vars

(* A payload goes back to the buffer pool once: no packet is in two of the *)
(* places that would each return it.                                       *)
Copies(n) ==
    LET In(seq) == Cardinality({i \in DOMAIN seq : seq[i].n = n})
        Hands == {g \in Gens : enqueue[g] # Idle /\ enqueue[g].pkt.n = n}
        Flushes == {g \in Gens : \E i \in DOMAIN flush[g].pkts : flush[g].pkts[i].n = n}
    IN In(buffer) + In(queue) + Cardinality(Hands) + Cardinality(Flushes)
       + (IF sender # Idle /\ sender.n = n THEN 1 ELSE 0)

PayloadHeldOnce == \A n \in 1 .. packets : Copies(n) <= 1

(* Stopping the runtime ends: closeGo, which waits for a packet of a queue *)
(* it saw filled, finds one, or someone who evicted it is about to put     *)
(* another in its place.                                                   *)
DrainIsServed ==
    runtime.halting = "receive" /\ queue = <<>> =>
        \E g \in Gens : enqueue[g].at = "again" /\ Reaches(g)

(* README: packets of an old peer are prevented from reaching a new        *)
(* session.  (Audio packets carry no generation.)                          *)
OwnAudioOnly == [][sender # Idle /\ sender' = Idle => track \in {0, sender.gen}]_vars

(* README: a congested connection replaces stale audio.  What is evicted   *)
(* is older than what takes its place.                                     *)
StaleIsReplaced ==
    [][\A w \in Gens : enqueue[w].at = "evict" /\ enqueue'[w].at = "again" /\ queue' # queue =>
        Head(queue).n < enqueue[w].pkt.n]_vars
=============================================================================
