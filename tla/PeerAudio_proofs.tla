------------------------- MODULE PeerAudio_proofs -------------------------
(***************************************************************************)
(* For any capacities, clocks and bounds: what is buffered is of the peer  *)
(* there is, nothing stays in the buffer of a connected peer, and closeGo  *)
(* is never left waiting for a packet.                                     *)
(*                                                                         *)
(* The first rests on the order in createPeerConnectionGo: the peer is nil *)
(* from before the buffer is cleared until the next one is installed, and  *)
(* without a peer nothing is buffered.  The second rests on pcMutex, held  *)
(* from the test of the state to the append; the third on enqueuing being  *)
(* a push that follows every eviction, by one who is not the capture, which*)
(* rests when closeGo is called.                                           *)
(***************************************************************************)
EXTENDS PeerAudio, FiniteSetTheorems, TLAPS

Pkt == [n : Nat, gen : Nat, seq : Nat, ts : Int]
NumberedState == [seq : Nat, ts : Int, base : Int, pts : Nat, set : {0, 1}]

ConnShape ==
    /\ gen \in Nat /\ peer \in Nat
    /\ life \in [at : Stages, op : Ops, old : Nat]
    /\ life.at = "idle" \/ life.at \in DOMAIN After[life.op]

ProducerShape ==
    /\ rtp \in NumberedState /\ clock \in Nat /\ packets \in Nat
    /\ producer = Idle \/ producer \in [at : {"baseline", "number", "time", "store"}, pkt : Pkt, pts : Nat]

QueueShape ==
    /\ buffer \in Seq(Pkt) /\ queue \in Seq(Pkt)
    /\ flush \in [Gens -> [at : {"idle", "take", "send"}, pkts : Seq(Pkt)]]
    /\ DOMAIN enqueue = Gens
    /\ \A w \in Gens : enqueue[w] = Idle
                       \/ enqueue[w] \in [at : {"push", "evict", "again"}, pkt : Pkt, run : Nat]
    /\ runtime \in [on : BOOLEAN, halting : {"no", "sender", "queue", "receive", "buffer", "peer"}, run : Nat]

(* While one is replaced there is no peer, and before the next is there    *)
(* the buffer is empty.                                                    *)
NilMeanwhile == life.at # "idle" => peer = 0
ClearedBefore == life.at = "install" => buffer = <<>>

(* closeGo runs by itself, and one caller enqueues at a time.              *)
HaltsAlone == runtime.halting # "no" => life.at = "idle"
OneAtATime == producer # Idle => enqueue[Capture] = Idle

IInv ==
    /\ ConnShape /\ ProducerShape /\ QueueShape
    /\ NilMeanwhile /\ ClearedBefore /\ HaltsAlone /\ OneAtATime
    /\ BufferIsOwn /\ NothingStranded /\ DrainIsServed

-----------------------------------------------------------------------------
LEMMA Constants ==
    /\ MaxGen \in Nat /\ 0 \in Gens /\ Gens \subseteq Nat
    /\ QueueCap \in Nat /\ QueueCap > 0
    /\ TimeWrap \in Nat /\ TimeWrap > 1
    /\ FirstPts \in Nat /\ Gaps \subseteq Nat
  BY PeerConnectionAssumption, PeerAudioAssumption DEF Gens

LEMMA InitIInv == Init => IInv
<1> SUFFICES ASSUME Init PROVE IInv
  OBVIOUS
<1> USE Constants DEF Init, ConnInit
<1>1. ConnShape
  BY DEF ConnShape, Stages, Ops, After
<1>2. ProducerShape
  BY DEF ProducerShape, NumberedState, Unset
<1>3. QueueShape
  <2>1. <<>> \in Seq(Pkt)
    OBVIOUS
  <2> QED
    BY <2>1, PeerAudioAssumption DEF QueueShape, NoFlush, Idle
<1>4. NilMeanwhile /\ ClearedBefore /\ HaltsAlone /\ OneAtATime
  BY DEF NilMeanwhile, ClearedBefore, HaltsAlone, OneAtATime, Idle
<1>5. BufferIsOwn /\ NothingStranded /\ DrainIsServed
  BY DEF BufferIsOwn, NothingStranded, DrainIsServed
<1> QED
  BY <1>1, <1>2, <1>3, <1>4, <1>5 DEF IInv

(* What numbers a packet yields a packet and a state of RTP.               *)
LEMMA NumberedTypes ==
    ASSUME NEW r \in NumberedState, NEW pts \in Nat, NEW pkt \in Pkt
    PROVE  /\ Based(r, pts) \in NumberedState
           /\ Time(r, pts) \in Int
           /\ Numbered(r, pkt, pts) \in Pkt
           /\ Numbered(r, pkt, pts).gen = pkt.gen
           /\ Past(r, pts) \in NumberedState
<1>1. /\ pts % TimeWrap \in Int /\ (r.base + (pts - r.pts)) % TimeWrap \in Int
  BY Constants DEF NumberedState
<1>2. Based(r, pts) \in NumberedState
  BY <1>1 DEF Based, NumberedState
<1>3. Time(r, pts) \in Int
  BY <1>1 DEF Time, NumberedState
<1>4. (Time(r, pts) + 1) % TimeWrap \in Int
  BY <1>3, Constants
<1>5. Numbered(r, pkt, pts) \in Pkt /\ Numbered(r, pkt, pts).gen = pkt.gen
  BY <1>3 DEF Numbered, Pkt, NumberedState
<1>6. Past(r, pts) \in NumberedState
  <2>1. \A t \in Int : [r EXCEPT !.seq = @ + 1, !.ts = t] \in NumberedState
    <3> SUFFICES ASSUME NEW t \in Int PROVE [r EXCEPT !.seq = @ + 1, !.ts = t] \in NumberedState
      OBVIOUS
    <3>1. r.seq + 1 \in Nat
      BY DEF NumberedState
    <3> QED
      BY <3>1 DEF NumberedState
  <2> QED
    BY <2>1, <1>4 DEF Past
<1> QED
  BY <1>2, <1>3, <1>5, <1>6

(* The steps of the connection keep its shape, and leave the stages that   *)
(* lie between two peers only with the next peer.                          *)
LEMMA ConnectionKeepsShape ==
    ASSUME ConnShape, NilMeanwhile,
           \/ BeginCreateConn \/ BeginCloseConn \/ CloseOldConn \/ BumpConn \/ InstallConn
           \/ \E stage \in Stages \ {"idle"} : PassConn(stage)
    PROVE  /\ ConnShape' /\ NilMeanwhile'
           /\ life'.at = "install" => life.at = "clear"
           /\ life.at = "install" => life'.at = "idle"
<1> USE DEF ConnShape, NilMeanwhile, Stages, Ops, After, At, Proceed
<1>1. CASE BeginCreateConn
  BY <1>1 DEF BeginCreateConn, GiveUpPeer
<1>2. CASE BeginCloseConn
  BY <1>2 DEF BeginCloseConn, GiveUpPeer
<1>3. CASE CloseOldConn
  BY <1>3 DEF CloseOldConn
<1>4. CASE BumpConn
  BY <1>4 DEF BumpConn
<1>5. CASE InstallConn
  BY <1>5 DEF InstallConn
<1>6. CASE \E stage \in Stages \ {"idle"} : PassConn(stage)
  <2>1. life.at # "idle" /\ peer = 0
    BY <1>6 DEF PassConn
  <2>2. PICK stage \in Stages \ {"idle"} : PassConn(stage)
    BY <1>6
  <2>3. /\ life' = [life EXCEPT !.at = After[life.op][life.at]]
        /\ UNCHANGED <<gen, peer, state, netVars>>
    BY <2>2 DEF PassConn
  <2>4. CASE life.op = "create"
    BY <2>1, <2>3, <2>4
  <2>5. CASE life.op = "close"
    BY <2>1, <2>3, <2>5
  <2> QED
    BY <2>4, <2>5
<1> QED
  BY <1>1, <1>2, <1>3, <1>4, <1>5, <1>6

(* A step of the connection that leaves the streams alone.                 *)
LEMMA ConnectionOnly ==
    ASSUME IInv,
           \/ BeginCreate \/ BeginClose \/ CloseOld \/ Bump \/ VideoStage \/ Install \/ InstallFails
    PROVE  IInv'
<1> USE DEF IInv
<1>1. \/ BeginCreateConn \/ BeginCloseConn \/ CloseOldConn \/ BumpConn \/ InstallConn
      \/ \E stage \in Stages \ {"idle"} : PassConn(stage)
  BY DEF BeginCreate, BeginClose, CloseOld, Bump, VideoStage, Install, InstallFails, InstallFailsConn,
         Stages, After
<1>2. /\ UNCHANGED <<rtp, clock, packets, producer, buffer, flush, enqueue, queue, sender>>
      /\ runtime' = runtime \/ runtime' = [runtime EXCEPT !.halting = "no"]
  BY DEF BeginCreate, BeginClose, CloseOld, Bump, VideoStage, Install, InstallFails, OthersKeep,
         LoseTrack, audioVars
<1>3. ConnShape' /\ NilMeanwhile'
  BY <1>1, ConnectionKeepsShape
<1>4. ProducerShape' /\ QueueShape' /\ OneAtATime'
  BY <1>2 DEF ProducerShape, QueueShape, OneAtATime
<1>5. ClearedBefore'
  <2>1. ~At("clear")
    BY DEF BeginCreate, BeginClose, BeginCreateConn, BeginCloseConn, GiveUpPeer, CloseOld, CloseOldConn,
           Bump, BumpConn, VideoStage, PassConn, Install, InstallConn, InstallFails, InstallFailsConn, At
  <2> QED
    BY <1>1, <2>1, ConnectionKeepsShape DEF ClearedBefore, At
<1>6. HaltsAlone'
  <2>1. CASE BeginCreate
    BY <2>1 DEF BeginCreate, HaltsAlone
  <2>2. CASE BeginClose
    BY <2>2 DEF BeginClose, HaltsAlone, QueueShape
  <2>3. CASE CloseOld \/ Bump \/ VideoStage \/ Install \/ InstallFails
    BY <2>3 DEF CloseOld, CloseOldConn, Bump, BumpConn, VideoStage, Install, InstallConn, InstallFails,
                InstallFailsConn, PassConn, At, HaltsAlone, OthersKeep
  <2> QED
    BY <2>1, <2>2, <2>3
<1>7. BufferIsOwn'
  <2>1. CASE Install
    BY <2>1, <1>2 DEF Install, InstallConn, At, ClearedBefore, BufferIsOwn
  <2>2. CASE ~Install
    <3>1. peer' = 0 \/ peer' = peer
      BY <2>2 DEF BeginCreate, BeginClose, BeginCreateConn, BeginCloseConn, GiveUpPeer, CloseOld,
                  CloseOldConn, Bump, BumpConn, VideoStage, PassConn, InstallFails, InstallFailsConn
    <3> QED
      BY <3>1, <1>2 DEF BufferIsOwn
  <2> QED
    BY <2>1, <2>2
<1>8. NothingStranded'
  <2>1. state' = state \/ state' # "connected"
    BY DEF BeginCreate, BeginClose, BeginCreateConn, BeginCloseConn, GiveUpPeer, CloseOld,
           CloseOldConn, Bump, BumpConn, VideoStage, PassConn, Install, InstallConn, InstallFails,
           InstallFailsConn
  <2> QED
    BY <2>1, <1>2 DEF NothingStranded
<1>9. DrainIsServed'
  <2>1. \A g \in Gens : Reaches(g)' = Reaches(g)
    BY <1>2 DEF Reaches, QueueShape
  <2>2. runtime'.halting = "receive" => runtime.halting = "receive"
    BY <1>2 DEF QueueShape
  <2> QED
    BY <1>2, <2>1, <2>2 DEF DrainIsServed
<1> QED
  BY <1>3, <1>4, <1>5, <1>6, <1>7, <1>8, <1>9

(* A step of the connection that clears something of audio.                *)
LEMMA ConnectionClears ==
    ASSUME IInv, Discard \/ ResetStep \/ ClearBuffer
    PROVE  IInv'
<1> USE DEF IInv
<1>1. \/ UNCHANGED connVars
      \/ \E stage \in Stages \ {"idle"} : PassConn(stage)
  BY DEF Discard, ResetStep, ClearBuffer, Stages, After
<1>2. ConnShape' /\ NilMeanwhile'
  <2>1. CASE UNCHANGED connVars
    BY <2>1 DEF connVars, ConnShape, NilMeanwhile
  <2> QED
    BY <1>1, <2>1, ConnectionKeepsShape
<1>3. /\ UNCHANGED <<runtime, clock, packets, producer, flush, enqueue, peer, state>>
      /\ buffer' \in {buffer, <<>>}
      /\ life.at # "idle"
  BY DEF Discard, ResetStep, ClearBuffer, connVars, PassConn, At
<1>4. ProducerShape'
  <2>1. rtp' \in NumberedState
    <3>1. rtp \in NumberedState
      BY DEF ProducerShape
    <3>2. \/ rtp' = rtp \/ rtp' = [rtp EXCEPT !.seq = 0]
          \/ rtp' = WithoutTime(rtp) \/ rtp' = [rtp EXCEPT !.set = 0]
      BY DEF Discard, ResetStep, ClearBuffer
    <3>3. [rtp EXCEPT !.seq = 0] \in NumberedState
      BY <3>1 DEF NumberedState
    <3>4. WithoutTime(rtp) \in NumberedState
      <4>1. \A n \in Nat, b \in {0, 1} : [seq |-> n, ts |-> 0, base |-> 0, pts |-> 0, set |-> b] \in NumberedState
        BY DEF NumberedState
      <4>2. rtp.seq \in Nat /\ rtp.set \in {0, 1}
        BY <3>1 DEF NumberedState
      <4> QED
        BY <4>1, <4>2 DEF WithoutTime
    <3>5. [rtp EXCEPT !.set = 0] \in NumberedState
      BY <3>1 DEF NumberedState
    <3> QED
      BY <3>1, <3>2, <3>3, <3>4, <3>5
  <2> QED
    BY <1>3, <2>1 DEF ProducerShape
<1>5. QueueShape' /\ OneAtATime'
  <2>0. buffer \in Seq(Pkt) /\ queue \in Seq(Pkt)
    BY DEF QueueShape
  <2>1. queue' \in Seq(Pkt)
    <3>1. queue' = queue \/ (queue # <<>> /\ queue' = Tail(queue))
      BY DEF Discard, ResetStep, ClearBuffer
    <3> QED
      BY <2>0, <3>1
  <2>2. buffer' \in Seq(Pkt)
    <3>1. <<>> \in Seq(Pkt)
      OBVIOUS
    <3> QED
      BY <1>3, <2>0, <3>1
  <2> QED
    BY <1>3, <2>1, <2>2 DEF QueueShape, OneAtATime
<1>6. ClearedBefore'
  <2>1. CASE Discard
    <3>1. UNCHANGED buffer /\ At("audio")
      BY <2>1 DEF Discard, PassConn, At
    <3>2. life'.at # "install" \/ UNCHANGED connVars
      BY <1>1, <3>1, ConnectionKeepsShape DEF At
    <3> QED
      BY <3>1, <3>2 DEF ClearedBefore, connVars, At
  <2>2. CASE ResetStep
    <3>1. UNCHANGED buffer /\ life.at \in {"reset", "resetTime", "unset"}
      BY <2>2 DEF ResetStep, PassConn, At
    <3>2. life'.at # "install" \/ UNCHANGED connVars
      BY <1>1, <3>1, ConnectionKeepsShape DEF At
    <3> QED
      BY <3>1, <3>2 DEF ClearedBefore, connVars, At
  <2>3. CASE ClearBuffer
    BY <2>3 DEF ClearBuffer, ClearedBefore
  <2> QED
    BY <2>1, <2>2, <2>3
<1>7. HaltsAlone'
  BY <1>3 DEF HaltsAlone
<1>8. BufferIsOwn' /\ NothingStranded'
  BY <1>3 DEF BufferIsOwn, NothingStranded
<1>9. DrainIsServed'
  BY <1>3 DEF DrainIsServed, HaltsAlone
<1> QED
  BY <1>2, <1>4, <1>5, <1>6, <1>7, <1>8, <1>9

(* The transport changes and is reported.                                  *)
LEMMA TransportKeeps ==
    ASSUME IInv, NEW g \in Gens, WireChanges(g) \/ StateChanges(g)
    PROVE  IInv'
<1> USE DEF IInv
<1>1. /\ UNCHANGED <<gen, peer, life, runtime, rtp, clock, packets, producer, buffer, enqueue, queue>>
      /\ \/ UNCHANGED <<state, flush>>
         \/ state' # "connected" /\ UNCHANGED flush
         \/ flush' = [flush EXCEPT ![g].at = "take"]
  BY DEF WireChanges, WireChangesConn, StateChanges, StateChangesConn, OthersKeep, audioVars
<1>2. flush' \in [Gens -> [at : {"idle", "take", "send"}, pkts : Seq(Pkt)]]
  <2>1. flush \in [Gens -> [at : {"idle", "take", "send"}, pkts : Seq(Pkt)]]
    BY DEF QueueShape
  <2>2. [flush[g] EXCEPT !.at = "take"] \in [at : {"idle", "take", "send"}, pkts : Seq(Pkt)]
    BY <2>1
  <2>3. CASE flush' = flush
    BY <2>1, <2>3
  <2>4. CASE flush' = [flush EXCEPT ![g].at = "take"]
    BY <2>1, <2>2, <2>4
  <2> QED
    BY <1>1, <2>3, <2>4
<1>3. ConnShape' /\ ProducerShape' /\ QueueShape'
  BY <1>1, <1>2 DEF ConnShape, ProducerShape, QueueShape
<1>4. NilMeanwhile' /\ ClearedBefore' /\ HaltsAlone' /\ OneAtATime' /\ BufferIsOwn'
  BY <1>1 DEF NilMeanwhile, ClearedBefore, HaltsAlone, OneAtATime, BufferIsOwn
<1>5. NothingStranded'
  BY <1>1 DEF NothingStranded, QueueShape
<1>6. DrainIsServed'
  BY <1>1 DEF DrainIsServed, Reaches
<1> QED
  BY <1>3, <1>4, <1>5, <1>6

(* sendAudioPacket.                                                        *)
LEMMA HandedTypes ==
    ASSUME IInv, NEW pts \in Clocks, Called(pts)
    PROVE  pts \in Nat /\ Handed \in Pkt /\ Handed.gen = peer /\ clock' \in Nat /\ packets' \in Nat
<1>1. /\ clock \in Nat /\ packets \in Nat /\ peer \in Nat
  BY DEF IInv, ProducerShape, ConnShape
<1>2. pts \in Nat
  BY <1>1, Constants DEF Clocks
<1>3. Handed \in Pkt /\ Handed.gen = peer
  <2>1. packets + 1 \in Nat
    BY <1>1
  <2> QED
    BY <1>1, <2>1 DEF Handed, Pkt
<1>4. clock' \in Nat /\ packets' \in Nat
  BY <1>1, <1>2 DEF Called
<1> QED
  BY <1>2, <1>3, <1>4

LEMMA BufferKeeps ==
    ASSUME IInv, Buffer
    PROVE  IInv'
<1> USE DEF IInv
<1>1. PICK pts \in Clocks :
          LET r == Based(rtp, pts)
              pkt == Numbered(r, Handed, pts)
              kept == IF Len(buffer) < BufferCap THEN buffer ELSE Tail(buffer)
          IN Called(pts) /\ rtp' = Past(r, pts) /\ buffer' = Append(kept, pkt)
  BY DEF Buffer
<1> DEFINE r == Based(rtp, pts)
           pkt == Numbered(r, Handed, pts)
           kept == IF Len(buffer) < BufferCap THEN buffer ELSE Tail(buffer)
<1>2. /\ UNCHANGED <<gen, peer, state, life, runtime, producer, flush, enqueue, queue>>
      /\ state # "connected" /\ peer # 0
      /\ rtp' = Past(r, pts) /\ buffer' = Append(kept, pkt)
  BY <1>1 DEF Buffer, Called, connVars
<1>3. r \in NumberedState /\ pkt \in Pkt /\ pkt.gen = peer /\ rtp' \in NumberedState
  <2>1. rtp \in NumberedState
    BY DEF ProducerShape
  <2>2. pts \in Nat /\ Handed \in Pkt /\ Handed.gen = peer
    BY <1>1, HandedTypes
  <2>3. r \in NumberedState
    BY <2>1, <2>2, NumberedTypes
  <2> QED
    BY <1>2, <2>2, <2>3, NumberedTypes
<1>4. kept \in Seq(Pkt) /\ \A i \in DOMAIN kept : kept[i].gen = peer
  <2> SUFFICES ASSUME Len(buffer) >= BufferCap
               PROVE  Tail(buffer) \in Seq(Pkt) /\ \A i \in DOMAIN Tail(buffer) : Tail(buffer)[i].gen = peer
    BY <1>2, PeerAudioAssumption DEF QueueShape, BufferIsOwn
  <2>1. buffer # <<>>
    BY PeerAudioAssumption DEF QueueShape
  <2> QED
    BY <2>1, <1>2 DEF QueueShape, BufferIsOwn
<1> HIDE DEF r, pkt, kept
<1>5. buffer' \in Seq(Pkt) /\ \A i \in DOMAIN buffer' : buffer'[i].gen = peer
  BY <1>2, <1>3, <1>4
<1>6. ConnShape' /\ ProducerShape' /\ QueueShape'
  BY <1>1, <1>2, <1>3, <1>5, HandedTypes DEF ConnShape, ProducerShape, QueueShape
<1>7. NilMeanwhile' /\ ClearedBefore' /\ HaltsAlone' /\ OneAtATime'
  BY <1>2 DEF NilMeanwhile, ClearedBefore, HaltsAlone, OneAtATime
<1>8. BufferIsOwn' /\ NothingStranded' /\ DrainIsServed'
  BY <1>2, <1>5 DEF BufferIsOwn, NothingStranded, DrainIsServed, Reaches
<1> QED
  BY <1>6, <1>7, <1>8

(* The other steps of sendAudioPacket change the numbering, the packet in  *)
(* hand and, at the end, what the capture thread enqueues.                 *)
LEMMA NumberingKeeps ==
    ASSUME IInv, Take \/ Baseline \/ Number \/ TimeOf \/ Store
    PROVE  IInv'
<1> USE DEF IInv
<1> DEFINE Held == [at : {"baseline", "number", "time", "store"}, pkt : Pkt, pts : Nat]
<1>1. UNCHANGED <<gen, peer, state, life, runtime, buffer, flush, queue>>
  BY DEF Take, Baseline, Number, TimeOf, Store, Working, connVars
<1>2. CASE Take
  <2>1. PICK pts \in Clocks : Called(pts) /\ producer' = [at |-> "baseline", pkt |-> Handed, pts |-> pts]
    BY <1>2 DEF Take
  <2>2. rtp' = rtp /\ enqueue' = enqueue /\ enqueue[Capture] = Idle
    BY <1>2, <2>1 DEF Take, Called
  <2>3. producer' \in Held /\ clock' \in Nat /\ packets' \in Nat
    BY <2>1, HandedTypes
  <2>4. ProducerShape' /\ QueueShape' /\ OneAtATime'
    BY <1>1, <2>2, <2>3 DEF ProducerShape, QueueShape, OneAtATime
  <2> QED
    BY <1>1, <2>2, <2>4 DEF ConnShape, NilMeanwhile, ClearedBefore, HaltsAlone, BufferIsOwn,
                            NothingStranded, DrainIsServed, Reaches
<1>3. CASE Baseline \/ Number \/ TimeOf \/ Store
  <2>1. producer \in Held /\ rtp \in NumberedState /\ clock' \in Nat /\ packets' \in Nat
    BY <1>3 DEF Baseline, Number, TimeOf, Store, Working, ProducerShape, Idle
  <2>2. producer # Idle /\ enqueue[Capture] = Idle
    BY <1>3 DEF Baseline, Number, TimeOf, Store, Working, Idle, OneAtATime
  <2>3. /\ rtp' \in NumberedState
        /\ \/ producer' \in Held /\ enqueue' = enqueue
           \/ producer' = Idle /\ enqueue' = [enqueue EXCEPT ![Capture] = Offering(p)]
    <3>1. CASE Baseline
      BY <3>1, <2>1, NumberedTypes DEF Baseline
    <3>2. CASE Number
      <4>1. rtp.seq \in Nat /\ producer.pkt \in Pkt
        BY <2>1 DEF NumberedState
      <4>2. [producer.pkt EXCEPT !.seq = rtp.seq] \in Pkt
        BY <4>1 DEF Pkt
      <4>3. rtp' \in NumberedState
        BY <3>2, <2>1, <4>1 DEF Number, NumberedState
      <4> QED
        BY <3>2, <2>1, <4>2, <4>3 DEF Number
    <3>3. CASE TimeOf
      <4>1. rtp' \in NumberedState /\ producer.pts \in Nat /\ producer.pkt \in Pkt
        BY <3>3, <2>1, NumberedTypes DEF TimeOf
      <4>2. Time(rtp', producer.pts) \in Int
        BY <4>1, NumberedTypes
      <4>3. [producer.pkt EXCEPT !.ts = Time(rtp', producer.pts)] \in Pkt
        BY <4>1, <4>2 DEF Pkt
      <4> QED
        BY <3>3, <2>1, <4>1, <4>3 DEF TimeOf
    <3>4. CASE Store
      <4>1. p.ts \in Int
        BY <2>1 DEF p, Pkt
      <4>2. (p.ts + 1) % TimeWrap \in Int
        BY <4>1, Constants
      <4>3. \A t \in Int : [rtp EXCEPT !.ts = t] \in NumberedState
        BY <2>1 DEF NumberedState
      <4> QED
        BY <3>4, <4>2, <4>3 DEF Store
    <3> QED
      BY <1>3, <3>1, <3>2, <3>3, <3>4
  <2>4. Offering(p) = Idle \/ Offering(p) \in [at : {"push", "evict", "again"}, pkt : Pkt, run : Nat]
    BY <2>1 DEF Offering, p, QueueShape
  <2>5. Offering(p).at # "again"
    BY DEF Offering, Idle
  <2>6. ProducerShape' /\ QueueShape' /\ OneAtATime'
    BY <1>1, <2>1, <2>2, <2>3, <2>4, Constants DEF ProducerShape, QueueShape, OneAtATime, Capture
  <2>7. DrainIsServed'
    <3>1. \A g \in Gens : enqueue[g].at = "again" => enqueue'[g] = enqueue[g]
      BY <2>2, <2>3 DEF QueueShape, Idle
    <3> QED
      BY <1>1, <3>1 DEF DrainIsServed, Reaches
  <2> QED
    BY <1>1, <2>6, <2>7 DEF ConnShape, NilMeanwhile, ClearedBefore, HaltsAlone, BufferIsOwn, NothingStranded
<1> QED
  BY <1>2, <1>3

(* flushAudioConnectionBuffer.                                             *)
LEMMA FlushKeeps ==
    ASSUME IInv, NEW g \in Gens \ {Capture}, Flush(g)
    PROVE  IInv'
<1> USE DEF IInv
<1> DEFINE Slot == [at : {"idle", "take", "send"}, pkts : Seq(Pkt)]
<1>1. UNCHANGED <<gen, peer, state, life, runtime, rtp, clock, packets, producer, queue>>
  BY DEF Flush, TakeBuffer, FlushNext, Flushing, connVars
<1>2. /\ flush \in [Gens -> Slot] /\ buffer \in Seq(Pkt) /\ DOMAIN enqueue = Gens
      /\ flush[g] \in Slot
  BY DEF QueueShape
<1>3. NoFlush \in Slot /\ <<>> \in Seq(Pkt)
  BY DEF NoFlush
<1>4. CASE TakeBuffer(g)
  <2>1. flush' \in [Gens -> Slot] /\ buffer' = <<>> /\ enqueue' = enqueue
    BY <1>2, <1>3, <1>4 DEF TakeBuffer
  <2> QED
    BY <1>1, <1>3, <2>1 DEF ConnShape, ProducerShape, QueueShape, NilMeanwhile, ClearedBefore, HaltsAlone,
                            OneAtATime, BufferIsOwn, NothingStranded, DrainIsServed, Reaches
<1>5. CASE FlushNext(g)
  <2>1. /\ buffer' = buffer
        /\ \/ flush' = [flush EXCEPT ![g] = NoFlush] /\ enqueue' = enqueue
           \/ /\ flush[g].pkts # <<>> /\ flush' = [flush EXCEPT ![g].pkts = Tail(@)]
              /\ enqueue' = [enqueue EXCEPT ![g] = Offering(Head(flush[g].pkts))]
    BY <1>5 DEF FlushNext
  <2>2. enqueue[g] = Idle /\ flush[g].at = "send"
    BY <1>5 DEF FlushNext
  <2>3. flush' \in [Gens -> Slot]
    <3>1. flush[g].pkts # <<>> => [flush[g] EXCEPT !.pkts = Tail(@)] \in Slot
      <4> SUFFICES ASSUME flush[g].pkts # <<>> PROVE [flush[g] EXCEPT !.pkts = Tail(@)] \in Slot
        OBVIOUS
      <4>1. Tail(flush[g].pkts) \in Seq(Pkt)
        BY <1>2
      <4> QED
        BY <1>2, <4>1
    <3> QED
      BY <1>2, <1>3, <2>1, <3>1
  <2>4. flush[g].pkts # <<>> => Head(flush[g].pkts) \in Pkt
    BY <1>2
  <2>5. /\ DOMAIN enqueue' = Gens
        /\ \A w \in Gens : enqueue'[w] = Idle
                           \/ enqueue'[w] \in [at : {"push", "evict", "again"}, pkt : Pkt, run : Nat]
    BY <1>2, <2>1, <2>4 DEF Offering, QueueShape
  <2>6. \A w \in Gens \ {g} : enqueue'[w] = enqueue[w]
    BY <1>2, <2>1
  <2>7. NothingStranded'
    <3>1. \A h \in Gens : flush[h].at = "take" => flush'[h].at = "take"
      BY <1>2, <2>1, <2>2
    <3> QED
      BY <1>1, <2>1, <3>1 DEF NothingStranded
  <2>8. DrainIsServed' /\ OneAtATime'
    BY <1>1, <2>2, <2>6, Constants DEF DrainIsServed, OneAtATime, Reaches, Idle, Capture
  <2> QED
    BY <1>1, <1>2, <2>1, <2>3, <2>5, <2>7, <2>8
       DEF ConnShape, ProducerShape, QueueShape, NilMeanwhile, ClearedBefore, HaltsAlone, BufferIsOwn
<1> QED
  BY <1>4, <1>5 DEF Flush

(* enqueueLatestAudioPacket: whoever empties the queue under closeGo is    *)
(* about to push again.                                                    *)
LEMMA EnqueueKeeps ==
    ASSUME IInv, NEW w \in Gens, Enqueue(w)
    PROVE  IInv'
<1> USE DEF IInv
<1> DEFINE Step == [at : {"push", "evict", "again"}, pkt : Pkt, run : Nat]
<1>1. /\ UNCHANGED <<gen, peer, state, life, runtime, rtp, clock, packets, producer, buffer, flush>>
      /\ enqueue[w].at # "idle"
  BY DEF Enqueue, Push, Evict, Again, Enqueuing, connVars
<1>2. enqueue[w] \in Step /\ queue \in Seq(Pkt) /\ DOMAIN enqueue = Gens
  BY <1>1 DEF QueueShape, Idle
<1>3. /\ \/ enqueue' = [enqueue EXCEPT ![w] = Idle]
         \/ enqueue' = [enqueue EXCEPT ![w] = [enqueue[w] EXCEPT !.at = "evict"]]
         \/ enqueue' = [enqueue EXCEPT ![w] = [enqueue[w] EXCEPT !.at = "again"]]
      /\ \/ queue' = queue \/ queue' = Append(queue, enqueue[w].pkt) \/ (queue # <<>> /\ queue' = Tail(queue))
  BY DEF Enqueue, Push, Evict, Again, EnqueueStep
<1>4. /\ [enqueue[w] EXCEPT !.at = "evict"] \in Step
      /\ [enqueue[w] EXCEPT !.at = "again"] \in Step
  BY <1>2
<1>5. /\ DOMAIN enqueue' = Gens
      /\ \A v \in Gens : enqueue'[v] = Idle \/ enqueue'[v] \in Step
  <2> HIDE DEF Step
  <2>1. \A v \in Gens : enqueue[v] = Idle \/ enqueue[v] \in Step
    BY DEF QueueShape, Step
  <2>2. PICK x \in {Idle} \cup Step : enqueue' = [enqueue EXCEPT ![w] = x]
    BY <1>3, <1>4
  <2>3. DOMAIN enqueue' = Gens /\ enqueue'[w] = x /\ \A v \in Gens \ {w} : enqueue'[v] = enqueue[v]
    BY <1>2, <2>2
  <2> QED
    BY <2>1, <2>2, <2>3
<1>6. queue' \in Seq(Pkt)
  <2>1. enqueue[w].pkt \in Pkt
    BY <1>2
  <2>2. Append(queue, enqueue[w].pkt) \in Seq(Pkt) /\ (queue # <<>> => Tail(queue) \in Seq(Pkt))
    BY <1>2, <2>1
  <2> QED
    BY <1>2, <1>3, <2>2
<1>7. QueueShape'
  BY <1>1, <1>5, <1>6 DEF QueueShape
<1>8. OneAtATime'
  <2>1. enqueue[Capture] = Idle => enqueue'[Capture] = Idle
    BY <1>1, <1>2, <1>3, Constants DEF Idle, Capture
  <2> QED
    BY <1>1, <2>1 DEF OneAtATime
<1>9. DrainIsServed'
  <2> SUFFICES ASSUME runtime.halting = "receive", queue' = <<>>
               PROVE  \E g \in Gens : enqueue'[g].at = "again" /\ runtime.on /\ enqueue'[g].run = runtime.run
    BY <1>1 DEF DrainIsServed, Reaches
  <2>1. CASE queue # <<>>
    <3>1. queue' # queue /\ queue' # Append(queue, enqueue[w].pkt)
      BY <1>2, <2>1
    <3>2. Evict(w) /\ Reaches(w)
      BY <1>3, <3>1 DEF Enqueue, Push, Evict, Again
    <3> QED
      BY <1>1, <1>2, <3>2 DEF Evict, EnqueueStep, Reaches
  <2>2. CASE queue = <<>>
    <3>1. PICK g \in Gens : enqueue[g].at = "again" /\ Reaches(g)
      BY <2>2 DEF DrainIsServed
    <3>2. g # w
      <4> SUFFICES ASSUME g = w PROVE FALSE
        OBVIOUS
      <4>1. Again(w) /\ ~Full
        BY <3>1, <2>2, Constants DEF Enqueue, Push, Evict, Again, Enqueuing, Full
      <4>2. queue' = Append(queue, enqueue[w].pkt)
        BY <3>1, <4>1 DEF Again
      <4> QED
        BY <1>2, <4>2
    <3> QED
      BY <1>2, <1>3, <3>1, <3>2 DEF Reaches
  <2> QED
    BY <2>1, <2>2
<1> QED
  BY <1>1, <1>7, <1>8, <1>9
     DEF ConnShape, ProducerShape, NilMeanwhile, ClearedBefore, HaltsAlone, BufferIsOwn, NothingStranded

(* audioSenderGoroutine, which rests once closeGo has stopped it.          *)
LEMMA SenderKeeps ==
    ASSUME IInv, Pop \/ Write
    PROVE  IInv'
<1> USE DEF IInv
<1>1. UNCHANGED <<gen, peer, state, life, runtime, rtp, clock, packets, producer, buffer, flush, enqueue>>
  BY DEF Pop, Write, connVars
<1>2. queue' = queue \/ (queue # <<>> /\ queue' = Tail(queue) /\ runtime.halting # "receive")
  BY DEF Pop, Write
<1>3. queue' \in Seq(Pkt)
  <2>1. queue \in Seq(Pkt)
    BY DEF QueueShape
  <2> QED
    BY <1>2, <2>1
<1>4. QueueShape'
  BY <1>1, <1>3 DEF QueueShape
<1>5. DrainIsServed'
  BY <1>1, <1>2 DEF DrainIsServed, Reaches
<1> QED
  BY <1>1, <1>4, <1>5 DEF ConnShape, ProducerShape, NilMeanwhile, ClearedBefore, HaltsAlone, OneAtATime,
                          BufferIsOwn, NothingStranded

(* closeGo and startMediaRuntime.                                          *)
LEMMA RuntimeKeeps ==
    ASSUME IInv, Halt \/ SenderStops \/ Drain \/ Receive \/ Drained \/ DropBuffer \/ StartRuntime
    PROVE  IInv'
<1> USE DEF IInv
<1>1. /\ UNCHANGED <<gen, peer, state, life, rtp, clock, packets, producer, flush, enqueue>>
      /\ buffer' = buffer \/ buffer' = <<>>
      /\ queue' = queue \/ queue' = <<>> \/ (queue # <<>> /\ queue' = Tail(queue))
  BY DEF Halt, SenderStops, Drain, Receive, Drained, DropBuffer, StartRuntime, Halting, connVars, audioVars
<1>2. buffer' \in Seq(Pkt) /\ queue' \in Seq(Pkt)
  <2>1. buffer \in Seq(Pkt) /\ queue \in Seq(Pkt) /\ <<>> \in Seq(Pkt)
    BY DEF QueueShape
  <2>2. queue # <<>> => Tail(queue) \in Seq(Pkt)
    BY <2>1
  <2>3. buffer' \in Seq(Pkt)
    <3>1. CASE buffer' = buffer
      BY <2>1, <3>1
    <3>2. CASE buffer' = <<>>
      BY <2>1, <3>2
    <3> QED
      BY <1>1, <3>1, <3>2
  <2>4. queue' \in Seq(Pkt)
    <3>1. CASE queue' = queue
      BY <2>1, <3>1
    <3>2. CASE queue' = <<>>
      BY <2>1, <3>2
    <3>3. CASE queue # <<>> /\ queue' = Tail(queue)
      BY <2>2, <3>3
    <3> QED
      BY <1>1, <3>1, <3>2, <3>3
  <2> QED
    BY <2>3, <2>4
<1>3. runtime \in [on : BOOLEAN, halting : {"no", "sender", "queue", "receive", "buffer", "peer"}, run : Nat]
  BY DEF QueueShape
<1>4. /\ runtime' \in [on : BOOLEAN, halting : {"no", "sender", "queue", "receive", "buffer", "peer"}, run : Nat]
      /\ runtime'.halting = "no" \/ life.at = "idle"
      /\ runtime'.halting # "receive" \/ queue' # <<>>
  <2>1. CASE Halt
    BY <2>1, <1>3 DEF Halt, Halting, At
  <2>2. CASE SenderStops \/ Drain \/ Receive \/ DropBuffer
    BY <2>2, <1>3 DEF SenderStops, Drain, Receive, DropBuffer, Halting, HaltsAlone
  <2>3. CASE Drained
    BY <2>3, <1>3 DEF Drained, HaltsAlone
  <2>4. CASE StartRuntime
    <3>1. runtime.run + 1 \in Nat
      BY <1>3
    <3> QED
      BY <2>4, <3>1, <1>3 DEF StartRuntime
  <2> QED
    BY <2>1, <2>2, <2>3, <2>4
<1>5. ConnShape' /\ ProducerShape' /\ QueueShape'
  BY <1>1, <1>2, <1>4 DEF ConnShape, ProducerShape, QueueShape
<1>6. NilMeanwhile' /\ ClearedBefore' /\ HaltsAlone' /\ OneAtATime'
  BY <1>1, <1>4 DEF NilMeanwhile, ClearedBefore, HaltsAlone, OneAtATime
<1>7. BufferIsOwn' /\ NothingStranded'
  BY <1>1 DEF BufferIsOwn, NothingStranded
<1>8. DrainIsServed'
  BY <1>4 DEF DrainIsServed
<1> QED
  BY <1>5, <1>6, <1>7, <1>8

LEMMA NextKeeps == IInv /\ [Next]_vars => IInv'
<1> SUFFICES ASSUME IInv, [Next]_vars PROVE IInv'
  OBVIOUS
<1>1. CASE Lifecycle
  <2>1. CASE \E g \in Gens : WireChanges(g) \/ StateChanges(g)
    BY <2>1, TransportKeeps
  <2> QED
    BY <1>1, <2>1, ConnectionOnly, ConnectionClears DEF Lifecycle
<1>2. CASE SendAudio
  BY <1>2, BufferKeeps, NumberingKeeps DEF SendAudio
<1>3. CASE Pop \/ Write
  BY <1>3, SenderKeeps
<1>4. CASE Halt \/ StopRuntime \/ StartRuntime
  BY <1>4, RuntimeKeeps, ConnectionOnly DEF StopRuntime
<1>5. CASE \E g \in Gens \ {Capture} : Flush(g)
  BY <1>5, FlushKeeps
<1>6. CASE \E w \in Gens : Enqueue(w)
  BY <1>6, EnqueueKeeps
<1>7. CASE UNCHANGED vars
  BY <1>7 DEF vars, connVars, netVars, audioVars, IInv, ConnShape, ProducerShape, QueueShape, NilMeanwhile,
              ClearedBefore, HaltsAlone, OneAtATime, BufferIsOwn, NothingStranded, DrainIsServed, Reaches
<1> QED
  BY <1>1, <1>2, <1>3, <1>4, <1>5, <1>6, <1>7 DEF Next

(* The three together are invariant only with the shape of the state.      *)
LEMMA Invariance == Spec => []IInv
<1> QED
  BY InitIInv, NextKeeps, PTL DEF Spec

(* clearAudioConnectionBuffer comes before the next peer is installed, and *)
(* sendAudioPacket buffers for the peer there is: the buffer never holds a *)
(* packet made for an earlier peer.                                        *)
THEOREM BufferOfThePeer == Spec => []BufferIsOwn
<1>1. IInv => BufferIsOwn
  BY DEF IInv
<1> QED
  BY <1>1, Invariance, PTL

(* The test of connectionState and the append are one critical section,    *)
(* and every callback that sets "connected" flushes after it: no packet is *)
(* left in the buffer of a connected peer.                                 *)
THEOREM BufferIsFlushed == Spec => []NothingStranded
<1>1. IInv => NothingStranded
  BY DEF IInv
<1> QED
  BY <1>1, Invariance, PTL

(* closeGo waits for a packet only while there is one, or while a callback *)
(* that evicted one is about to push its own: it does not wait for ever.   *)
THEOREM DrainEnds == Spec => []DrainIsServed
<1>1. IInv => DrainIsServed
  BY DEF IInv
<1> QED
  BY <1>1, Invariance, PTL

-----------------------------------------------------------------------------
(* Who holds a payload.  A place is the buffer, the queue, the sender, the *)
(* capture thread, or what one of those who flush or enqueue has in hand;  *)
(* no packet is in two places, or twice in one.                            *)
Places == {<<"buffer", 0>>, <<"queue", 0>>, <<"sender", 0>>, <<"producer", 0>>}
          \cup ({"flush", "hand"} \X Gens)

Numbers(s) == {s[i].n : i \in DOMAIN s}
Spread(s) == \A i, j \in DOMAIN s : s[i].n = s[j].n => i = j
InHand(step) == IF step = Idle THEN {} ELSE {step.pkt.n}

HeldIn(b, q, s, c, f, e) ==
    [x \in Places |->
        IF x = <<"buffer", 0>> THEN Numbers(b)
        ELSE IF x = <<"queue", 0>> THEN Numbers(q)
        ELSE IF x = <<"sender", 0>> THEN (IF s = Idle THEN {} ELSE {s.n})
        ELSE IF x = <<"producer", 0>> THEN InHand(c)
        ELSE IF x[1] = "flush" THEN Numbers(f[x[2]].pkts)
        ELSE InHand(e[x[2]])]
Held == HeldIn(buffer, queue, sender, producer, flush, enqueue)

Apart(h) == \A x, y \in Places : x # y => h[x] \cap h[y] = {}

PlacedOnce ==
    /\ Apart(Held)
    /\ \A x \in Places : Held[x] \subseteq 1 .. packets
    /\ Spread(buffer) /\ Spread(queue) /\ \A g \in Gens : Spread(flush[g].pkts)

HeldFacts(h, b, q, s, c, f, e) ==
    /\ h[<<"buffer", 0>>] = Numbers(b)
    /\ h[<<"queue", 0>>] = Numbers(q)
    /\ h[<<"sender", 0>>] = (IF s = Idle THEN {} ELSE {s.n})
    /\ h[<<"producer", 0>>] = InHand(c)
    /\ \A g \in Gens : h[<<"flush", g>>] = Numbers(f[g].pkts)
    /\ \A g \in Gens : h[<<"hand", g>>] = InHand(e[g])

LEMMA HeldIsThere ==
    ASSUME NEW b, NEW q, NEW s, NEW c, NEW f, NEW e
    PROVE  HeldFacts(HeldIn(b, q, s, c, f, e), b, q, s, c, f, e)
<1> DEFINE h == HeldIn(b, q, s, c, f, e)
<1>1. \A g \in Gens : <<"flush", g>> \in Places /\ <<"hand", g>> \in Places
  BY DEF Places
<1>2. h[<<"buffer", 0>>] = Numbers(b) /\ h[<<"queue", 0>>] = Numbers(q)
      /\ h[<<"sender", 0>>] = (IF s = Idle THEN {} ELSE {s.n})
      /\ h[<<"producer", 0>>] = InHand(c)
  BY DEF HeldIn, Places
<1>3. ASSUME NEW g \in Gens
      PROVE  h[<<"flush", g>>] = Numbers(f[g].pkts) /\ h[<<"hand", g>>] = InHand(e[g])
  BY <1>1 DEF HeldIn
<1> QED
  BY <1>2, <1>3 DEF HeldFacts

LEMMA HeldAt ==
    /\ HeldFacts(Held, buffer, queue, sender, producer, flush, enqueue)
    /\ HeldFacts(Held', buffer', queue', sender', producer', flush', enqueue')
  BY HeldIsThere DEF Held

LEMMA PlaceKinds ==
    /\ {<<"buffer", 0>>, <<"queue", 0>>, <<"sender", 0>>, <<"producer", 0>>} \subseteq Places
    /\ \A g \in Gens : <<"flush", g>> \in Places /\ <<"hand", g>> \in Places
    /\ \A x \in Places : \/ x \in {<<"buffer", 0>>, <<"queue", 0>>, <<"sender", 0>>, <<"producer", 0>>}
                         \/ \E g \in Gens : x = <<"flush", g>> \/ x = <<"hand", g>>
  BY DEF Places

LEMMA EmptySpread == Numbers(<<>>) = {} /\ Spread(<<>>)
  BY DEF Numbers, Spread

LEMMA TailSpread ==
    ASSUME NEW s \in Seq(Pkt), s # <<>>, Spread(s)
    PROVE  /\ Spread(Tail(s)) /\ Numbers(Tail(s)) \subseteq Numbers(s)
           /\ Head(s).n \in Numbers(s) /\ Head(s).n \notin Numbers(Tail(s))
<1>1. /\ Len(s) \in Nat \ {0} /\ DOMAIN s = 1 .. Len(s)
      /\ Tail(s) \in Seq(Pkt) /\ Len(Tail(s)) = Len(s) - 1 /\ DOMAIN Tail(s) = 1 .. (Len(s) - 1)
      /\ \A i \in DOMAIN Tail(s) : i + 1 \in DOMAIN s /\ Tail(s)[i] = s[i + 1]
      /\ 1 \in DOMAIN s /\ Head(s) = s[1]
  OBVIOUS
<1>2. Spread(Tail(s))
  BY <1>1 DEF Spread
<1>3. Numbers(Tail(s)) \subseteq Numbers(s)
  BY <1>1 DEF Numbers
<1>4. Head(s).n \in Numbers(s)
  BY <1>1 DEF Numbers
<1>5. Head(s).n \notin Numbers(Tail(s))
  <2> SUFFICES ASSUME NEW i \in DOMAIN Tail(s), Tail(s)[i].n = s[1].n PROVE FALSE
    BY <1>1 DEF Numbers
  <2>1. i + 1 = 1
    BY <1>1 DEF Spread
  <2> QED
    BY <1>1, <2>1
<1> QED
  BY <1>2, <1>3, <1>4, <1>5

LEMMA AppendSpread ==
    ASSUME NEW s \in Seq(Pkt), NEW pkt \in Pkt, Spread(s)
    PROVE  /\ Numbers(Append(s, pkt)) = Numbers(s) \cup {pkt.n}
           /\ pkt.n \notin Numbers(s) => Spread(Append(s, pkt))
<1> DEFINE t == Append(s, pkt)
<1>1. /\ Len(s) \in Nat /\ DOMAIN s = 1 .. Len(s) /\ DOMAIN t = 1 .. (Len(s) + 1)
      /\ \A i \in DOMAIN s : t[i] = s[i]
      /\ t[Len(s) + 1] = pkt
  OBVIOUS
<1> HIDE DEF t
<1>2. DOMAIN t = DOMAIN s \cup {Len(s) + 1} /\ Len(s) + 1 \notin DOMAIN s
  BY <1>1
<1>3. Numbers(t) = Numbers(s) \cup {pkt.n}
  BY <1>1, <1>2 DEF Numbers
<1>4. ASSUME pkt.n \notin Numbers(s) PROVE Spread(t)
  <2>1. \A i \in DOMAIN s : s[i].n # pkt.n
    BY <1>4 DEF Numbers
  <2> QED
    BY <1>1, <1>2, <2>1 DEF Spread
<1> QED
  BY <1>3, <1>4 DEF t

(* What is taken out of a place, and what comes from one place to another, *)
(* leaves the places apart.                                                *)
LEMMA Placed ==
    ASSUME PlacedOnce, packets \in Nat, packets' \in Nat, packets <= packets',
           NEW x \in Places, NEW y \in Places,
           \A z \in Places \ {x, y} : Held'[z] \subseteq Held[z],
           Held'[x] \cup Held'[y] \subseteq Held[x] \cup Held[y] \cup (packets + 1) .. packets',
           x # y => Held'[x] \cap Held'[y] = {},
           Spread(buffer'), Spread(queue'), \A g \in Gens : Spread(flush'[g].pkts)
    PROVE  PlacedOnce'
<1> DEFINE fresh == (packets + 1) .. packets'
<1>1. /\ \A z \in Places : Held[z] \cap fresh = {}
      /\ \A u, v \in Places : u # v => Held[u] \cap Held[v] = {}
  BY DEF PlacedOnce, Apart
<1>2. fresh \subseteq 1 .. packets' /\ 1 .. packets \subseteq 1 .. packets'
  OBVIOUS
<1>3. \A z \in Places : Held[z] \subseteq 1 .. packets'
  BY <1>2 DEF PlacedOnce
<1> HIDE DEF fresh
<1>4. Held'[x] \cup Held'[y] \subseteq Held[x] \cup Held[y] \cup fresh
  BY DEF fresh
<1>5. ASSUME NEW z \in Places \ {x, y} PROVE Held'[z] \cap (Held'[x] \cup Held'[y]) = {}
  <2>1. Held[z] \cap Held[x] = {} /\ Held[z] \cap Held[y] = {} /\ Held[z] \cap fresh = {}
    BY <1>1
  <2> QED
    BY <1>4, <2>1
<1>6. Apart(Held')
  <2> SUFFICES ASSUME NEW u \in Places, NEW v \in Places, u # v PROVE Held'[u] \cap Held'[v] = {}
    BY DEF Apart
  <2>1. CASE u \in {x, y} /\ v \in {x, y}
    BY <2>1
  <2>2. CASE u \in {x, y} /\ v \notin {x, y}
    BY <1>5, <2>2
  <2>3. CASE u \notin {x, y} /\ v \in {x, y}
    BY <1>5, <2>3
  <2>4. CASE u \notin {x, y} /\ v \notin {x, y}
    BY <1>1, <2>4
  <2> QED
    BY <2>1, <2>2, <2>3, <2>4
<1>7. \A z \in Places : Held'[z] \subseteq 1 .. packets'
  BY <1>2, <1>3, <1>4
<1> QED
  BY <1>6, <1>7 DEF PlacedOnce, Apart

(* A step that only takes payloads out.                                    *)
LEMMA TakenOut ==
    ASSUME IInv, PlacedOnce, packets' = packets,
           buffer' \in {buffer, <<>>},
           queue' \in {queue, <<>>} \/ (queue # <<>> /\ queue' = Tail(queue)),
           sender' \in {sender, Idle},
           InHand(producer') \subseteq InHand(producer),
           \A g \in Gens : flush'[g].pkts = flush[g].pkts,
           \A g \in Gens : InHand(enqueue'[g]) \subseteq InHand(enqueue[g])
    PROVE  PlacedOnce'
<1>1. packets \in Nat /\ buffer \in Seq(Pkt) /\ queue \in Seq(Pkt)
  BY DEF IInv, ProducerShape, QueueShape
<1>2. Numbers(buffer') \subseteq Numbers(buffer) /\ Spread(buffer')
  BY EmptySpread DEF PlacedOnce
<1>3. Numbers(queue') \subseteq Numbers(queue) /\ Spread(queue')
  BY <1>1, EmptySpread, TailSpread DEF PlacedOnce
<1>4. \A z \in Places : Held'[z] \subseteq Held[z]
  <2>1. \A g \in Gens : Held'[<<"flush", g>>] \subseteq Held[<<"flush", g>>]
                        /\ Held'[<<"hand", g>>] \subseteq Held[<<"hand", g>>]
    BY HeldAt DEF HeldFacts
  <2>2. /\ Held'[<<"buffer", 0>>] \subseteq Held[<<"buffer", 0>>]
        /\ Held'[<<"queue", 0>>] \subseteq Held[<<"queue", 0>>]
        /\ Held'[<<"sender", 0>>] \subseteq Held[<<"sender", 0>>]
        /\ Held'[<<"producer", 0>>] \subseteq Held[<<"producer", 0>>]
    BY <1>2, <1>3, HeldAt DEF HeldFacts
  <2> QED
    BY <2>1, <2>2, PlaceKinds
<1>5. \A g \in Gens : Spread(flush'[g].pkts)
  BY DEF PlacedOnce
<1>6. <<"buffer", 0>> \in Places
  BY PlaceKinds
<1> QED
  BY <1>1, <1>2, <1>3, <1>4, <1>5, <1>6, Placed

LEMMA ConnectionPlaces ==
    ASSUME IInv, PlacedOnce, Lifecycle
    PROVE  PlacedOnce'
<1>1. CASE BeginCreate \/ BeginClose \/ CloseOld \/ Bump \/ VideoStage \/ Install \/ InstallFails
  BY <1>1, TakenOut DEF BeginCreate, BeginClose, CloseOld, Bump, VideoStage, Install, InstallFails, OthersKeep,
         LoseTrack, audioVars
<1>2. CASE Discard \/ ResetStep \/ ClearBuffer
  BY <1>2, TakenOut DEF Discard, ResetStep, ClearBuffer
<1>3. ASSUME NEW g \in Gens, WireChanges(g) \/ StateChanges(g)
      PROVE  PlacedOnce'
  <2>1. /\ UNCHANGED <<packets, producer, buffer, enqueue, queue, sender>>
        /\ flush' = flush \/ flush' = [flush EXCEPT ![g].at = "take"]
    BY <1>3 DEF WireChanges, StateChanges, OthersKeep, audioVars
  <2>2. \A h \in Gens : flush'[h].pkts = flush[h].pkts
    BY <2>1 DEF IInv, QueueShape
  <2> QED
    BY <2>1, <2>2, TakenOut
<1> QED
  BY <1>1, <1>2, <1>3 DEF Lifecycle

LEMMA RuntimePlaces ==
    ASSUME IInv, PlacedOnce,
           Halt \/ SenderStops \/ Drain \/ Receive \/ Drained \/ DropBuffer \/ StartRuntime \/ Write
    PROVE  PlacedOnce'
<1>1. /\ packets' = packets /\ producer' = producer /\ flush' = flush /\ enqueue' = enqueue
      /\ buffer' \in {buffer, <<>>}
      /\ queue' \in {queue, <<>>} \/ (queue # <<>> /\ queue' = Tail(queue))
      /\ sender' \in {sender, Idle}
  BY DEF Halt, SenderStops, Drain, Receive, Drained, DropBuffer, StartRuntime, Write, Halting, audioVars
<1> QED
  BY <1>1, TakenOut

LEMMA PopPlaces ==
    ASSUME IInv, PlacedOnce, Pop
    PROVE  PlacedOnce'
<1> DEFINE x == <<"queue", 0>>
           y == <<"sender", 0>>
<1>1. /\ UNCHANGED <<packets, producer, buffer, flush, enqueue>>
      /\ queue # <<>> /\ queue' = Tail(queue) /\ sender' = Head(queue)
  BY DEF Pop
<1>2. packets \in Nat /\ queue \in Seq(Pkt)
  BY DEF IInv, ProducerShape, QueueShape
<1>3. /\ Spread(queue') /\ Numbers(queue') \subseteq Numbers(queue)
      /\ Head(queue).n \in Numbers(queue) /\ Head(queue).n \notin Numbers(queue')
  BY <1>1, <1>2, TailSpread DEF PlacedOnce
<1>4. Held'[x] = Numbers(queue') /\ Held[x] = Numbers(queue) /\ Held'[y] \subseteq {Head(queue).n}
  BY <1>1, HeldAt DEF HeldFacts
<1>5. \A z \in Places \ {x, y} : Held'[z] \subseteq Held[z]
  <2>1. \A g \in Gens : Held'[<<"flush", g>>] = Held[<<"flush", g>>] /\ Held'[<<"hand", g>>] = Held[<<"hand", g>>]
    BY <1>1, HeldAt DEF HeldFacts
  <2>2. Held'[<<"buffer", 0>>] = Held[<<"buffer", 0>>] /\ Held'[<<"producer", 0>>] = Held[<<"producer", 0>>]
    BY <1>1, HeldAt DEF HeldFacts
  <2> QED
    BY <2>1, <2>2, PlaceKinds
<1>6. Spread(buffer') /\ \A g \in Gens : Spread(flush'[g].pkts)
  BY <1>1 DEF PlacedOnce
<1>7. x \in Places /\ y \in Places
  BY PlaceKinds
<1> HIDE DEF x, y
<1>8. Held'[x] \cup Held'[y] \subseteq Held[x] \cup Held[y]
  BY <1>3, <1>4
<1>9. Held'[x] \cap Held'[y] = {}
  BY <1>3, <1>4
<1> QED
  BY <1>1, <1>2, <1>3, <1>5, <1>6, <1>7, <1>8, <1>9, Placed

LEMMA BufferPlaces ==
    ASSUME IInv, PlacedOnce, Buffer
    PROVE  PlacedOnce'
<1> DEFINE x == <<"buffer", 0>>
           kept == IF Len(buffer) < BufferCap THEN buffer ELSE Tail(buffer)
<1>1. PICK pts \in Clocks : /\ Called(pts)
                            /\ rtp' = Past(Based(rtp, pts), pts)
                            /\ buffer' = Append(kept, Numbered(Based(rtp, pts), Handed, pts))
  BY DEF Buffer
<1> DEFINE pkt == Numbered(Based(rtp, pts), Handed, pts)
<1>2. /\ UNCHANGED <<producer, flush, enqueue, queue, sender>>
      /\ packets' = packets + 1 /\ buffer' = Append(kept, pkt)
  BY <1>1 DEF Buffer, Called
<1>3. /\ packets \in Nat /\ buffer \in Seq(Pkt)
  BY DEF IInv, ProducerShape, QueueShape
<1>4. pkt \in Pkt /\ pkt.n = packets + 1
  <2>1. rtp \in NumberedState /\ pts \in Nat /\ Handed \in Pkt /\ Handed.n = packets + 1
    BY <1>1, HandedTypes DEF IInv, ProducerShape, Handed
  <2>2. pkt \in Pkt
    BY <2>1, NumberedTypes
  <2>3. pkt.n = Handed.n
    BY <2>1 DEF Numbered, Pkt
  <2> QED
    BY <2>1, <2>2, <2>3
<1> HIDE DEF pkt
<1>5. kept \in Seq(Pkt) /\ Spread(kept) /\ Numbers(kept) \subseteq Numbers(buffer)
  <2>1. CASE Len(buffer) < BufferCap
    BY <2>1, <1>3 DEF PlacedOnce
  <2>2. CASE ~(Len(buffer) < BufferCap)
    <3>1. buffer # <<>>
      BY <2>2, PeerAudioAssumption
    <3> QED
      BY <2>2, <3>1, <1>3, TailSpread DEF PlacedOnce
  <2> QED
    BY <2>1, <2>2
<1> HIDE DEF kept
<1>6. Held'[x] = Numbers(buffer') /\ Held[x] = Numbers(buffer)
  BY HeldAt DEF HeldFacts
<1>7. x \in Places
  BY PlaceKinds
<1>8. Numbers(buffer) \subseteq 1 .. packets
  BY <1>6, <1>7 DEF PlacedOnce
<1>9. Spread(buffer') /\ Numbers(buffer') \subseteq Numbers(buffer) \cup {packets + 1}
  <2>1. pkt.n \notin Numbers(kept)
    BY <1>3, <1>4, <1>5, <1>8
  <2> QED
    BY <1>2, <1>4, <1>5, <2>1, AppendSpread
<1>10. \A z \in Places \ {x} : Held'[z] \subseteq Held[z]
  <2>1. \A g \in Gens : Held'[<<"flush", g>>] = Held[<<"flush", g>>] /\ Held'[<<"hand", g>>] = Held[<<"hand", g>>]
    BY <1>2, HeldAt DEF HeldFacts
  <2>2. /\ Held'[<<"queue", 0>>] = Held[<<"queue", 0>>] /\ Held'[<<"sender", 0>>] = Held[<<"sender", 0>>]
        /\ Held'[<<"producer", 0>>] = Held[<<"producer", 0>>]
    BY <1>2, HeldAt DEF HeldFacts
  <2> QED
    BY <2>1, <2>2, PlaceKinds
<1>11. Spread(queue') /\ \A g \in Gens : Spread(flush'[g].pkts)
  BY <1>2 DEF PlacedOnce
<1>12. Held'[x] \cup Held'[x] \subseteq Held[x] \cup Held[x] \cup (packets + 1) .. packets'
  BY <1>2, <1>3, <1>6, <1>9
<1> HIDE DEF x
<1> QED
  BY <1>2, <1>3, <1>7, <1>9, <1>10, <1>11, <1>12, Placed

LEMMA NumberingPlaces ==
    ASSUME IInv, PlacedOnce, Take \/ Baseline \/ Number \/ TimeOf \/ Store
    PROVE  PlacedOnce'
<1> DEFINE x == <<"producer", 0>>
           y == <<"hand", Capture>>
<1>1. /\ UNCHANGED <<buffer, flush, queue, sender>>
      /\ packets \in Nat /\ Capture \in Gens /\ DOMAIN enqueue = Gens
  BY Constants DEF Take, Baseline, Number, TimeOf, Store, Working, IInv, ProducerShape, QueueShape, Capture
<1>2. /\ packets' \in Nat /\ packets <= packets'
      /\ InHand(producer') \cup InHand(enqueue'[Capture]) \subseteq InHand(producer) \cup (packets + 1) .. packets'
      /\ InHand(producer') \cap InHand(enqueue'[Capture]) = {}
      /\ \A g \in Gens \ {Capture} : enqueue'[g] = enqueue[g]
  <2>1. CASE Take
    <3>1. /\ producer'.pkt.n = packets + 1 /\ packets' = packets + 1 /\ enqueue' = enqueue /\ enqueue[Capture] = Idle
      BY <2>1 DEF Take, Called, Handed
    <3> QED
      BY <1>1, <3>1 DEF InHand
  <2>2. CASE Baseline \/ Number \/ TimeOf
    <3>1. producer # Idle /\ enqueue[Capture] = Idle /\ packets' = packets /\ enqueue' = enqueue
      BY <2>2 DEF Baseline, Number, TimeOf, Working, Idle, IInv, OneAtATime
    <3>2. producer \in [at : {"baseline", "number", "time", "store"}, pkt : Pkt, pts : Nat]
      BY <3>1 DEF IInv, ProducerShape
    <3>3. producer'.pkt.n = producer.pkt.n
      <4> DEFINE numbered == [producer EXCEPT !.at = "time", !.pkt.seq = rtp.seq]
                 timed == [producer EXCEPT !.at = "store", !.pkt.ts = Time(rtp', producer.pts)]
      <4>1. producer.pkt \in Pkt
        BY <3>2
      <4>2. CASE producer' = [producer EXCEPT !.at = "number"]
        BY <3>2, <4>2
      <4>3. CASE producer' = numbered
        BY <3>2, <4>1, <4>3 DEF Pkt
      <4>4. CASE producer' = timed
        BY <3>2, <4>1, <4>4 DEF Pkt
      <4> QED
        BY <2>2, <4>2, <4>3, <4>4 DEF Baseline, Number, TimeOf
    <3> QED
      BY <1>1, <3>1, <3>3 DEF InHand
  <2>3. CASE Store
    <3>1. producer # Idle /\ producer' = Idle /\ packets' = packets
          /\ enqueue' = [enqueue EXCEPT ![Capture] = Offering(p)]
      BY <2>3 DEF Store, Working, Idle
    <3>2. InHand(Offering(p)) \subseteq {producer.pkt.n}
      BY DEF Offering, InHand, p
    <3> QED
      BY <1>1, <3>1, <3>2 DEF InHand
  <2> QED
    BY <2>1, <2>2, <2>3
<1>3. /\ Held[x] = InHand(producer) /\ Held'[x] = InHand(producer')
      /\ Held'[y] = InHand(enqueue'[Capture])
  BY <1>1, HeldAt DEF HeldFacts
<1>4. \A z \in Places \ {x, y} : Held'[z] \subseteq Held[z]
  <2>1. ASSUME NEW g \in Gens
        PROVE  /\ Held'[<<"flush", g>>] = Held[<<"flush", g>>]
               /\ g # Capture => Held'[<<"hand", g>>] = Held[<<"hand", g>>]
    <3>1. flush'[g] = flush[g] /\ (g # Capture => enqueue'[g] = enqueue[g])
      BY <1>1, <1>2
    <3>2. Held'[<<"hand", g>>] = InHand(enqueue'[g]) /\ Held[<<"hand", g>>] = InHand(enqueue[g])
      BY HeldAt DEF HeldFacts
    <3>3. Held'[<<"flush", g>>] = Numbers(flush'[g].pkts) /\ Held[<<"flush", g>>] = Numbers(flush[g].pkts)
      BY HeldAt DEF HeldFacts
    <3> QED
      BY <3>1, <3>2, <3>3
  <2>2. /\ Held'[<<"queue", 0>>] = Held[<<"queue", 0>>] /\ Held'[<<"sender", 0>>] = Held[<<"sender", 0>>]
        /\ Held'[<<"buffer", 0>>] = Held[<<"buffer", 0>>]
    BY <1>1, HeldAt DEF HeldFacts
  <2> QED
    BY <2>1, <2>2, PlaceKinds
<1>5. Spread(buffer') /\ Spread(queue') /\ \A g \in Gens : Spread(flush'[g].pkts)
  BY <1>1 DEF PlacedOnce
<1>6. x \in Places /\ y \in Places
  BY <1>1, PlaceKinds
<1>7. Held'[x] \cup Held'[y] \subseteq Held[x] \cup Held[y] \cup (packets + 1) .. packets'
  BY <1>2, <1>3
<1>8. Held'[x] \cap Held'[y] = {}
  BY <1>2, <1>3
<1> HIDE DEF x, y
<1> QED
  BY <1>1, <1>2, <1>4, <1>5, <1>6, <1>7, <1>8, Placed

LEMMA FlushPlaces ==
    ASSUME IInv, PlacedOnce, NEW g \in Gens \ {Capture}, Flush(g)
    PROVE  PlacedOnce'
<1>1. /\ UNCHANGED <<packets, producer, queue, sender>>
      /\ packets \in Nat /\ DOMAIN enqueue = Gens /\ DOMAIN flush = Gens
      /\ flush[g].pkts \in Seq(Pkt)
      /\ flush[g] = [at |-> flush[g].at, pkts |-> flush[g].pkts]
  BY DEF Flush, TakeBuffer, FlushNext, Flushing, IInv, ProducerShape, QueueShape
<1>2. CASE TakeBuffer(g)
  <2> DEFINE x == <<"buffer", 0>>
             y == <<"flush", g>>
  <2>1. /\ buffer' = <<>> /\ enqueue' = enqueue
        /\ flush'[g].pkts = buffer
        /\ \A h \in Gens \ {g} : flush'[h] = flush[h]
    BY <1>1, <1>2 DEF TakeBuffer, NoFlush
  <2>2. /\ Held'[x] = {} /\ Held[x] = Numbers(buffer) /\ Held'[y] = Numbers(buffer)
    BY <2>1, HeldAt, EmptySpread DEF HeldFacts
  <2>3. \A z \in Places \ {x, y} : Held'[z] \subseteq Held[z]
    <3>1. ASSUME NEW h \in Gens
          PROVE  /\ Held'[<<"hand", h>>] = Held[<<"hand", h>>]
                 /\ h # g => Held'[<<"flush", h>>] = Held[<<"flush", h>>]
      <4>1. enqueue'[h] = enqueue[h] /\ (h # g => flush'[h] = flush[h])
        BY <2>1
      <4>2. Held'[<<"hand", h>>] = InHand(enqueue'[h]) /\ Held[<<"hand", h>>] = InHand(enqueue[h])
        BY HeldAt DEF HeldFacts
      <4>3. Held'[<<"flush", h>>] = Numbers(flush'[h].pkts) /\ Held[<<"flush", h>>] = Numbers(flush[h].pkts)
        BY HeldAt DEF HeldFacts
      <4> QED
        BY <4>1, <4>2, <4>3
    <3>2. /\ Held'[<<"queue", 0>>] = Held[<<"queue", 0>>] /\ Held'[<<"sender", 0>>] = Held[<<"sender", 0>>]
          /\ Held'[<<"producer", 0>>] = Held[<<"producer", 0>>]
      BY <1>1, HeldAt DEF HeldFacts
    <3> QED
      BY <3>1, <3>2, PlaceKinds
  <2>4. Spread(buffer') /\ Spread(queue') /\ \A h \in Gens : Spread(flush'[h].pkts)
    BY <1>1, <2>1, EmptySpread DEF PlacedOnce
  <2>5. x \in Places /\ y \in Places
    BY PlaceKinds
  <2> HIDE DEF x, y
  <2> QED
    BY <1>1, <2>2, <2>3, <2>4, <2>5, Placed
<1>3. CASE FlushNext(g) /\ flush[g].pkts = <<>>
  <2>1. buffer' = buffer /\ enqueue' = enqueue /\ flush' = [flush EXCEPT ![g] = NoFlush]
    BY <1>3 DEF FlushNext
  <2>2. \A h \in Gens : flush'[h].pkts = flush[h].pkts
    BY <1>1, <1>3, <2>1 DEF NoFlush
  <2> QED
    BY <1>1, <2>1, <2>2, TakenOut
<1>4. CASE FlushNext(g) /\ flush[g].pkts # <<>>
  <2> DEFINE x == <<"flush", g>>
             y == <<"hand", g>>
  <2>1. /\ buffer' = buffer
        /\ flush' = [flush EXCEPT ![g].pkts = Tail(@)]
        /\ enqueue' = [enqueue EXCEPT ![g] = Offering(Head(flush[g].pkts))]
    BY <1>4 DEF FlushNext
  <2>2. /\ flush'[g].pkts = Tail(flush[g].pkts)
        /\ \A h \in Gens \ {g} : flush'[h] = flush[h] /\ enqueue'[h] = enqueue[h]
        /\ InHand(enqueue'[g]) \subseteq {Head(flush[g].pkts).n}
    BY <1>1, <2>1 DEF Offering, InHand
  <2>3. /\ Spread(flush'[g].pkts) /\ Numbers(flush'[g].pkts) \subseteq Numbers(flush[g].pkts)
        /\ Head(flush[g].pkts).n \in Numbers(flush[g].pkts)
        /\ Head(flush[g].pkts).n \notin Numbers(flush'[g].pkts)
    <3>1. Spread(flush[g].pkts)
      BY DEF PlacedOnce
    <3> QED
      BY <1>1, <1>4, <2>2, <3>1, TailSpread
  <2>4. /\ Held'[x] = Numbers(flush'[g].pkts) /\ Held[x] = Numbers(flush[g].pkts)
        /\ Held'[y] = InHand(enqueue'[g])
    BY HeldAt DEF HeldFacts
  <2>5. \A z \in Places \ {x, y} : Held'[z] \subseteq Held[z]
    <3>1. ASSUME NEW h \in Gens \ {g}
          PROVE  /\ Held'[<<"hand", h>>] = Held[<<"hand", h>>]
                 /\ Held'[<<"flush", h>>] = Held[<<"flush", h>>]
      <4>1. flush'[h] = flush[h] /\ enqueue'[h] = enqueue[h]
        BY <2>2
      <4>2. Held'[<<"hand", h>>] = InHand(enqueue'[h]) /\ Held[<<"hand", h>>] = InHand(enqueue[h])
        BY HeldAt DEF HeldFacts
      <4>3. Held'[<<"flush", h>>] = Numbers(flush'[h].pkts) /\ Held[<<"flush", h>>] = Numbers(flush[h].pkts)
        BY HeldAt DEF HeldFacts
      <4> QED
        BY <4>1, <4>2, <4>3
    <3>2. /\ Held'[<<"queue", 0>>] = Held[<<"queue", 0>>] /\ Held'[<<"sender", 0>>] = Held[<<"sender", 0>>]
          /\ Held'[<<"producer", 0>>] = Held[<<"producer", 0>>] /\ Held'[<<"buffer", 0>>] = Held[<<"buffer", 0>>]
      BY <1>1, <2>1, HeldAt DEF HeldFacts
    <3> QED
      BY <3>1, <3>2, PlaceKinds
  <2>6. Spread(buffer') /\ Spread(queue') /\ \A h \in Gens : Spread(flush'[h].pkts)
    BY <1>1, <2>1, <2>2, <2>3 DEF PlacedOnce
  <2>7. x \in Places /\ y \in Places
    BY PlaceKinds
  <2> HIDE DEF x, y
  <2>8. Held'[x] \cup Held'[y] \subseteq Held[x] \cup Held[y]
    BY <2>2, <2>3, <2>4
  <2>9. Held'[x] \cap Held'[y] = {}
    BY <2>2, <2>3, <2>4
  <2> QED
    BY <1>1, <2>5, <2>6, <2>7, <2>8, <2>9, Placed
<1> QED
  BY <1>2, <1>3, <1>4 DEF Flush

LEMMA EnqueuePlaces ==
    ASSUME IInv, PlacedOnce, NEW w \in Gens, Enqueue(w)
    PROVE  PlacedOnce'
<1>1. /\ UNCHANGED <<packets, producer, buffer, flush, sender>>
      /\ enqueue[w].at # "idle"
  BY DEF Enqueue, Push, Evict, Again, Enqueuing
<1>2. /\ enqueue[w] # Idle
      /\ packets \in Nat /\ queue \in Seq(Pkt) /\ DOMAIN enqueue = Gens
      /\ enqueue[w] \in [at : {"push", "evict", "again"}, pkt : Pkt, run : Nat]
  BY <1>1 DEF Idle, IInv, ProducerShape, QueueShape
<1>3. \/ /\ enqueue' = [enqueue EXCEPT ![w] = Idle]
         /\ queue' = queue \/ queue' = Append(queue, enqueue[w].pkt)
      \/ /\ \/ enqueue' = [enqueue EXCEPT ![w] = [enqueue[w] EXCEPT !.at = "evict"]]
            \/ enqueue' = [enqueue EXCEPT ![w] = [enqueue[w] EXCEPT !.at = "again"]]
         /\ queue' = queue \/ (queue # <<>> /\ queue' = Tail(queue))
  BY DEF Enqueue, Push, Evict, Again, EnqueueStep
<1>4. \A g \in Gens \ {w} : enqueue'[g] = enqueue[g]
  BY <1>2, <1>3
<1>5. \/ InHand(enqueue'[w]) = {}
      \/ InHand(enqueue'[w]) \subseteq InHand(enqueue[w]) /\ (queue' = queue \/ (queue # <<>> /\ queue' = Tail(queue)))
  BY <1>2, <1>3 DEF InHand
<1>6. CASE queue' = queue \/ (queue # <<>> /\ queue' = Tail(queue))
  <2>1. \A g \in Gens : InHand(enqueue'[g]) \subseteq InHand(enqueue[g])
    BY <1>4, <1>5
  <2> QED
    BY <1>1, <1>6, <2>1, TakenOut
<1>7. CASE InHand(enqueue'[w]) = {} /\ queue' = Append(queue, enqueue[w].pkt)
  <2> DEFINE x == <<"queue", 0>>
             y == <<"hand", w>>
  <2>1. /\ Held'[x] = Numbers(queue') /\ Held[x] = Numbers(queue)
        /\ Held'[y] = {} /\ Held[y] = {enqueue[w].pkt.n}
    BY <1>2, <1>7, HeldAt DEF HeldFacts, InHand
  <2>2. x \in Places /\ y \in Places
    BY PlaceKinds
  <2>3. enqueue[w].pkt.n \notin Numbers(queue)
    <3>1. x # y
      OBVIOUS
    <3> HIDE DEF x, y
    <3> QED
      BY <2>1, <2>2, <3>1 DEF PlacedOnce, Apart
  <2>4. Spread(queue') /\ Numbers(queue') = Numbers(queue) \cup {enqueue[w].pkt.n}
    <3>1. enqueue[w].pkt \in Pkt
      BY <1>2
    <3> QED
      BY <1>2, <1>7, <2>3, <3>1, AppendSpread DEF PlacedOnce
  <2>5. \A z \in Places \ {x, y} : Held'[z] \subseteq Held[z]
    <3>1. ASSUME NEW h \in Gens
          PROVE  /\ Held'[<<"flush", h>>] = Held[<<"flush", h>>]
                 /\ h # w => Held'[<<"hand", h>>] = Held[<<"hand", h>>]
      <4>1. flush'[h] = flush[h] /\ (h # w => enqueue'[h] = enqueue[h])
        BY <1>1, <1>4
      <4>2. Held'[<<"hand", h>>] = InHand(enqueue'[h]) /\ Held[<<"hand", h>>] = InHand(enqueue[h])
        BY HeldAt DEF HeldFacts
      <4>3. Held'[<<"flush", h>>] = Numbers(flush'[h].pkts) /\ Held[<<"flush", h>>] = Numbers(flush[h].pkts)
        BY HeldAt DEF HeldFacts
      <4> QED
        BY <4>1, <4>2, <4>3
    <3>2. /\ Held'[<<"buffer", 0>>] = Held[<<"buffer", 0>>] /\ Held'[<<"sender", 0>>] = Held[<<"sender", 0>>]
          /\ Held'[<<"producer", 0>>] = Held[<<"producer", 0>>]
      BY <1>1, HeldAt DEF HeldFacts
    <3> QED
      BY <3>1, <3>2, PlaceKinds
  <2>6. Spread(buffer') /\ \A h \in Gens : Spread(flush'[h].pkts)
    BY <1>1 DEF PlacedOnce
  <2> HIDE DEF x, y
  <2>7. Held'[x] \cup Held'[y] \subseteq Held[x] \cup Held[y] /\ Held'[x] \cap Held'[y] = {}
    BY <2>1, <2>4
  <2> QED
    BY <1>1, <1>2, <2>2, <2>4, <2>5, <2>6, <2>7, Placed
<1> QED
  BY <1>2, <1>3, <1>6, <1>7 DEF InHand

LEMMA InitPlaces == Init => PlacedOnce
<1> SUFFICES ASSUME Init PROVE PlacedOnce
  OBVIOUS
<1>1. \A x \in Places : Held[x] = {}
  <2>1. \A g \in Gens : Held[<<"flush", g>>] = {} /\ Held[<<"hand", g>>] = {}
    BY HeldAt, EmptySpread DEF HeldFacts, Init, NoFlush, InHand
  <2>2. Held[<<"buffer", 0>>] = {} /\ Held[<<"queue", 0>>] = {} /\ Held[<<"sender", 0>>] = {}
        /\ Held[<<"producer", 0>>] = {}
    BY HeldAt, EmptySpread DEF HeldFacts, Init, InHand
  <2> QED
    BY <2>1, <2>2, PlaceKinds
<1>2. Spread(buffer) /\ Spread(queue) /\ \A g \in Gens : Spread(flush[g].pkts)
  BY EmptySpread DEF Init, NoFlush
<1> QED
  BY <1>1, <1>2 DEF PlacedOnce, Apart

LEMMA NextPlaces == IInv /\ PlacedOnce /\ [Next]_vars => PlacedOnce'
<1> SUFFICES ASSUME IInv, PlacedOnce, [Next]_vars PROVE PlacedOnce'
  OBVIOUS
<1>1. CASE Lifecycle \/ (runtime.halting = "peer" /\ BeginClose)
  BY <1>1, ConnectionPlaces DEF Lifecycle
<1>2. CASE SendAudio
  BY <1>2, BufferPlaces, NumberingPlaces DEF SendAudio
<1>3. CASE Pop
  BY <1>3, PopPlaces
<1>4. CASE Write \/ Halt \/ StopRuntime \/ StartRuntime
  BY <1>1, <1>4, RuntimePlaces DEF StopRuntime
<1>5. CASE \E g \in Gens \ {Capture} : Flush(g)
  BY <1>5, FlushPlaces
<1>6. CASE \E w \in Gens : Enqueue(w)
  BY <1>6, EnqueuePlaces
<1>7. CASE UNCHANGED vars
  BY <1>7, TakenOut DEF vars, audioVars
<1> QED
  BY <1>1, <1>2, <1>3, <1>4, <1>5, <1>6, <1>7 DEF Next

(* A packet that is in one place at most is counted once.                  *)
LEMMA AtMostOne ==
    ASSUME NEW S, \A x, y \in S : x = y
    PROVE  Cardinality(S) = IF S = {} THEN 0 ELSE 1
<1>1. CASE S = {}
  BY <1>1, FS_EmptySet
<1>2. CASE S # {}
  <2>1. PICK x \in S : TRUE
    BY <1>2
  <2>2. S = {x}
    BY <2>1
  <2> QED
    BY <1>2, <2>2, FS_Singleton
<1> QED
  BY <1>1, <1>2

LEMMA CountedOnce ==
    ASSUME IInv, PlacedOnce, NEW n \in 1 .. packets
    PROVE  Copies(n) <= 1
<1> DEFINE B == {i \in DOMAIN buffer : buffer[i].n = n}
           Q == {i \in DOMAIN queue : queue[i].n = n}
           H == {g \in Gens : enqueue[g] # Idle /\ enqueue[g].pkt.n = n}
           F == {g \in Gens : \E i \in DOMAIN flush[g].pkts : flush[g].pkts[i].n = n}
           s == IF sender # Idle /\ sender.n = n THEN 1 ELSE 0
<1>1. Copies(n) = Cardinality(B) + Cardinality(Q) + Cardinality(H) + Cardinality(F) + s
  BY DEF Copies
<1>2. \A x, y \in Places : n \in Held[x] /\ n \in Held[y] => x = y
  BY DEF PlacedOnce, Apart
<1>3. /\ B # {} => n \in Held[<<"buffer", 0>>]
      /\ Q # {} => n \in Held[<<"queue", 0>>]
      /\ s = 1 => n \in Held[<<"sender", 0>>]
  BY HeldAt DEF HeldFacts, Numbers
<1>4. /\ \A g \in H : n \in Held[<<"hand", g>>]
      /\ \A g \in F : n \in Held[<<"flush", g>>]
  <2>1. ASSUME NEW g \in H PROVE n \in Held[<<"hand", g>>]
    <3>1. n \in InHand(enqueue[g])
      BY DEF InHand
    <3> QED
      BY <3>1, HeldAt DEF HeldFacts
  <2>2. ASSUME NEW g \in F PROVE n \in Held[<<"flush", g>>]
    <3>1. n \in Numbers(flush[g].pkts)
      BY DEF Numbers
    <3> QED
      BY <3>1, HeldAt DEF HeldFacts
  <2> QED
    BY <2>1, <2>2
<1>5. \A i, j \in B : i = j
  BY DEF PlacedOnce, Spread
<1>6. \A i, j \in Q : i = j
  BY DEF PlacedOnce, Spread
<1>7. \A g, h \in H : g = h
  <2> SUFFICES ASSUME NEW g \in H, NEW h \in H PROVE g = h
    OBVIOUS
  <2>1. <<"hand", g>> = <<"hand", h>>
    BY <1>2, <1>4, PlaceKinds
  <2> QED
    BY <2>1
<1>8. \A g, h \in F : g = h
  <2> SUFFICES ASSUME NEW g \in F, NEW h \in F PROVE g = h
    OBVIOUS
  <2>1. <<"flush", g>> = <<"flush", h>>
    BY <1>2, <1>4, PlaceKinds
  <2> QED
    BY <2>1
<1>9. /\ Cardinality(B) = (IF B = {} THEN 0 ELSE 1) /\ Cardinality(Q) = (IF Q = {} THEN 0 ELSE 1)
      /\ Cardinality(H) = (IF H = {} THEN 0 ELSE 1) /\ Cardinality(F) = (IF F = {} THEN 0 ELSE 1)
      /\ s \in {0, 1}
  <2> HIDE DEF B, Q, H, F
  <2> QED
    BY <1>5, <1>6, <1>7, <1>8, AtMostOne
<1>10. /\ <<"buffer", 0>> \in Places /\ <<"queue", 0>> \in Places /\ <<"sender", 0>> \in Places
       /\ \A g \in H : <<"hand", g>> \in Places
       /\ \A g \in F : <<"flush", g>> \in Places
  BY PlaceKinds
<1>11. B # {} => Q = {} /\ H = {} /\ F = {} /\ s # 1
  <2> SUFFICES ASSUME B # {} PROVE Q = {} /\ H = {} /\ F = {} /\ s # 1
    OBVIOUS
  <2> HIDE DEF B, Q, H, F, s
  <2>1. \A x \in Places : n \in Held[x] => x = <<"buffer", 0>>
    BY <1>2, <1>3, <1>10
  <2> QED
    BY <1>3, <1>4, <1>10, <2>1
<1>12. Q # {} => H = {} /\ F = {} /\ s # 1
  <2> SUFFICES ASSUME Q # {} PROVE H = {} /\ F = {} /\ s # 1
    OBVIOUS
  <2> HIDE DEF B, Q, H, F, s
  <2>1. \A x \in Places : n \in Held[x] => x = <<"queue", 0>>
    BY <1>2, <1>3, <1>10
  <2> QED
    BY <1>3, <1>4, <1>10, <2>1
<1>13. ASSUME NEW g \in H PROVE F = {} /\ s # 1
  <2> HIDE DEF B, Q, H, F, s
  <2>1. \A x \in Places : n \in Held[x] => x = <<"hand", g>>
    BY <1>2, <1>4, <1>10
  <2> QED
    BY <1>3, <1>4, <1>10, <2>1
<1>14. ASSUME NEW g \in F PROVE s # 1
  <2> HIDE DEF B, Q, H, F, s
  <2> QED
    BY <1>2, <1>3, <1>4, <1>10
<1> HIDE DEF B, Q, H, F, s
<1>15. /\ H # {} => F = {} /\ s # 1
       /\ F # {} => s # 1
  BY <1>13, <1>14
<1> QED
  BY <1>1, <1>9, <1>11, <1>12, <1>15

(* A payload is returned to the pool by whoever holds its packet last:     *)
(* through the buffer, the callbacks that flush it, the queue, evictions   *)
(* and the sender, no packet is ever in two hands.                         *)
THEOREM PayloadReturnedOnce == Spec => []PayloadHeldOnce
<1>1. IInv /\ PlacedOnce => PayloadHeldOnce
  BY CountedOnce DEF PayloadHeldOnce
<1> QED
  BY <1>1, Invariance, InitPlaces, NextPlaces, PTL DEF Spec
=============================================================================
