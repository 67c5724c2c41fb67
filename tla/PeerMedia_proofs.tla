------------------------- MODULE PeerMedia_proofs -------------------------
(***************************************************************************)
(* For any capacity, any number of frames and of peers: no frame taken for *)
(* the peer there is drops out of its timeline, and a queued keyframe is   *)
(* lost only to a later one.                                               *)
(*                                                                         *)
(* The first is a balance, kept by every step that moves durations between *)
(* the pending drops, the encoder thread, the queue, the sender and the    *)
(* track.  The sender throws away frames of former peers, so the balance   *)
(* is that of the frames of the present one; that none of its durations    *)
(* is with a frame of a former peer follows from the order of the frames:  *)
(* the encoder thread replaces only older frames.  The second follows from *)
(* the same order, and from the place that an eviction leaves.             *)
(***************************************************************************)
EXTENDS PeerMedia, FiniteSetTheorems, TLAPS

(* How far the replacement of the peer is.  There is no peer meanwhile,    *)
(* and peerGeneration has room for the number it will be raised to.        *)
LifeShape == life.at = "idle" \/ life.at \in DOMAIN After[life.op]
NilMeanwhile == life.at # "idle" => peer = 0
Unbumped == life.at = "bump" \/ (life.at = "closeOld" /\ life.op = "create")
RoomToBump == Unbumped => gen < MaxGen

(* The peer is the latest, its track is there, and a peer that is yet to   *)
(* be installed has been given no frame.                                   *)
OwnPeer == peer # 0 => peer = gen /\ track = gen
Numberless == {"forget", "video", "audio", "reset", "resetTime", "unset", "clear", "install"}
FreshPeer == /\ \A g \in Gens : g > gen => accepted[g] = 0
             /\ life.at \in Numberless => accepted[gen] = 0

(* The frame of the encoder thread is the latest; past its stamp it has a  *)
(* generation, and while it replaces another it finds a place.  Before it  *)
(* takes the pending drops it stands for itself only.                      *)
Stamped == producer # Idle /\ producer.at \notin {"swap", "stamp"}
HoldsOldest == producer # Idle /\ producer.at = "putBack"
InHand == producer # Idle =>
    /\ p.n = frames
    /\ IF producer.at = "putBack" THEN producer.oldest \in Frames ELSE producer.oldest = Idle
    /\ producer.at \in {"putBack", "replace"} => Len(queue) < QueueCap
    /\ producer.at = "swap" => p.prev = 0

(* What is queued is older than what the encoder thread has in hand.       *)
Older(f) == /\ f.n <= frames /\ f.gen <= gen
            /\ producer # Idle => f.n < p.n
            /\ Stamped => f.gen <= p.gen
InOrder == /\ \A i \in 1 .. Len(queue) : Older(queue[i])
           /\ HoldsOldest => Older(producer.oldest)
           /\ Stamped => p.gen <= gen

(* The durations that are with frames of the present generation.           *)
DurationsOf(g, q) == UNION {{i} \X (0 .. q[i].prev) : i \in {j \in 1 .. Len(q) : q[j].gen = g}}
UnitsOf(g, q) == Cardinality(DurationsOf(g, q))
OwnUnits(f) == IF f.gen = gen THEN Units(f) ELSE 0
OwnInProducer ==
    IF producer = Idle THEN 0
    ELSE (IF Stamped THEN OwnUnits(p) ELSE Units(p)) + (IF HoldsOldest THEN OwnUnits(producer.oldest) ELSE 0)
OwnInSender == IF sender = Idle THEN 0 ELSE OwnUnits(sender.frame)
Carried == OwnInSender + UnitsOf(gen, queue) + OwnInProducer + pending

Balance == peer # 0 => accepted[peer] <= shown[peer] + Carried

IInv == /\ TypeOK /\ LifeShape /\ NilMeanwhile /\ RoomToBump /\ OwnPeer /\ FreshPeer
        /\ InHand /\ InOrder /\ Balance

-----------------------------------------------------------------------------
(* Durations of a queue of frames.                                         *)
LEMMA DurationIn ==
    ASSUME NEW g, NEW q \in Seq(Frames), NEW t
    PROVE  t \in DurationsOf(g, q) <=>
              \E i \in 1 .. Len(q) : q[i].gen = g /\ \E k \in 0 .. q[i].prev : t = <<i, k>>
<1> DEFINE own == {j \in 1 .. Len(q) : q[j].gen = g}
           durations(i) == 0 .. q[i].prev
<1> HIDE DEF durations
<1>1. DurationsOf(g, q) = UNION {{i} \X durations(i) : i \in own}
  BY DEF DurationsOf, durations
<1>2. t \in UNION {{i} \X durations(i) : i \in own} <=> \E i \in own : t \in {i} \X durations(i)
  OBVIOUS
<1>3. \A i : t \in {i} \X durations(i) <=> \E k \in durations(i) : t = <<i, k>>
  OBVIOUS
<1>4. t \in DurationsOf(g, q) <=> \E i \in own : \E k \in durations(i) : t = <<i, k>>
  BY <1>1, <1>2, <1>3
<1> QED
  BY <1>4 DEF durations

LEMMA FrameAt ==
    ASSUME NEW q \in Seq(Frames), NEW i \in 1 .. Len(q)
    PROVE  q[i] \in Frames /\ q[i].prev \in Nat /\ q[i].n \in Nat /\ q[i].gen \in Gens /\ q[i].key \in BOOLEAN
<1>1. q[i] \in Frames
  OBVIOUS
<1> QED
  BY <1>1 DEF Frames

LEMMA UnitsOfFrame ==
    ASSUME NEW f \in Frames, NEW i
    PROVE  /\ IsFiniteSet({i} \X (0 .. f.prev)) /\ Cardinality({i} \X (0 .. f.prev)) = Units(f)
           /\ Units(f) \in Nat /\ Units(f) > 0
<1>1. f.prev \in Nat
  BY DEF Frames
<1>2. IsFiniteSet(0 .. f.prev) /\ Cardinality(0 .. f.prev) = f.prev + 1
  <2>1. 0 \in Int /\ f.prev \in Int /\ f.prev - 0 + 1 = f.prev + 1 /\ ~(0 > f.prev)
    BY <1>1
  <2> QED
    BY <2>1, FS_Interval
<1>3. IsFiniteSet({i}) /\ Cardinality({i}) = 1
  BY FS_Singleton
<1>4. /\ IsFiniteSet({i} \X (0 .. f.prev))
      /\ Cardinality({i} \X (0 .. f.prev)) = Cardinality({i}) * Cardinality(0 .. f.prev)
  BY <1>2, <1>3, FS_Product
<1> QED
  BY <1>1, <1>2, <1>3, <1>4 DEF Units

LEMMA DurationsAreFinite ==
    ASSUME NEW g, NEW q \in Seq(Frames)
    PROVE  IsFiniteSet(DurationsOf(g, q)) /\ UnitsOf(g, q) \in Nat
<1> DEFINE own == {j \in 1 .. Len(q) : q[j].gen = g}
           ofFrame == [i \in own |-> {i} \X (0 .. q[i].prev)]
           byFrame == {{i} \X (0 .. q[i].prev) : i \in own}
<1>1. IsFiniteSet(own)
  <2>1. IsFiniteSet(1 .. Len(q))
    <3>1. 1 \in Int /\ Len(q) \in Int
      OBVIOUS
    <3> QED
      BY <3>1, FS_Interval
  <2>2. own \in SUBSET (1 .. Len(q))
    OBVIOUS
  <2> QED
    BY <2>1, <2>2, FS_Subset
<1>2. ofFrame \in Surjection(own, byFrame)
  BY DEF Surjection
<1>3. IsFiniteSet(byFrame)
  BY <1>1, <1>2, FS_Surjection
<1>4. \A T \in byFrame : IsFiniteSet(T)
  <2> SUFFICES ASSUME NEW i \in own PROVE IsFiniteSet({i} \X (0 .. q[i].prev))
    OBVIOUS
  <2>1. q[i] \in Frames
    BY FrameAt
  <2> QED
    BY <2>1, UnitsOfFrame
<1>5. IsFiniteSet(DurationsOf(g, q))
  BY <1>3, <1>4, FS_UNION DEF DurationsOf
<1> QED
  BY <1>5, FS_CardinalityType DEF UnitsOf

(* A frame at the end adds its durations.                                  *)
LEMMA UnitsAppended ==
    ASSUME NEW g, NEW q \in Seq(Frames), NEW f \in Frames
    PROVE  UnitsOf(g, Append(q, f)) = UnitsOf(g, q) + (IF f.gen = g THEN Units(f) ELSE 0)
<1> DEFINE n == Len(q) + 1
           longer == Append(q, f)
           added == IF f.gen = g THEN {n} \X (0 .. f.prev) ELSE {}
<1>1. /\ longer \in Seq(Frames) /\ Len(longer) = n /\ longer[n] = f
      /\ Len(q) \in Nat /\ \A i \in 1 .. Len(q) : longer[i] = q[i]
  OBVIOUS
<1> HIDE DEF longer
<1>2. \A t : t \in DurationsOf(g, longer) <=> t \in DurationsOf(g, q) \/ t \in added
  <2> SUFFICES ASSUME NEW t
               PROVE  t \in DurationsOf(g, longer) <=> t \in DurationsOf(g, q) \/ t \in added
    OBVIOUS
  <2>1. t \in added <=> f.gen = g /\ \E k \in 0 .. f.prev : t = <<n, k>>
    OBVIOUS
  <2> HIDE DEF added
  <2>2. \A i : i \in 1 .. n <=> i \in 1 .. Len(q) \/ i = n
    BY <1>1
  <2>3. t \in DurationsOf(g, longer) <=>
           \E i \in 1 .. n : longer[i].gen = g /\ \E k \in 0 .. longer[i].prev : t = <<i, k>>
    BY <1>1, DurationIn
  <2>4. t \in DurationsOf(g, q) <=>
           \E i \in 1 .. Len(q) : q[i].gen = g /\ \E k \in 0 .. q[i].prev : t = <<i, k>>
    BY DurationIn
  <2> HIDE DEF n
  <2> QED
    BY <1>1, <2>1, <2>2, <2>3, <2>4
<1>3. DurationsOf(g, q) \cap added = {}
  <2> SUFFICES ASSUME NEW t \in DurationsOf(g, q), t \in added PROVE FALSE
    OBVIOUS
  <2>1. t[1] = n
    OBVIOUS
  <2>2. t[1] \in 1 .. Len(q)
    BY DurationIn
  <2> QED
    BY <1>1, <2>1, <2>2
<1>4. IsFiniteSet(added) /\ Cardinality(added) = IF f.gen = g THEN Units(f) ELSE 0
  BY UnitsOfFrame, FS_EmptySet
<1> HIDE DEF added
<1>5. DurationsOf(g, longer) = DurationsOf(g, q) \cup added
  BY <1>2
<1>6. /\ IsFiniteSet(DurationsOf(g, q)) /\ UnitsOf(g, q) \in Nat
  BY DurationsAreFinite
<1>7. UnitsOf(g, longer) = UnitsOf(g, q) + Cardinality(added) - Cardinality({})
  BY <1>3, <1>4, <1>5, <1>6, FS_Union DEF UnitsOf
<1>8. Cardinality({}) = 0 /\ Cardinality(added) \in Nat
  BY <1>4, FS_EmptySet, FS_CardinalityType
<1> QED
  BY <1>4, <1>6, <1>7, <1>8 DEF longer

(* Without its first frame, a queue holds that frame's durations less.     *)
LEMMA UnitsTaken ==
    ASSUME NEW g, NEW q \in Seq(Frames), q # <<>>
    PROVE  UnitsOf(g, q) = UnitsOf(g, Tail(q)) + (IF Head(q).gen = g THEN Units(Head(q)) ELSE 0)
<1> DEFINE rest == Tail(q)
           taken == IF q[1].gen = g THEN {1} \X (0 .. q[1].prev) ELSE {}
           left == DurationsOf(g, q) \ taken
           later == [t \in DurationsOf(g, rest) |-> <<t[1] + 1, t[2]>>]
<1>1. /\ rest \in Seq(Frames) /\ Len(q) \in Nat /\ Len(q) >= 1 /\ Len(rest) = Len(q) - 1
      /\ \A i \in 1 .. Len(rest) : rest[i] = q[i + 1]
      /\ Head(q) = q[1] /\ q[1] \in Frames
  OBVIOUS
<1> HIDE DEF rest
<1>2. \A t : t \in DurationsOf(g, q) <=>
              \E i \in 1 .. Len(q) : q[i].gen = g /\ \E k \in 0 .. q[i].prev : t = <<i, k>>
  BY DurationIn
<1>3. \A t : t \in DurationsOf(g, rest) <=>
              \E i \in 1 .. Len(rest) : rest[i].gen = g /\ \E k \in 0 .. rest[i].prev : t = <<i, k>>
  BY <1>1, DurationIn
<1>4. \A t : t \in taken <=> q[1].gen = g /\ \E k \in 0 .. q[1].prev : t = <<1, k>>
  OBVIOUS
<1>5. \A i \in 1 .. Len(rest) : i \in Int /\ i + 1 \in 1 .. Len(q) /\ i + 1 # 1
  BY <1>1
<1>6. \A i \in 1 .. Len(q) : i = 1 \/ (i - 1 \in 1 .. Len(rest) /\ (i - 1) + 1 = i)
  BY <1>1
<1> HIDE DEF taken
<1>7. later \in Bijection(DurationsOf(g, rest), left)
  <2>1. \A t \in DurationsOf(g, rest) : t[1] \in Int /\ t = <<t[1], t[2]>>
    BY <1>3, <1>5
  <2>2. ASSUME NEW t \in DurationsOf(g, rest) PROVE later[t] \in left
    <3>1. PICK i \in 1 .. Len(rest) : rest[i].gen = g /\ \E k \in 0 .. rest[i].prev : t = <<i, k>>
      BY <1>3
    <3>2. PICK k \in 0 .. rest[i].prev : t = <<i, k>>
      BY <3>1
    <3>3. later[t] = <<i + 1, k>>
      BY <3>2
    <3>4. i + 1 \in 1 .. Len(q) /\ i + 1 # 1 /\ rest[i] = q[i + 1]
      BY <1>1, <1>5
    <3>5. <<i + 1, k>> \in DurationsOf(g, q)
      BY <1>2, <3>1, <3>2, <3>4
    <3>6. <<i + 1, k>> \notin taken
      BY <1>4, <3>4
    <3> QED
      BY <3>3, <3>5, <3>6
  <2>3. ASSUME NEW t \in DurationsOf(g, rest), NEW u \in DurationsOf(g, rest), later[t] = later[u]
        PROVE  t = u
    <3>1. later[t] = <<t[1] + 1, t[2]>> /\ later[u] = <<u[1] + 1, u[2]>>
      OBVIOUS
    <3>2. t[1] + 1 = u[1] + 1 /\ t[2] = u[2]
      BY <2>3, <3>1
    <3>3. t[1] = u[1]
      BY <2>1, <3>2
    <3> QED
      BY <2>1, <3>2, <3>3
  <2>4. ASSUME NEW u \in left PROVE \E t \in DurationsOf(g, rest) : later[t] = u
    <3>1. PICK i \in 1 .. Len(q) : q[i].gen = g /\ \E k \in 0 .. q[i].prev : u = <<i, k>>
      BY <1>2
    <3>2. PICK k \in 0 .. q[i].prev : u = <<i, k>>
      BY <3>1
    <3>3. i # 1
      BY <1>4, <3>1, <3>2
    <3>4. i - 1 \in 1 .. Len(rest) /\ (i - 1) + 1 = i /\ rest[i - 1] = q[i]
      BY <1>1, <1>6, <3>3
    <3>5. <<i - 1, k>> \in DurationsOf(g, rest)
      BY <1>3, <3>1, <3>4
    <3>6. later[<<i - 1, k>>] = <<i, k>>
      BY <3>4, <3>5
    <3> QED
      BY <3>2, <3>5, <3>6
  <2>5. later \in [DurationsOf(g, rest) -> left]
    BY <2>2
  <2> QED
    BY <2>3, <2>4, <2>5 DEF Bijection, Injection, Surjection, IsInjective
<1> HIDE DEF later
<1>8. ExistsBijection(DurationsOf(g, rest), left)
  BY <1>7 DEF ExistsBijection
<1>9. IsFiniteSet(DurationsOf(g, rest)) /\ UnitsOf(g, rest) \in Nat
  BY <1>1, DurationsAreFinite
<1>10. IsFiniteSet(left) /\ Cardinality(left) = UnitsOf(g, rest)
  <2> HIDE DEF left
  <2> QED
    BY <1>8, <1>9, FS_Bijection DEF UnitsOf
<1>11. IsFiniteSet(taken) /\ Cardinality(taken) = (IF q[1].gen = g THEN Units(q[1]) ELSE 0)
  BY <1>1, UnitsOfFrame, FS_EmptySet DEF taken
<1>12. taken \subseteq DurationsOf(g, q)
  <2>1. 1 \in 1 .. Len(q)
    BY <1>1
  <2> QED
    BY <1>2, <1>4, <2>1
<1>13. DurationsOf(g, q) = left \cup taken /\ left \cap taken = {}
  BY <1>12
<1> HIDE DEF left
<1>14. UnitsOf(g, q) = Cardinality(left) + Cardinality(taken) - Cardinality({})
  BY <1>10, <1>11, <1>13, FS_Union DEF UnitsOf
<1>15. Cardinality({}) = 0 /\ Cardinality(taken) \in Nat
  BY <1>11, FS_EmptySet, FS_CardinalityType
<1> QED
  BY <1>1, <1>9, <1>10, <1>11, <1>14, <1>15 DEF rest

(* The durations of one generation are among all that a queue holds.       *)
LEMMA UnitsWithin ==
    ASSUME NEW g, NEW q \in Seq(Frames)
    PROVE  UnitsIn(q) \in Nat /\ UnitsOf(g, q) <= UnitsIn(q)
<1> DEFINE all == UNION {{i} \X (0 .. q[i].prev) : i \in DOMAIN q}
           positions == DOMAIN q
           ofFrame == [i \in positions |-> {i} \X (0 .. q[i].prev)]
           byFrame == {{i} \X (0 .. q[i].prev) : i \in positions}
<1>1. positions = 1 .. Len(q) /\ Len(q) \in Int
  OBVIOUS
<1>2. IsFiniteSet(positions)
  <2>1. 1 \in Int
    OBVIOUS
  <2> QED
    BY <1>1, <2>1, FS_Interval
<1>3. IsFiniteSet(byFrame)
  <2>1. ofFrame \in Surjection(positions, byFrame)
    BY DEF Surjection
  <2> QED
    BY <1>2, <2>1, FS_Surjection
<1>4. \A T \in byFrame : IsFiniteSet(T)
  <2> SUFFICES ASSUME NEW i \in 1 .. Len(q) PROVE IsFiniteSet({i} \X (0 .. q[i].prev))
    BY <1>1
  <2>1. q[i] \in Frames
    BY FrameAt
  <2> QED
    BY <2>1, UnitsOfFrame
<1>5. IsFiniteSet(all)
  BY <1>3, <1>4, FS_UNION
<1>6. DurationsOf(g, q) \in SUBSET all
  BY <1>1 DEF DurationsOf
<1> HIDE DEF all
<1> QED
  BY <1>5, <1>6, FS_Subset, FS_CardinalityType DEF UnitsIn, UnitsOf, all

LEMMA NoUnits == \A g : UnitsOf(g, <<>>) = 0
<1> SUFFICES ASSUME NEW g PROVE UnitsOf(g, <<>>) = 0
  OBVIOUS
<1>1. DurationsOf(g, <<>>) = {}
  BY DEF DurationsOf
<1> QED
  BY <1>1, FS_EmptySet DEF UnitsOf

-----------------------------------------------------------------------------
(* The invariant holds at first, and through the life of the connection.   *)
LEMMA Constants ==
    /\ MaxGen \in Nat /\ 0 \in Gens /\ Gens \subseteq Nat
    /\ QueueCap \in Nat /\ QueueCap > 0 /\ MaxFrames \in Nat
  BY PeerConnectionAssumption, PeerMediaAssumption DEF Gens

LEMMA FramesAreNotIdle ==
    /\ \A f \in Frames : f # Idle
    /\ \A r \in Producing \cup Sending : r # Idle
<1>1. ASSUME NEW f \in Frames PROVE f # Idle
  <2>1. DOMAIN f = {"n", "key", "prev", "gen"} /\ DOMAIN Idle = {"at"}
    BY DEF Frames, Idle
  <2>2. "n" \in {"n", "key", "prev", "gen"} /\ "n" \notin {"at"}
    OBVIOUS
  <2> QED
    BY <2>1, <2>2
<1>2. ASSUME NEW r \in Producing \cup Sending PROVE r # Idle
  <2>1. r.at # "idle"
    BY DEF Producing, Sending
  <2> QED
    BY <2>1 DEF Idle
<1> QED
  BY <1>1, <1>2

LEMMA InitIInv == Init => IInv
<1> SUFFICES ASSUME Init PROVE IInv
  OBVIOUS
<1> USE Constants DEF Init, ConnInit
<1>1. ConnTypeOK
  <2>1. <<>> \in Seq(States \ {"none"})
    OBVIOUS
  <2> QED
    BY <2>1 DEF ConnTypeOK, States, Stages, Ops, After
<1>2. TypeOK
  <2>1. <<>> \in Seq(Frames) /\ Len(<<>>) = 0
    OBVIOUS
  <2> QED
    BY <1>1, <2>1 DEF TypeOK
<1>3. LifeShape /\ NilMeanwhile /\ RoomToBump /\ OwnPeer
  BY DEF LifeShape, NilMeanwhile, RoomToBump, Unbumped, OwnPeer
<1>4. FreshPeer
  BY DEF FreshPeer, Numberless
<1>5. InHand /\ InOrder /\ Balance
  BY DEF InHand, InOrder, HoldsOldest, Stamped, Balance
<1> QED
  BY <1>2, <1>3, <1>4, <1>5 DEF IInv

(* The steps of the connection keep its shape, and raise peerGeneration    *)
(* once for each peer that is given up.                                    *)
ConnectionStep ==
    \/ gen < MaxGen /\ (BeginCreateConn \/ BeginCloseConn)
    \/ CloseOldConn \/ BumpConn \/ InstallConn
    \/ \E stage \in Stages \ {"idle", "bump", "closeOld"} : PassConn(stage)

LEMMA ConnectionKeepsType ==
    ASSUME ConnTypeOK, LifeShape, NilMeanwhile, RoomToBump, ConnectionStep
    PROVE  ConnTypeOK'
<1> USE Constants
<1>1. life.at \notin {"idle"} => After[life.op][life.at] \in Stages
  BY DEF LifeShape, ConnTypeOK, Ops, After, Stages
<1>2. CASE BeginCreateConn \/ BeginCloseConn
  BY <1>2 DEF BeginCreateConn, BeginCloseConn, GiveUpPeer, netVars, ConnTypeOK, Stages, After, Ops, States
<1>3. CASE CloseOldConn
  <2>1. life' \in [at : Stages, op : Ops, old : Gens]
    BY <1>1, <1>3 DEF CloseOldConn, Proceed, At, ConnTypeOK
  <2>2. life.old \in Gens /\ "closed" \in States \ {"none"}
    BY DEF ConnTypeOK, States
  <2>3. wire' \in [Gens -> States] /\ callbacks' \in [Gens -> Seq(States \ {"none"})]
    <3>1. wire \in [Gens -> States] /\ callbacks \in [Gens -> Seq(States \ {"none"})]
      BY DEF ConnTypeOK
    <3>2. Append(callbacks[life.old], "closed") \in Seq(States \ {"none"})
      <4>1. callbacks[life.old] \in Seq(States \ {"none"})
        BY <2>2, <3>1
      <4> QED
        BY <2>2, <4>1
    <3>3. CASE UNCHANGED netVars
      BY <3>1, <3>3 DEF netVars
    <3>4. CASE wire' = [wire EXCEPT ![life.old] = "closed"]
               /\ callbacks' = [callbacks EXCEPT ![life.old] = Append(@, "closed")]
      BY <2>2, <3>1, <3>2, <3>4
    <3> QED
      BY <1>3, <3>3, <3>4 DEF CloseOldConn
  <2> QED
    BY <1>3, <2>1, <2>3 DEF CloseOldConn, ConnTypeOK
<1>4. CASE BumpConn
  <2>1. life' \in [at : Stages, op : Ops, old : Gens]
    BY <1>1, <1>4 DEF BumpConn, Proceed, At, ConnTypeOK
  <2>2. gen' \in Gens
    BY <1>4 DEF BumpConn, At, RoomToBump, Unbumped, ConnTypeOK, Gens
  <2> QED
    BY <1>4, <2>1, <2>2 DEF BumpConn, netVars, ConnTypeOK
<1>5. CASE InstallConn
  <2>1. life' \in [at : Stages, op : Ops, old : Gens]
    BY <1>1, <1>5 DEF InstallConn, Proceed, At, ConnTypeOK
  <2>2. wire' \in [Gens -> States]
    BY <1>5 DEF InstallConn, ConnTypeOK, States
  <2> QED
    BY <1>5, <2>1, <2>2 DEF InstallConn, ConnTypeOK
<1>6. CASE \E stage \in Stages \ {"idle", "bump", "closeOld"} : PassConn(stage)
  <2>1. life' \in [at : Stages, op : Ops, old : Gens]
    BY <1>1, <1>6 DEF PassConn, Proceed, At, ConnTypeOK
  <2> QED
    BY <1>6, <2>1 DEF PassConn, netVars, ConnTypeOK
<1> QED
  BY <1>2, <1>3, <1>4, <1>5, <1>6 DEF ConnectionStep

LEMMA ConnectionKeepsLife ==
    ASSUME ConnTypeOK, LifeShape, NilMeanwhile, RoomToBump, ConnectionStep
    PROVE  /\ LifeShape' /\ NilMeanwhile' /\ RoomToBump'
           /\ life'.at \in Numberless => life.at \in Numberless \/ gen' = gen + 1
<1> USE Constants DEF LifeShape, NilMeanwhile, RoomToBump, Unbumped, Numberless
<1>1. CASE gen < MaxGen /\ (BeginCreateConn \/ BeginCloseConn)
  BY <1>1 DEF BeginCreateConn, BeginCloseConn, GiveUpPeer, After
<1>2. CASE CloseOldConn \/ BumpConn \/ InstallConn
           \/ \E stage \in Stages \ {"idle", "bump", "closeOld"} : PassConn(stage)
  <2>1. /\ life.at # "idle" /\ life.op \in Ops
        /\ life' = [life EXCEPT !.at = After[life.op][life.at]]
        /\ gen' = gen \/ (gen' = gen + 1 /\ life.at = "bump")
        /\ peer' = peer \/ life.at = "install"
        /\ life.at = "bump" => gen' = gen + 1
    BY <1>2 DEF CloseOldConn, BumpConn, InstallConn, PassConn, At, Proceed, ConnTypeOK
  <2>2. life'.at = After[life.op][life.at] /\ life'.op = life.op
    BY <2>1 DEF ConnTypeOK
  <2>3. gen \in Nat
    BY DEF ConnTypeOK
  <2>4. CASE life.op = "create"
    <3>1. life.at \in DOMAIN After["create"]
      BY <2>1, <2>4
    <3>2. LifeShape' /\ NilMeanwhile'
      BY <2>1, <2>2, <2>4, <3>1 DEF After
    <3>3. RoomToBump'
      BY <2>1, <2>2, <2>3, <2>4, <3>1 DEF After
    <3> QED
      BY <2>1, <2>2, <2>4, <3>1, <3>2, <3>3 DEF After
  <2>5. CASE life.op = "close"
    <3>1. life.at \in DOMAIN After["close"]
      BY <2>1, <2>5
    <3> QED
      BY <2>1, <2>2, <2>3, <2>5, <3>1 DEF After
  <2> QED
    BY <2>1, <2>4, <2>5 DEF Ops
<1> QED
  BY <1>1, <1>2 DEF ConnectionStep

-----------------------------------------------------------------------------
(* What the frames in hand are.                                            *)
LEMMA InHandTypes ==
    ASSUME TypeOK, producer # Idle
    PROVE  /\ producer \in Producing /\ p \in Frames
           /\ p.n \in Nat /\ p.prev \in Nat /\ p.gen \in Gens /\ p.gen \in Nat
<1>1. producer \in Producing
  BY DEF TypeOK
<1>2. p \in Frames
  BY <1>1 DEF p, Producing
<1>3. \A f \in Frames : f.n \in 1 .. MaxFrames /\ f.prev \in Nat /\ f.gen \in Gens
  BY DEF Frames
<1> HIDE DEF p
<1>4. p.n \in 1 .. MaxFrames /\ p.prev \in Nat /\ p.gen \in Gens
  BY <1>2, <1>3
<1>5. p.n \in Nat
  BY <1>4
<1>6. p.gen \in Nat
  <2>1. Gens \subseteq Nat
    BY Constants
  <2> QED
    BY <1>4, <2>1, Zenon
<1> QED
  BY <1>1, <1>2, <1>4, <1>5, <1>6

LEMMA BusyAt ==
    /\ \A at \in {"swap", "stamp", "push", "evict", "putBack", "replace"} : producer.at = at => producer # Idle
    /\ \A at \in {"judge", "write"} : sender.at = at => sender # Idle
  BY DEF Idle

LEMMA CarriedTypes ==
    ASSUME TypeOK, InHand
    PROVE  /\ \A f \in Frames : OwnUnits(f) \in Nat /\ Units(f) \in Nat /\ Units(f) = f.prev + 1
                                /\ OwnUnits(f) <= Units(f)
           /\ OwnInSender \in Nat /\ UnitsOf(gen, queue) \in Nat /\ OwnInProducer \in Nat
           /\ pending \in Nat /\ Carried \in Nat
<1>1. ASSUME NEW f \in Frames
      PROVE  OwnUnits(f) \in Nat /\ Units(f) \in Nat /\ Units(f) = f.prev + 1 /\ OwnUnits(f) <= Units(f)
  <2>1. Units(f) \in Nat /\ Units(f) = f.prev + 1
    BY UnitsOfFrame DEF Units
  <2> QED
    BY <2>1 DEF OwnUnits
<1>2. OwnInSender \in Nat
  <2>1. CASE sender = Idle
    BY <2>1 DEF OwnInSender
  <2>2. CASE sender # Idle
    <3>1. sender.frame \in Frames
      BY <2>2 DEF TypeOK, Sending
    <3> QED
      BY <1>1, <2>2, <3>1 DEF OwnInSender
  <2> QED
    BY <2>1, <2>2
<1>3. UnitsOf(gen, queue) \in Nat
  BY DurationsAreFinite DEF TypeOK
<1>4. OwnInProducer \in Nat
  <2>1. CASE producer = Idle
    BY <2>1 DEF OwnInProducer
  <2>2. CASE producer # Idle
    <3>1. p \in Frames
      BY <2>2, InHandTypes
    <3>2. OwnUnits(p) \in Nat /\ Units(p) \in Nat
      BY <1>1, <3>1
    <3>3. HoldsOldest => OwnUnits(producer.oldest) \in Nat
      BY <1>1, <2>2 DEF HoldsOldest, InHand
    <3> HIDE DEF OwnUnits, Units, p, HoldsOldest, Stamped
    <3> QED
      BY <2>2, <3>2, <3>3 DEF OwnInProducer
  <2> QED
    BY <2>1, <2>2
<1>5. pending \in Nat
  BY DEF TypeOK
<1> QED
  BY <1>1, <1>2, <1>3, <1>4, <1>5 DEF Carried

LEMMA CarriedIsNumber == TypeOK /\ InHand => Carried \in Nat
  BY CarriedTypes

(* The balance holds on if what is carried does not become less.           *)
LEMMA BalanceKept ==
    ASSUME IInv, TypeOK', InHand', UNCHANGED <<gen, peer, accepted, shown>>, Carried <= Carried'
    PROVE  Balance'
<1> USE DEF IInv
<1>1. Carried \in Nat /\ Carried' \in Nat
  <2>1. (TypeOK /\ InHand => Carried \in Nat)'
    BY CarriedIsNumber, PTL
  <2> QED
    BY <2>1, CarriedTypes
<1>2. CASE peer # 0
  <2>1. peer \in Gens /\ accepted[peer] \in Nat /\ shown[peer] \in Nat
    BY DEF TypeOK, ConnTypeOK
  <2> HIDE DEF Carried
  <2> QED
    BY <1>1, <1>2, <2>1 DEF Balance
<1> QED
  BY <1>2 DEF Balance

-----------------------------------------------------------------------------
(* Replacement, closing and the transport.                                 *)
LEMMA LifecycleIsConnection ==
    ASSUME Lifecycle
    PROVE  ConnectionStep \/ UNCHANGED connVars
  BY DEF Lifecycle, BeginCreate, BeginClose, CloseOld, Bump, Forget, Discard, AudioStage, Install,
         InstallFails, InstallFailsConn, ConnectionStep, Stages, After

LEMMA LifecycleKeepsLife ==
    ASSUME IInv, Lifecycle
    PROVE  /\ ConnTypeOK' /\ LifeShape' /\ NilMeanwhile' /\ RoomToBump'
           /\ life'.at \in Numberless => life.at \in Numberless \/ gen' = gen + 1
<1>1. ConnTypeOK /\ LifeShape /\ NilMeanwhile /\ RoomToBump
  BY DEF IInv, TypeOK
<1>2. CASE ConnectionStep
  BY <1>1, <1>2, ConnectionKeepsType, ConnectionKeepsLife
<1>3. CASE UNCHANGED connVars
  BY <1>1, <1>3 DEF connVars, netVars, ConnTypeOK, LifeShape, NilMeanwhile, RoomToBump, Unbumped
<1> QED
  BY <1>2, <1>3, LifecycleIsConnection

(* There is no peer but before the first step and after the last.  What    *)
(* the life of the connection does to the frames happens without one.      *)
LEMMA LifecycleEffects ==
    ASSUME IInv, Lifecycle
    PROVE  /\ UNCHANGED <<frames, producer, sender, countVars>>
           /\ peer' = 0 \/ (peer' = gen' /\ track' = gen' /\ UNCHANGED <<gen, queue, pending>> /\ At("install"))
           /\ gen' = gen \/ gen' = gen + 1
           /\ track' \in {track, 0, gen}
           /\ queue' = queue \/ (queue # <<>> /\ queue' = Tail(queue))
           /\ pending' = pending \/ pending' = 0
<1> USE DEF IInv, NilMeanwhile, At, videoVars
<1>1. CASE BeginCreate \/ BeginClose
  BY <1>1 DEF BeginCreate, BeginClose, BeginCreateConn, BeginCloseConn, GiveUpPeer
<1>2. CASE CloseOld \/ Bump
  BY <1>2 DEF CloseOld, CloseOldConn, Bump, BumpConn
<1>3. CASE Forget \/ AudioStage \/ InstallFails
  BY <1>3 DEF Forget, AudioStage, InstallFails, InstallFailsConn, PassConn
<1>4. CASE Discard
  BY <1>4 DEF Discard, PassConn, connVars
<1>5. CASE Install
  BY <1>5 DEF Install, InstallConn
<1> QED
  BY <1>1, <1>2, <1>3, <1>4, <1>5 DEF Lifecycle

LEMMA LifecycleKeeps ==
    ASSUME IInv, Lifecycle
    PROVE  IInv'
<1> USE Constants
<1>1. TypeOK /\ OwnPeer /\ FreshPeer /\ InHand /\ InOrder /\ Balance /\ gen \in Gens /\ gen \in Nat
  BY DEF IInv, TypeOK, ConnTypeOK
<1>2. /\ ConnTypeOK' /\ LifeShape' /\ NilMeanwhile' /\ RoomToBump'
      /\ life'.at \in Numberless => life.at \in Numberless \/ gen' = gen + 1
  BY LifecycleKeepsLife
<1>3. /\ UNCHANGED <<frames, producer, sender, accepted, shown>>
      /\ peer' = 0 \/ (peer' = gen' /\ track' = gen' /\ UNCHANGED <<gen, queue, pending>> /\ At("install"))
      /\ gen' = gen \/ gen' = gen + 1
      /\ track' \in {track, 0, gen}
      /\ queue' = queue \/ (queue # <<>> /\ queue' = Tail(queue))
      /\ pending' = pending \/ pending' = 0
  BY LifecycleEffects DEF countVars
<1>4. queue' \in Seq(Frames) /\ Len(queue') <= Len(queue) /\ Len(queue') \in Nat /\ Len(queue) \in Nat
  <2>1. queue \in Seq(Frames)
    BY <1>1 DEF TypeOK
  <2>2. queue # <<>> => Tail(queue) \in Seq(Frames) /\ Len(Tail(queue)) <= Len(queue)
    BY <2>1
  <2> QED
    BY <1>3, <2>1, <2>2
<1>5. TypeOK'
  <2>1. Len(queue') <= QueueCap
    BY <1>1, <1>4 DEF TypeOK
  <2>2. track' \in Gens /\ pending' \in Nat
    BY <1>1, <1>3 DEF TypeOK
  <2> QED
    BY <1>1, <1>2, <1>3, <1>4, <2>1, <2>2 DEF TypeOK
<1>6. OwnPeer'
  BY <1>3 DEF OwnPeer
<1>7. FreshPeer'
  <2>1. \A g \in Gens : g \in Nat
    BY DEF Gens
  <2>2. gen' \in Gens
    BY <1>2 DEF ConnTypeOK
  <2>3. ASSUME NEW g \in Gens, g > gen' PROVE accepted'[g] = 0
    <3>1. g > gen
      BY <1>1, <1>3, <2>1, <2>3
    <3> QED
      BY <1>1, <1>3, <3>1 DEF FreshPeer
  <2>4. ASSUME life'.at \in Numberless PROVE accepted'[gen'] = 0
    <3>1. CASE gen' = gen + 1
      <4>1. gen' > gen
        BY <1>1, <3>1
      <4> QED
        BY <1>1, <1>3, <2>2, <4>1 DEF FreshPeer
    <3>2. CASE gen' # gen + 1
      BY <1>1, <1>2, <1>3, <2>4, <3>2 DEF FreshPeer
    <3> QED
      BY <3>1, <3>2
  <2> QED
    BY <2>3, <2>4 DEF FreshPeer
<1>8. InHand'
  <2>1. p' = p
    BY <1>3 DEF p
  <2> QED
    BY <1>1, <1>3, <1>4, <2>1 DEF InHand
<1>9. InOrder'
  <2>1. p' = p /\ (Stamped' <=> Stamped) /\ (HoldsOldest' <=> HoldsOldest)
    BY <1>3 DEF p, Stamped, HoldsOldest
  <2>2. \A f : f.gen \in Nat /\ Older(f) =>
            /\ f.n <= frames' /\ f.gen <= gen'
            /\ producer' # Idle => f.n < p'.n
            /\ Stamped' => f.gen <= p'.gen
    BY <1>1, <1>3, <2>1 DEF Older
  <2>3. \A i \in 1 .. Len(queue') : \E j \in 1 .. Len(queue) : queue'[i] = queue[j]
    <3>1. CASE queue' = queue
      BY <3>1
    <3>2. CASE queue # <<>> /\ queue' = Tail(queue)
      <4>1. queue \in Seq(Frames)
        BY <1>1 DEF TypeOK
      <4>2. \A i \in 1 .. Len(queue') : i + 1 \in 1 .. Len(queue) /\ queue'[i] = queue[i + 1]
        BY <3>2, <4>1
      <4> QED
        BY <4>2
    <3> QED
      BY <1>3, <3>1, <3>2
  <2>4. \A i \in 1 .. Len(queue) : queue[i].gen \in Nat
    <3>1. queue \in Seq(Frames)
      BY <1>1 DEF TypeOK
    <3>2. \A f \in Frames : f.gen \in Nat
      BY DEF Frames, Gens
    <3> QED
      BY <3>1, <3>2
  <2>5. HoldsOldest => producer.oldest.gen \in Nat
    <3>1. HoldsOldest => producer.oldest \in Frames
      BY <1>1 DEF HoldsOldest, InHand
    <3> QED
      BY <3>1 DEF Frames, Gens
  <2>6. Stamped => p.gen \in Nat
    BY <1>1, InHandTypes DEF Stamped
  <2>7. \A i \in 1 .. Len(queue') : Older(queue[i])'
    <3> SUFFICES ASSUME NEW i \in 1 .. Len(queue') PROVE Older(queue[i])'
      OBVIOUS
    <3>1. PICK j \in 1 .. Len(queue) : queue'[i] = queue[j]
      BY <2>3
    <3>2. Older(queue[j]) /\ queue[j].gen \in Nat
      BY <1>1, <2>4 DEF InOrder
    <3> QED
      BY <2>2, <3>1, <3>2 DEF Older
  <2>8. HoldsOldest' => Older(producer.oldest)'
    BY <1>1, <1>3, <2>1, <2>2, <2>5 DEF InOrder, Older
  <2>9. Stamped' => p'.gen <= gen'
    BY <1>1, <1>3, <2>1, <2>6 DEF InOrder
  <2> QED
    BY <1>3, <2>7, <2>8, <2>9 DEF InOrder
<1>10. Balance'
  <2>1. CASE peer' = 0
    BY <2>1 DEF Balance
  <2>2. CASE peer' # 0
    <3>1. peer' = gen /\ gen' = gen /\ life.at = "install"
      BY <1>3, <2>2 DEF At
    <3>2. accepted'[peer'] = 0
      BY <1>1, <1>3, <3>1 DEF FreshPeer, Numberless
    <3>3. shown'[peer'] \in Nat
      BY <1>1, <1>3, <3>1 DEF TypeOK
    <3>4. (TypeOK /\ InHand => Carried \in Nat)'
      BY CarriedIsNumber, PTL
    <3>5. Carried' \in Nat
      BY <1>5, <1>8, <3>4
    <3> QED
      BY <3>2, <3>3, <3>5 DEF Balance
  <2> QED
    BY <2>1, <2>2
<1> QED
  BY <1>2, <1>5, <1>6, <1>7, <1>8, <1>9, <1>10 DEF IInv

LEMMA TransportKeeps ==
    ASSUME IInv, NEW g \in Gens, WireChanges(g) \/ StateChanges(g)
    PROVE  IInv'
<1>1. UNCHANGED <<gen, peer, life, track, queue, pending, frames, producer, sender, accepted, shown>>
  BY DEF WireChanges, WireChangesConn, StateChanges, StateChangesConn, videoVars, countVars
<1>2. ConnTypeOK /\ TypeOK
  BY DEF IInv, TypeOK
<1>3. ConnTypeOK'
  <2>1. wire \in [Gens -> States] /\ callbacks \in [Gens -> Seq(States \ {"none"})] /\ callbacks[g] \in Seq(States \ {"none"})
    BY <1>2 DEF ConnTypeOK
  <2>2. CASE WireChanges(g)
    <3>1. PICK to \in {"connected", "disconnected"} :
                /\ wire' = [wire EXCEPT ![g] = to] /\ callbacks' = [callbacks EXCEPT ![g] = Append(@, to)]
                /\ UNCHANGED state
      BY <2>2 DEF WireChanges, WireChangesConn
    <3>2. to \in States \ {"none"}
      BY DEF States
    <3>3. Append(callbacks[g], to) \in Seq(States \ {"none"})
      BY <2>1, <3>2
    <3> QED
      BY <1>1, <1>2, <2>1, <3>1, <3>2, <3>3 DEF ConnTypeOK
  <2>3. CASE StateChanges(g)
    <3>1. /\ callbacks[g] # <<>> /\ state' = Head(callbacks[g])
          /\ callbacks' = [callbacks EXCEPT ![g] = Tail(@)] /\ UNCHANGED wire
      BY <2>3 DEF StateChanges, StateChangesConn
    <3>2. Tail(callbacks[g]) \in Seq(States \ {"none"}) /\ Head(callbacks[g]) \in States \ {"none"}
      BY <2>1, <3>1
    <3> QED
      BY <1>1, <1>2, <2>1, <3>1, <3>2 DEF ConnTypeOK
  <2> QED
    BY <2>2, <2>3
<1>4. TypeOK'
  BY <1>1, <1>2, <1>3 DEF TypeOK
<1>5. LifeShape' /\ NilMeanwhile' /\ RoomToBump' /\ OwnPeer' /\ FreshPeer'
  BY <1>1 DEF IInv, LifeShape, NilMeanwhile, RoomToBump, Unbumped, OwnPeer, FreshPeer
<1>6. InHand' /\ InOrder' /\ Balance'
  BY <1>1 DEF IInv, InHand, InOrder, Older, p, Stamped, HoldsOldest, Balance, Carried, OwnInSender,
              OwnInProducer, OwnUnits
<1> QED
  BY <1>4, <1>5, <1>6 DEF IInv

-----------------------------------------------------------------------------
(* The frames.                                                             *)
LEMMA ConnectionRests ==
    ASSUME IInv, UNCHANGED <<connVars, track>>
    PROVE  /\ ConnTypeOK' /\ track' \in Gens /\ UNCHANGED <<gen, peer>>
           /\ LifeShape' /\ NilMeanwhile' /\ RoomToBump' /\ OwnPeer'
           /\ accepted' = accepted => FreshPeer'
<1> USE DEF IInv, TypeOK, connVars, netVars
<1>1. ConnTypeOK' /\ track' \in Gens /\ UNCHANGED <<gen, peer, life, track>>
  BY DEF ConnTypeOK
<1> QED
  BY <1>1 DEF LifeShape, NilMeanwhile, RoomToBump, Unbumped, OwnPeer, FreshPeer

LEMMA FrameChanged ==
    ASSUME NEW f \in Frames, NEW n \in Nat, NEW g \in Gens
    PROVE  /\ [f EXCEPT !.prev = n] \in Frames /\ [f EXCEPT !.gen = g] \in Frames
           /\ [f EXCEPT !.prev = n].prev = n /\ [f EXCEPT !.gen = g].gen = g
           /\ \A h \in {[f EXCEPT !.prev = n], [f EXCEPT !.gen = g]} : h.n = f.n /\ h.key = f.key
           /\ [f EXCEPT !.prev = n].gen = f.gen /\ [f EXCEPT !.gen = g].prev = f.prev
  BY DEF Frames

(* What an invariant state says of the queue.                              *)
LEMMA QueueTypes ==
    ASSUME IInv
    PROVE  /\ queue \in Seq(Frames) /\ Len(queue) \in Nat /\ Len(queue) <= QueueCap
           /\ frames \in Nat /\ gen \in Gens /\ gen \in Nat
           /\ \A i \in 1 .. Len(queue) :
                 queue[i] \in Frames /\ queue[i].n \in Nat /\ queue[i].gen \in Nat /\ Older(queue[i])
<1>1. TypeOK /\ ConnTypeOK /\ InOrder
  BY DEF IInv, TypeOK
<1>2. queue \in Seq(Frames) /\ Len(queue) <= QueueCap
  BY <1>1 DEF TypeOK
<1>3. frames \in Nat /\ gen \in Gens /\ gen \in Nat
  BY <1>1 DEF TypeOK, ConnTypeOK, Gens
<1>4. ASSUME NEW i \in 1 .. Len(queue)
      PROVE  queue[i] \in Frames /\ queue[i].n \in Nat /\ queue[i].gen \in Nat /\ Older(queue[i])
  <2>1. queue[i] \in Frames /\ queue[i].n \in Nat /\ queue[i].gen \in Gens
    BY <1>2, FrameAt
  <2>2. Gens \subseteq Nat
    BY Constants
  <2> QED
    BY <1>1, <2>1, <2>2 DEF InOrder
<1> QED
  BY <1>2, <1>3, <1>4

LEMMA OfferKeeps ==
    ASSUME IInv, Offer
    PROVE  IInv'
<1> USE Constants
<1>1. TypeOK /\ OwnPeer /\ FreshPeer /\ InOrder /\ Balance /\ NilMeanwhile /\ InHand
  BY DEF IInv
<1>2. /\ producer = Idle /\ frames < MaxFrames /\ peer # 0
      /\ frames' = frames + 1 /\ accepted' = [accepted EXCEPT ![peer] = @ + 1]
      /\ UNCHANGED <<connVars, track, queue, pending, sender, shown>>
  BY DEF Offer
<1>3. /\ ConnTypeOK' /\ track' \in Gens /\ UNCHANGED <<gen, peer, life>>
      /\ LifeShape' /\ NilMeanwhile' /\ RoomToBump' /\ OwnPeer'
  BY <1>2, ConnectionRests DEF connVars
<1>4. PICK f \in Frames : /\ producer' = [at |-> "swap", oldest |-> Idle, frame |-> f]
                          /\ f.n = frames + 1 /\ f.prev = 0
  <2>1. PICK key \in BOOLEAN :
              producer' = [at |-> "swap", oldest |-> Idle,
                           frame |-> [n |-> frames + 1, key |-> key, prev |-> 0, gen |-> 0]]
    BY DEF Offer
  <2>2. frames + 1 \in 1 .. MaxFrames
    BY <1>1, <1>2 DEF TypeOK
  <2>3. [n |-> frames + 1, key |-> key, prev |-> 0, gen |-> 0] \in Frames
    BY <2>2 DEF Frames
  <2> QED
    BY <2>1, <2>3
<1>5. peer = gen /\ peer \in Gens /\ accepted[peer] \in Nat /\ shown[peer] \in Nat
  BY <1>1, <1>2 DEF OwnPeer, TypeOK, ConnTypeOK
<1>6. producer' \in Producing /\ producer' # Idle /\ producer'.at = "swap" /\ p' = f /\ producer'.oldest = Idle
  BY <1>4, FramesAreNotIdle DEF Producing, p
<1>7. TypeOK'
  <2>1. frames' \in 0 .. MaxFrames /\ accepted' \in [Gens -> Nat]
    BY <1>1, <1>2, <1>5 DEF TypeOK
  <2> QED
    BY <1>1, <1>2, <1>3, <1>6, <2>1 DEF TypeOK
<1>8. FreshPeer'
  <2>1. \A g \in Gens : g > gen => g # peer
    BY <1>5
  <2>2. life'.at \notin Numberless
    BY <1>1, <1>2, <1>3 DEF NilMeanwhile, Numberless
  <2> QED
    BY <1>1, <1>2, <1>3, <1>5, <2>1, <2>2 DEF FreshPeer, TypeOK
<1>9. InHand'
  BY <1>2, <1>4, <1>6 DEF InHand
<1>10. InOrder'
  <2>1. ~Stamped' /\ ~HoldsOldest'
    BY <1>6 DEF Stamped, HoldsOldest
  <2>2. frames \in Nat
    BY <1>1 DEF TypeOK
  <2>3. ASSUME NEW i \in 1 .. Len(queue) PROVE Older(queue[i])'
    <3>1. queue[i].n \in Nat /\ queue[i].n <= frames /\ queue[i].gen <= gen
      BY QueueTypes DEF Older
    <3> QED
      BY <1>2, <1>3, <1>4, <1>6, <2>1, <2>2, <3>1 DEF Older
  <2> QED
    BY <1>2, <2>1, <2>3 DEF InOrder
<1>11. Balance'
  <2>1. OwnInProducer = 0 /\ OwnInProducer' = 1
    <3>1. Units(p)' = 1
      BY <1>4, <1>6 DEF Units
    <3> QED
      BY <1>2, <1>6, <3>1 DEF OwnInProducer, Stamped, HoldsOldest
  <2>2. OwnInSender' = OwnInSender /\ UnitsOf(gen, queue)' = UnitsOf(gen, queue) /\ pending' = pending
    BY <1>2, <1>3 DEF OwnInSender, OwnUnits
  <2>3. Carried' = Carried + 1 /\ Carried \in Nat
    <3>1. /\ OwnInSender \in Nat /\ UnitsOf(gen, queue) \in Nat /\ pending \in Nat /\ Carried \in Nat
      BY <1>1, CarriedTypes
    <3> QED
      BY <2>1, <2>2, <3>1 DEF Carried
  <2>4. accepted'[peer'] = accepted[peer] + 1 /\ shown'[peer'] = shown[peer]
    BY <1>1, <1>2, <1>3, <1>5 DEF TypeOK
  <2>5. accepted[peer] <= shown[peer] + Carried
    BY <1>1, <1>2 DEF Balance
  <2> HIDE DEF Carried
  <2> QED
    BY <1>5, <2>3, <2>4, <2>5 DEF Balance
<1> QED
  BY <1>3, <1>7, <1>8, <1>9, <1>10, <1>11 DEF IInv

LEMMA SwapKeeps ==
    ASSUME IInv, Swap
    PROVE  IInv'
<1> USE Constants
<1>1. TypeOK /\ InOrder /\ InHand
  BY DEF IInv
<1>2. /\ producer.at = "swap" /\ producer # Idle /\ pending' = 0
      /\ producer' = [producer EXCEPT !.at = "stamp", !.frame.prev = pending]
      /\ UNCHANGED <<connVars, track, queue, frames, sender, accepted, shown>>
  BY BusyAt DEF Swap, countVars
<1>3. /\ ConnTypeOK' /\ track' \in Gens /\ UNCHANGED <<gen, peer>>
      /\ LifeShape' /\ NilMeanwhile' /\ RoomToBump' /\ OwnPeer' /\ FreshPeer'
  BY <1>2, ConnectionRests
<1>4. producer \in Producing /\ p \in Frames /\ p.prev = 0 /\ pending \in Nat
      /\ p.n = frames /\ producer.oldest = Idle
  BY <1>1, <1>2, InHandTypes DEF InHand, TypeOK
<1>5. /\ producer' \in Producing /\ producer' # Idle /\ producer'.at = "stamp" /\ producer'.oldest = Idle
      /\ p'.n = p.n /\ p'.prev = pending
  <2>1. [p EXCEPT !.prev = pending] \in Frames /\ [p EXCEPT !.prev = pending].n = p.n
        /\ [p EXCEPT !.prev = pending].prev = pending
    BY <1>4, Constants, FrameChanged
  <2>2. producer' \in Producing /\ producer'.at = "stamp" /\ producer'.oldest = producer.oldest
        /\ producer'.frame = [p EXCEPT !.prev = pending]
    BY <1>2, <1>4, <2>1 DEF Producing, p
  <2> QED
    BY <1>4, <2>1, <2>2, FramesAreNotIdle DEF p
<1>6. TypeOK'
  BY <1>1, <1>2, <1>3, <1>5 DEF TypeOK
<1>7. InHand'
  BY <1>2, <1>4, <1>5 DEF InHand
<1>8. InOrder'
  <2>1. ~Stamped' /\ ~HoldsOldest'
    BY <1>5 DEF Stamped, HoldsOldest
  <2>2. ASSUME NEW i \in 1 .. Len(queue) PROVE Older(queue[i])'
    <3>1. Older(queue[i])
      BY <1>1 DEF InOrder
    <3> QED
      BY <1>2, <1>3, <1>5, <2>1, <3>1 DEF Older
  <2> QED
    BY <1>2, <2>1, <2>2 DEF InOrder
<1>9. Carried <= Carried'
  <2>1. OwnInProducer = 1
    <3>1. Units(p) = 1
      BY <1>4 DEF Units
    <3> QED
      BY <1>2, <3>1 DEF OwnInProducer, Stamped, HoldsOldest
  <2>2. OwnInProducer' = pending + 1
    <3>1. Units(p)' = pending + 1
      BY <1>5 DEF Units
    <3> QED
      BY <1>4, <1>5, <3>1 DEF OwnInProducer, Stamped, HoldsOldest
  <2>3. OwnInSender' = OwnInSender /\ UnitsOf(gen, queue)' = UnitsOf(gen, queue)
    BY <1>2, <1>3 DEF OwnInSender, OwnUnits
  <2>4. OwnInSender \in Nat /\ UnitsOf(gen, queue) \in Nat
    BY <1>1, CarriedTypes
  <2> QED
    BY <1>2, <1>4, <2>1, <2>2, <2>3, <2>4 DEF Carried
<1>10. Balance'
  BY <1>2, <1>3, <1>6, <1>7, <1>9, BalanceKept
<1> QED
  BY <1>3, <1>6, <1>7, <1>8, <1>10 DEF IInv

LEMMA StampKeeps ==
    ASSUME IInv, Stamp
    PROVE  IInv'
<1> USE Constants
<1>1. TypeOK /\ InOrder /\ InHand
  BY DEF IInv
<1>2. /\ producer.at = "stamp" /\ producer # Idle
      /\ producer' = [producer EXCEPT !.at = "push", !.frame.gen = gen]
      /\ UNCHANGED <<connVars, track, queue, pending, frames, sender, accepted, shown>>
  BY BusyAt DEF Stamp, countVars
<1>3. /\ ConnTypeOK' /\ track' \in Gens /\ UNCHANGED <<gen, peer>>
      /\ LifeShape' /\ NilMeanwhile' /\ RoomToBump' /\ OwnPeer' /\ FreshPeer'
  BY <1>2, ConnectionRests
<1>4. producer \in Producing /\ p \in Frames /\ p.prev \in Nat
      /\ p.n = frames /\ producer.oldest = Idle /\ gen \in Gens /\ gen \in Nat
  BY <1>1, <1>2, InHandTypes, QueueTypes DEF InHand
<1>5. /\ producer' \in Producing /\ producer' # Idle /\ producer'.at = "push" /\ producer'.oldest = Idle
      /\ p'.n = p.n /\ p'.prev = p.prev /\ p'.gen = gen
  <2>1. [p EXCEPT !.gen = gen] \in Frames /\ [p EXCEPT !.gen = gen].n = p.n
        /\ [p EXCEPT !.gen = gen].prev = p.prev /\ [p EXCEPT !.gen = gen].gen = gen
    <3>1. \A f \in Frames : \A g \in Gens :
             LET h == [f EXCEPT !.gen = g]
             IN  h \in Frames /\ h.n = f.n /\ h.prev = f.prev /\ h.gen = g
      BY DEF Frames
    <3> HIDE DEF p
    <3> QED
      BY <1>4, <3>1
  <2>2. producer' \in Producing /\ producer'.at = "push" /\ producer'.oldest = producer.oldest
        /\ producer'.frame = [p EXCEPT !.gen = gen]
    BY <1>2, <1>4, <2>1 DEF Producing, p
  <2> QED
    BY <1>4, <2>1, <2>2, FramesAreNotIdle DEF p
<1>6. TypeOK'
  BY <1>1, <1>2, <1>3, <1>5 DEF TypeOK
<1>7. InHand'
  BY <1>2, <1>4, <1>5 DEF InHand
<1>8. InOrder'
  <2>1. ~HoldsOldest'
    BY <1>5 DEF HoldsOldest
  <2>2. ASSUME NEW i \in 1 .. Len(queue) PROVE Older(queue[i])'
    <3>1. Older(queue[i])
      BY <1>1 DEF InOrder
    <3> QED
      BY <1>2, <1>3, <1>5, <3>1 DEF Older
  <2> QED
    BY <1>2, <1>3, <1>4, <1>5, <2>1, <2>2 DEF InOrder
<1>9. Carried <= Carried'
  <2>1. OwnInProducer = p.prev + 1 /\ OwnInProducer' = p.prev + 1
    BY <1>2, <1>3, <1>4, <1>5 DEF OwnInProducer, Stamped, HoldsOldest, OwnUnits, Units
  <2>2. OwnInSender' = OwnInSender /\ UnitsOf(gen, queue)' = UnitsOf(gen, queue)
    BY <1>2, <1>3 DEF OwnInSender, OwnUnits
  <2>3. OwnInSender \in Nat /\ UnitsOf(gen, queue) \in Nat /\ pending \in Nat
    BY <1>1, CarriedTypes
  <2> QED
    BY <1>2, <1>4, <2>1, <2>2, <2>3 DEF Carried
<1>10. Balance'
  BY <1>2, <1>3, <1>6, <1>7, <1>9, BalanceKept
<1> QED
  BY <1>3, <1>6, <1>7, <1>8, <1>10 DEF IInv

LEMMA NoLess ==
    ASSUME NEW s \in Nat, NEW u \in Nat, NEW a \in Nat, NEW b \in Nat, NEW w \in Nat, NEW d \in Nat,
           a + b <= w + d
    PROVE  s + u + a + b <= s + (u + w) + 0 + d
  OBVIOUS

LEMMA Shifted ==
    ASSUME NEW a \in Nat, NEW w \in Nat, NEW b \in Nat, NEW n \in Nat, a <= n + 1
    PROVE  (a + w) + b <= w + (b + n + 1) /\ a + w \in Nat /\ b + n + 1 \in Nat
  OBVIOUS

(* The frame, or the keyframe it would replace, joins the queue, and the   *)
(* encoder thread is done.                                                 *)
LEMMA AppendKeeps ==
    ASSUME IInv, Stamped, Len(queue) < QueueCap,
           UNCHANGED <<connVars, track, frames, sender, accepted, shown>>, producer' = Idle,
           \/ ~HoldsOldest /\ queue' = Append(queue, p) /\ pending' = pending
           \/ HoldsOldest /\ queue' = Append(queue, producer.oldest) /\ pending' = pending + p.prev + 1
    PROVE  IInv'
<1> USE Constants
<1>1. TypeOK /\ InOrder /\ InHand
  BY DEF IInv
<1>2. producer # Idle /\ p \in Frames /\ p.prev \in Nat /\ p.n = frames /\ pending \in Nat
  BY <1>1, InHandTypes DEF Stamped, InHand, TypeOK
<1>3. /\ ConnTypeOK' /\ track' \in Gens /\ UNCHANGED <<gen, peer>>
      /\ LifeShape' /\ NilMeanwhile' /\ RoomToBump' /\ OwnPeer' /\ FreshPeer'
  BY ConnectionRests
<1>4. PICK f \in Frames :
        /\ queue' = Append(queue, f) /\ f.n <= frames /\ f.gen <= gen
        /\ \/ ~HoldsOldest /\ f = p /\ pending' = pending
           \/ HoldsOldest /\ f = producer.oldest /\ pending' = pending + p.prev + 1
  <2>1. CASE ~HoldsOldest
    <3>1. p.gen <= gen
      BY <1>1 DEF InOrder
    <3>2. p.n <= frames
      <4>1. frames \in Nat
        BY QueueTypes
      <4> QED
        BY <1>2, <4>1
    <3> HIDE DEF p, HoldsOldest
    <3> QED
      BY <1>2, <2>1, <3>1, <3>2
  <2>2. CASE HoldsOldest
    <3>1. producer.oldest \in Frames /\ producer.oldest.n <= frames /\ producer.oldest.gen <= gen
      BY <1>1, <2>2 DEF HoldsOldest, InHand, InOrder, Older
    <3> QED
      BY <2>2, <3>1
  <2> QED
    BY <2>1, <2>2
<1>5. queue \in Seq(Frames) /\ Len(queue) \in Nat
  BY QueueTypes
<1>6. /\ queue' \in Seq(Frames) /\ Len(queue') = Len(queue) + 1
      /\ \A i \in 1 .. Len(queue') : queue'[i] = f \/ (i \in 1 .. Len(queue) /\ queue'[i] = queue[i])
  BY <1>4, <1>5
<1>7. TypeOK'
  <2>1. Len(queue') <= QueueCap
    BY <1>5, <1>6
  <2>2. pending' \in Nat
    BY <1>2, <1>4
  <2> QED
    BY <1>1, <1>3, <1>6, <2>1, <2>2 DEF TypeOK
<1>8. InHand'
  BY DEF InHand
<1>9. InOrder'
  <2>1. ASSUME NEW i \in 1 .. Len(queue') PROVE Older(queue[i])'
    <3>1. queue'[i] = f \/ (i \in 1 .. Len(queue) /\ queue'[i] = queue[i])
      BY <1>6
    <3>2. queue'[i].n <= frames /\ queue'[i].gen <= gen
      BY <1>1, <1>4, <3>1 DEF InOrder, Older
    <3> QED
      BY <1>3, <3>2 DEF Older, Stamped
  <2> QED
    BY <2>1 DEF InOrder, Stamped, HoldsOldest
<1>10. Carried <= Carried'
  <2>1. OwnUnits(f) \in Nat /\ OwnUnits(p) \in Nat /\ Units(p) = p.prev + 1 /\ OwnUnits(p) <= Units(p)
    BY <1>1, <1>2, CarriedTypes
  <2>2. UnitsOf(gen, queue)' = UnitsOf(gen, queue) + OwnUnits(f)
    BY <1>3, <1>4, <1>5, UnitsAppended DEF OwnUnits
  <2>3. OwnInProducer = OwnUnits(p) + (IF HoldsOldest THEN OwnUnits(f) ELSE 0) /\ OwnInProducer' = 0
    BY <1>2, <1>4 DEF OwnInProducer
  <2>4. OwnInSender' = OwnInSender
    BY <1>3 DEF OwnInSender, OwnUnits
  <2>5. OwnInSender \in Nat /\ UnitsOf(gen, queue) \in Nat
    BY <1>1, CarriedTypes
  <2>6. OwnInProducer + pending <= OwnUnits(f) + pending' /\ OwnInProducer \in Nat /\ pending' \in Nat
    <3> HIDE DEF OwnUnits, OwnInProducer, Units, p
    <3>1. CASE ~HoldsOldest
      <4>1. OwnInProducer = OwnUnits(p) + 0 /\ f = p /\ pending' = pending
        BY <1>4, <2>3, <3>1
      <4> QED
        BY <1>2, <2>1, <4>1
    <3>2. CASE HoldsOldest
      <4>1. OwnInProducer = OwnUnits(p) + OwnUnits(f) /\ pending' = pending + p.prev + 1
        BY <1>4, <2>3, <3>2
      <4>2. OwnUnits(p) <= p.prev + 1
        BY <2>1
      <4> QED
        BY <1>2, <2>1, <4>1, <4>2, Shifted
    <3> QED
      BY <3>1, <3>2
  <2> HIDE DEF OwnUnits, OwnInProducer, OwnInSender, UnitsOf, Units
  <2>7. /\ Carried = OwnInSender + UnitsOf(gen, queue) + OwnInProducer + pending
        /\ Carried' = OwnInSender + (UnitsOf(gen, queue) + OwnUnits(f)) + 0 + pending'
    BY <2>2, <2>3, <2>4, Zenon DEF Carried
  <2> QED
    BY <1>2, <2>1, <2>5, <2>6, <2>7, NoLess
<1>11. Balance'
  BY <1>3, <1>7, <1>8, <1>10, BalanceKept
<1> QED
  BY <1>3, <1>7, <1>8, <1>9, <1>11 DEF IInv

(* A frame is given up and its durations become pending.                   *)
LEMMA GiveUpKeeps ==
    ASSUME IInv, producer # Idle, ~HoldsOldest, GiveUp,
           UNCHANGED <<connVars, track, queue, frames, sender, accepted, shown>>
    PROVE  IInv'
<1> USE Constants
<1>1. TypeOK /\ InOrder /\ InHand
  BY DEF IInv
<1>2. p \in Frames /\ p.prev \in Nat /\ pending \in Nat /\ pending' = pending + p.prev + 1 /\ producer' = Idle
  BY <1>1, InHandTypes DEF GiveUp, TypeOK
<1>3. /\ ConnTypeOK' /\ track' \in Gens /\ UNCHANGED <<gen, peer>>
      /\ LifeShape' /\ NilMeanwhile' /\ RoomToBump' /\ OwnPeer' /\ FreshPeer'
  BY ConnectionRests
<1>4. TypeOK'
  <2>1. pending' \in Nat
    BY <1>2
  <2> QED
    BY <1>1, <1>2, <1>3, <2>1 DEF TypeOK
<1>5. InHand'
  BY <1>2 DEF InHand
<1>6. InOrder'
  <2>1. ASSUME NEW i \in 1 .. Len(queue) PROVE Older(queue[i])'
    <3>1. Older(queue[i])
      BY <1>1 DEF InOrder
    <3> QED
      BY <1>2, <1>3, <3>1 DEF Older, Stamped
  <2> QED
    BY <1>2, <2>1 DEF InOrder, Stamped, HoldsOldest
<1>7. Carried <= Carried'
  <2>1. OwnUnits(p) \in Nat /\ Units(p) = p.prev + 1 /\ OwnUnits(p) <= Units(p)
    BY <1>1, <1>2, CarriedTypes
  <2>2. OwnInProducer <= p.prev + 1 /\ OwnInProducer \in Nat /\ OwnInProducer' = 0
    <3>1. OwnInProducer' = 0
      BY <1>2 DEF OwnInProducer
    <3>2. OwnInProducer = IF Stamped THEN OwnUnits(p) + 0 ELSE Units(p) + 0
      BY DEF OwnInProducer
    <3> HIDE DEF OwnUnits, OwnInProducer, Units
    <3> QED
      BY <1>2, <2>1, <3>1, <3>2
  <2>3. OwnInSender' = OwnInSender /\ UnitsOf(gen, queue)' = UnitsOf(gen, queue)
    BY <1>3 DEF OwnInSender, OwnUnits
  <2>4. OwnInSender \in Nat /\ UnitsOf(gen, queue) \in Nat
    BY <1>1, CarriedTypes
  <2> HIDE DEF OwnInProducer, OwnInSender, UnitsOf
  <2> QED
    BY <1>2, <2>2, <2>3, <2>4 DEF Carried
<1>8. Balance'
  BY <1>3, <1>4, <1>5, <1>7, BalanceKept
<1> QED
  BY <1>3, <1>4, <1>5, <1>6, <1>8 DEF IInv

LEMMA PushKeeps ==
    ASSUME IInv, Push
    PROVE  IInv'
<1>1. producer.at = "push" /\ producer # Idle
  BY BusyAt DEF Push
<1>2. Stamped /\ ~HoldsOldest
  BY <1>1 DEF Stamped, HoldsOldest
<1>3. CASE ~Full
  <2>1. Len(queue) < QueueCap
    BY <1>3, QueueTypes, Constants DEF Full
  <2> QED
    BY <1>2, <1>3, <2>1, AppendKeeps DEF Push, countVars
<1>4. CASE Full
  <2>1. TypeOK /\ InOrder /\ InHand
    BY DEF IInv
  <2>2. /\ producer' = [producer EXCEPT !.at = "evict"]
        /\ UNCHANGED <<connVars, track, queue, pending, frames, sender, accepted, shown>>
    BY <1>4 DEF Push, countVars
  <2>3. /\ ConnTypeOK' /\ track' \in Gens /\ UNCHANGED <<gen, peer>>
        /\ LifeShape' /\ NilMeanwhile' /\ RoomToBump' /\ OwnPeer' /\ FreshPeer'
    BY <2>2, ConnectionRests
  <2>4. /\ producer' \in Producing /\ producer' # Idle /\ producer'.at = "evict"
        /\ producer'.oldest = producer.oldest /\ p' = p
    <3>1. producer \in Producing
      BY <1>1, <2>1, InHandTypes
    <3>2. producer' \in Producing /\ producer'.at = "evict"
          /\ producer'.oldest = producer.oldest /\ p' = p
      BY <2>2, <3>1 DEF Producing, p
    <3> QED
      BY <3>2, FramesAreNotIdle
  <2>5. Stamped' /\ ~HoldsOldest'
    BY <2>4 DEF Stamped, HoldsOldest
  <2>6. TypeOK'
    BY <2>1, <2>2, <2>3, <2>4 DEF TypeOK
  <2>7. InHand'
    BY <1>1, <2>1, <2>2, <2>4 DEF InHand
  <2>8. InOrder'
    BY <1>1, <1>2, <2>1, <2>2, <2>3, <2>4, <2>5 DEF InOrder, Older
  <2>9. Carried' = Carried
    <3>1. OwnInProducer' = OwnInProducer /\ OwnInSender' = OwnInSender
      BY <1>1, <1>2, <2>2, <2>3, <2>4, <2>5 DEF OwnInProducer, OwnInSender, OwnUnits
    <3> QED
      BY <2>2, <2>3, <3>1 DEF Carried
  <2>10. Carried <= Carried'
    BY <2>1, <2>9, CarriedTypes
  <2> HIDE DEF Carried
  <2>11. Balance'
    BY <2>2, <2>3, <2>6, <2>7, <2>10, BalanceKept
  <2> QED
    BY <2>3, <2>6, <2>7, <2>8, <2>11 DEF IInv
<1> QED
  BY <1>3, <1>4

(* The oldest frame leaves the full queue: it is kept aside, or replaced   *)
(* by the frame in hand, which is of the same generation or a later one.   *)
LEMMA EvictKeeps ==
    ASSUME IInv, Evict
    PROVE  IInv'
<1> USE Constants
<1>1. producer.at = "evict" /\ producer # Idle /\ Stamped /\ ~HoldsOldest
  BY BusyAt DEF Evict, Stamped, HoldsOldest
<1>2. CASE queue = <<>>
  BY <1>1, <1>2, GiveUpKeeps DEF Evict, countVars
<1>3. CASE queue # <<>>
  <2> DEFINE f == Head(queue)
  <2>1. TypeOK /\ InOrder /\ InHand
    BY DEF IInv
  <2>2. /\ queue' = Tail(queue)
        /\ \/ producer' = [producer EXCEPT !.at = "putBack", !.oldest = f]
           \/ producer' = [producer EXCEPT !.at = "replace", !.oldest = Idle, !.frame.prev = @ + f.prev + 1]
        /\ UNCHANGED <<connVars, track, pending, frames, sender, accepted, shown>>
    BY <1>3 DEF Evict, Replacing, countVars
  <2>3. /\ ConnTypeOK' /\ track' \in Gens /\ UNCHANGED <<gen, peer>>
        /\ LifeShape' /\ NilMeanwhile' /\ RoomToBump' /\ OwnPeer' /\ FreshPeer'
    BY <2>2, ConnectionRests
  <2>4. producer \in Producing /\ p \in Frames /\ p.prev \in Nat /\ p.gen \in Gens /\ p.gen \in Nat
        /\ p.n = frames /\ producer.oldest = Idle
    BY <1>1, <2>1, InHandTypes DEF InHand
  <2>5. f \in Frames /\ f.prev \in Nat /\ f.n < p.n /\ f.gen <= p.gen /\ f.gen \in Nat /\ p.gen <= gen
        /\ f.n <= frames /\ f.gen <= gen
    <3>1. 1 \in 1 .. Len(queue) /\ f = queue[1]
      BY <1>3, QueueTypes
    <3>2. f \in Frames /\ f.gen \in Nat /\ Older(f)
      BY <3>1, QueueTypes
    <3>3. f.prev \in Nat
      BY <3>2 DEF Frames
    <3> HIDE DEF f
    <3> QED
      BY <1>1, <2>1, <3>2, <3>3 DEF Older, InOrder
  <2>6. /\ queue' \in Seq(Frames) /\ Len(queue') = Len(queue) - 1 /\ Len(queue) \in Nat /\ Len(queue) >= 1
        /\ \A i \in 1 .. Len(queue') : i + 1 \in 1 .. Len(queue) /\ queue'[i] = queue[i + 1]
    BY <1>3, <2>2, QueueTypes
  <2>7. Len(queue') < QueueCap /\ Len(queue') <= QueueCap
    BY <2>6, QueueTypes
  <2>8. UnitsOf(gen, queue) = UnitsOf(gen, queue)' + OwnUnits(f) /\ UnitsOf(gen, queue)' \in Nat
    BY <1>3, <2>2, <2>3, <2>6, QueueTypes, UnitsTaken, DurationsAreFinite DEF OwnUnits
  <2>9. OwnInProducer = OwnUnits(p)
    <3>1. OwnUnits(p) \in Nat
      BY <2>1, <2>4, CarriedTypes
    <3> QED
      BY <1>1, <3>1 DEF OwnInProducer
  <2>10. /\ OwnUnits(f) \in Nat /\ OwnUnits(p) \in Nat
         /\ Units(f) = f.prev + 1 /\ Units(p) = p.prev + 1
    BY <2>1, <2>4, <2>5, CarriedTypes
  <2> HIDE DEF f
  <2>11. /\ producer' \in Producing /\ producer' # Idle /\ producer'.at \in {"putBack", "replace"}
         /\ p' \in Frames /\ p'.n = p.n /\ p'.gen = p.gen
         /\ IF producer'.at = "putBack" THEN producer'.oldest = f ELSE producer'.oldest = Idle
         /\ OwnInProducer' >= OwnUnits(p) + OwnUnits(f) /\ OwnInProducer' \in Nat
    <3>1. CASE producer' = [producer EXCEPT !.at = "putBack", !.oldest = f]
      <4>1. producer' \in Producing /\ producer'.at = "putBack" /\ p' = p /\ producer'.oldest = f
        BY <2>4, <2>5, <3>1 DEF Producing, p
      <4>2. producer' # Idle
        BY <4>1, FramesAreNotIdle
      <4>3. OwnUnits(p)' = OwnUnits(p) /\ OwnUnits(producer.oldest)' = OwnUnits(f)
        BY <2>3, <4>1 DEF OwnUnits
      <4> HIDE DEF OwnUnits
      <4>4. OwnInProducer' = OwnUnits(p) + OwnUnits(f)
        BY <4>1, <4>2, <4>3 DEF OwnInProducer, Stamped, HoldsOldest
      <4> QED
        BY <2>4, <2>10, <4>1, <4>2, <4>4
    <3>2. CASE producer' = [producer EXCEPT !.at = "replace", !.oldest = Idle, !.frame.prev = @ + f.prev + 1]
      <4> DEFINE r == [p EXCEPT !.prev = p.prev + f.prev + 1]
      <4>1. p.prev + f.prev + 1 \in Nat
        BY <2>4, <2>5
      <4>2. r \in Frames /\ r.n = p.n /\ r.gen = p.gen /\ r.prev = p.prev + f.prev + 1
        BY <2>4, <4>1, FrameChanged
      <4>3. producer' \in Producing /\ producer'.at = "replace" /\ producer'.oldest = Idle /\ producer'.frame = r
        <5>1. producer' = [producer EXCEPT !.at = "replace", !.oldest = Idle, !.frame = r]
          BY <2>4, <3>2 DEF Producing, p
        <5> HIDE DEF r
        <5> QED
          BY <2>4, <4>2, <5>1 DEF Producing
      <4>4. p' = r /\ producer' # Idle
        BY <4>3, FramesAreNotIdle DEF p
      <4>5. OwnUnits(p)' >= OwnUnits(p) + OwnUnits(f) /\ OwnUnits(p)' \in Nat
        <5>1. p.gen = gen => OwnUnits(p) = p.prev + 1 /\ OwnUnits(p)' = (p.prev + f.prev + 1) + 1
          BY <2>3, <4>2, <4>4 DEF OwnUnits, Units
        <5>2. p.gen # gen => OwnUnits(p) = 0 /\ OwnUnits(p)' = 0
          BY <2>3, <4>2, <4>4 DEF OwnUnits
        <5>3. f.gen = gen => p.gen = gen /\ OwnUnits(f) = f.prev + 1
          <6>1. gen \in Nat
            BY QueueTypes
          <6>2. f.gen = gen => p.gen = gen
            BY <2>4, <2>5, <6>1
          <6> QED
            BY <6>2 DEF OwnUnits, Units
        <5>4. f.gen # gen => OwnUnits(f) = 0
          BY DEF OwnUnits
        <5> HIDE DEF r, OwnUnits, Units
        <5>5. p.prev \in Nat /\ f.prev \in Nat /\ OwnUnits(f) \in Nat
          BY <2>4, <2>5, <2>10
        <5>6. CASE f.gen = gen
          BY <5>1, <5>3, <5>5, <5>6
        <5>7. CASE f.gen # gen
          <6>1. CASE p.gen = gen
            BY <5>1, <5>4, <5>5, <5>7, <6>1
          <6>2. CASE p.gen # gen
            BY <5>2, <5>4, <5>7, <6>2
          <6> QED
            BY <6>1, <6>2
        <5> QED
          BY <5>6, <5>7
      <4> HIDE DEF OwnUnits, r
      <4>6. OwnInProducer' = OwnUnits(p)'
        BY <4>3, <4>4, <4>5 DEF OwnInProducer, Stamped, HoldsOldest
      <4> QED
        BY <2>4, <2>10, <4>2, <4>3, <4>4, <4>5, <4>6
    <3> QED
      BY <2>2, <3>1, <3>2
  <2>12. TypeOK'
    BY <2>1, <2>2, <2>3, <2>6, <2>7, <2>11 DEF TypeOK
  <2>13. InHand'
    BY <2>2, <2>4, <2>5, <2>7, <2>11 DEF InHand
  <2>14. InOrder'
    <3>1. ASSUME NEW i \in 1 .. Len(queue') PROVE Older(queue[i])'
      <4>1. Older(queue[i + 1]) /\ queue'[i] = queue[i + 1]
        BY <2>1, <2>6 DEF InOrder
      <4> QED
        BY <1>1, <2>2, <2>3, <2>11, <4>1 DEF Older
    <3>2. HoldsOldest' => Older(producer.oldest)'
      BY <2>2, <2>3, <2>5, <2>11 DEF Older, HoldsOldest
    <3> QED
      BY <2>3, <2>5, <2>11, <3>1, <3>2 DEF InOrder
  <2>15. Carried <= Carried'
    <3>1. OwnInSender' = OwnInSender
      BY <2>2, <2>3 DEF OwnInSender, OwnUnits
    <3>2. OwnInSender \in Nat /\ pending \in Nat
      BY <2>1, CarriedTypes
    <3> HIDE DEF OwnUnits, OwnInProducer, OwnInSender, UnitsOf
    <3> QED
      BY <2>2, <2>8, <2>9, <2>10, <2>11, <3>1, <3>2 DEF Carried
  <2>16. Balance'
    BY <2>2, <2>3, <2>12, <2>13, <2>15, BalanceKept
  <2> QED
    BY <2>3, <2>12, <2>13, <2>14, <2>16 DEF IInv
<1> QED
  BY <1>2, <1>3

(* After an eviction there is a place: nobody else puts a frame into the   *)
(* queue.                                                                  *)
LEMMA PutBackKeeps ==
    ASSUME IInv, PutBack
    PROVE  IInv'
<1>1. producer.at = "putBack" /\ producer # Idle /\ Stamped /\ HoldsOldest
  BY BusyAt DEF PutBack, Stamped, HoldsOldest
<1>2. Len(queue) < QueueCap /\ ~Full
  <2>1. Len(queue) < QueueCap
    BY <1>1 DEF IInv, InHand
  <2> QED
    BY <2>1, QueueTypes, Constants DEF Full
<1> QED
  BY <1>1, <1>2, AppendKeeps DEF PutBack, GiveUp, countVars

LEMMA ReplaceKeeps ==
    ASSUME IInv, Replace
    PROVE  IInv'
<1>1. producer.at = "replace" /\ producer # Idle /\ Stamped /\ ~HoldsOldest
  BY BusyAt DEF Replace, Stamped, HoldsOldest
<1>2. Len(queue) < QueueCap /\ ~Full
  <2>1. Len(queue) < QueueCap
    BY <1>1 DEF IInv, InHand
  <2> QED
    BY <2>1, QueueTypes, Constants DEF Full
<1> QED
  BY <1>1, <1>2, AppendKeeps DEF Replace, countVars

LEMMA PopKeeps ==
    ASSUME IInv, Pop
    PROVE  IInv'
<1> USE Constants
<1> DEFINE f == Head(queue)
<1>1. TypeOK /\ InOrder /\ InHand
  BY DEF IInv
<1>2. /\ sender = Idle /\ queue # <<>> /\ queue' = Tail(queue)
      /\ sender' = [at |-> "judge", frame |-> f]
      /\ UNCHANGED <<connVars, track, pending, frames, producer, accepted, shown>>
  BY DEF Pop, countVars
<1>3. /\ ConnTypeOK' /\ track' \in Gens /\ UNCHANGED <<gen, peer>>
      /\ LifeShape' /\ NilMeanwhile' /\ RoomToBump' /\ OwnPeer' /\ FreshPeer'
  BY <1>2, ConnectionRests
<1>4. f \in Frames
  <2>1. 1 \in 1 .. Len(queue) /\ f = queue[1]
    BY <1>2, QueueTypes
  <2> QED
    BY <2>1, QueueTypes
<1>5. /\ queue' \in Seq(Frames) /\ Len(queue') = Len(queue) - 1 /\ Len(queue) \in Nat
      /\ \A i \in 1 .. Len(queue') : i + 1 \in 1 .. Len(queue) /\ queue'[i] = queue[i + 1]
  BY <1>2, QueueTypes
<1>6. Len(queue') <= QueueCap /\ (Len(queue) < QueueCap => Len(queue') < QueueCap)
  BY <1>5, QueueTypes
<1>7. UnitsOf(gen, queue) = UnitsOf(gen, queue)' + OwnUnits(f) /\ UnitsOf(gen, queue)' \in Nat
  BY <1>2, <1>3, <1>5, QueueTypes, UnitsTaken, DurationsAreFinite DEF OwnUnits
<1> HIDE DEF f
<1>8. sender' \in Sending /\ sender' # Idle /\ sender'.frame = f
  <2>1. sender' \in Sending /\ sender'.frame = f
    BY <1>2, <1>4 DEF Sending
  <2> QED
    BY <2>1, FramesAreNotIdle
<1>9. TypeOK'
  BY <1>1, <1>2, <1>3, <1>5, <1>6, <1>8 DEF TypeOK
<1>10. p' = p /\ (Stamped' <=> Stamped) /\ (HoldsOldest' <=> HoldsOldest)
  BY <1>2 DEF p, Stamped, HoldsOldest
<1>11. InHand'
  BY <1>1, <1>2, <1>6, <1>10 DEF InHand
<1>12. InOrder'
  <2>1. ASSUME NEW i \in 1 .. Len(queue') PROVE Older(queue[i])'
    <3>1. Older(queue[i + 1]) /\ queue'[i] = queue[i + 1]
      BY <1>1, <1>5 DEF InOrder
    <3> QED
      BY <1>2, <1>3, <1>10, <3>1 DEF Older
  <2> QED
    BY <1>1, <1>2, <1>3, <1>10, <2>1 DEF InOrder, Older
<1>13. Carried <= Carried'
  <2>1. OwnInSender = 0 /\ OwnInSender' = OwnUnits(f) /\ OwnInProducer' = OwnInProducer
    BY <1>2, <1>3, <1>8, <1>10 DEF OwnInSender, OwnInProducer, OwnUnits
  <2>2. OwnUnits(f) \in Nat /\ OwnInProducer \in Nat /\ pending \in Nat
    BY <1>1, <1>4, CarriedTypes
  <2> HIDE DEF OwnUnits, OwnInProducer, OwnInSender, UnitsOf
  <2> QED
    BY <1>2, <1>7, <2>1, <2>2 DEF Carried
<1>14. Balance'
  BY <1>2, <1>3, <1>9, <1>11, <1>13, BalanceKept
<1> QED
  BY <1>3, <1>9, <1>11, <1>12, <1>14 DEF IInv

(* Only a frame of a former peer is thrown away.                           *)
LEMMA JudgeKeeps ==
    ASSUME IInv, Judge
    PROVE  IInv'
<1> USE Constants
<1>1. TypeOK /\ InOrder /\ InHand
  BY DEF IInv
<1>2. /\ sender # Idle /\ sender.at = "judge"
      /\ sender' = IF sender.frame.gen # gen THEN Idle ELSE [sender EXCEPT !.at = "write"]
      /\ UNCHANGED <<connVars, track, queue, pending, frames, producer, accepted, shown>>
  BY BusyAt DEF Judge, countVars
<1>3. /\ ConnTypeOK' /\ track' \in Gens /\ UNCHANGED <<gen, peer>>
      /\ LifeShape' /\ NilMeanwhile' /\ RoomToBump' /\ OwnPeer' /\ FreshPeer'
  BY <1>2, ConnectionRests
<1>4. /\ sender' = Idle \/ (sender' \in Sending /\ sender' # Idle)
      /\ OwnInSender' = OwnInSender
  <2>1. sender \in Sending
    BY <1>1, <1>2 DEF TypeOK
  <2>2. CASE sender.frame.gen # gen
    BY <1>2, <2>2 DEF OwnInSender, OwnUnits
  <2>3. CASE sender.frame.gen = gen
    <3>1. sender' \in Sending /\ sender'.frame = sender.frame
      BY <1>2, <2>1, <2>3 DEF Sending
    <3> QED
      BY <1>2, <1>3, <3>1, FramesAreNotIdle DEF OwnInSender, OwnUnits
  <2> QED
    BY <2>2, <2>3
<1>5. TypeOK'
  BY <1>1, <1>2, <1>3, <1>4 DEF TypeOK
<1>6. p' = p /\ (Stamped' <=> Stamped) /\ (HoldsOldest' <=> HoldsOldest)
  BY <1>2 DEF p, Stamped, HoldsOldest
<1>7. InHand' /\ InOrder'
  BY <1>1, <1>2, <1>3, <1>6 DEF InHand, InOrder, Older
<1>8. Carried <= Carried'
  <2>1. OwnInProducer' = OwnInProducer
    BY <1>2, <1>3, <1>6 DEF OwnInProducer, OwnUnits
  <2>2. Carried' = Carried
    BY <1>2, <1>3, <1>4, <2>1 DEF Carried
  <2>3. Carried \in Nat
    BY <1>1, CarriedTypes
  <2> HIDE DEF Carried
  <2> QED
    BY <2>2, <2>3
<1>9. Balance'
  BY <1>2, <1>3, <1>5, <1>7, <1>8, BalanceKept
<1> QED
  BY <1>3, <1>5, <1>7, <1>9 DEF IInv

(* A frame of the present peer is written to its track; that of a former   *)
(* one, which may be too, only makes the track longer.                     *)
LEMMA WriteKeeps ==
    ASSUME IInv, Write
    PROVE  IInv'
<1> USE Constants
<1> DEFINE f == sender.frame
<1>1. TypeOK /\ InOrder /\ InHand /\ OwnPeer /\ Balance
  BY DEF IInv
<1>2. /\ sender # Idle /\ sender' = Idle
      /\ shown' = IF track = 0 THEN shown ELSE [shown EXCEPT ![track] = @ + f.prev + 1]
      /\ UNCHANGED <<connVars, track, queue, pending, frames, producer, accepted>>
  BY BusyAt DEF Write
<1>3. /\ ConnTypeOK' /\ track' \in Gens /\ UNCHANGED <<gen, peer>>
      /\ LifeShape' /\ NilMeanwhile' /\ RoomToBump' /\ OwnPeer' /\ FreshPeer'
  BY <1>2, ConnectionRests
<1>4. f \in Frames /\ f.prev \in Nat /\ track \in Gens /\ shown \in [Gens -> Nat]
  <2>1. f \in Frames /\ track \in Gens /\ shown \in [Gens -> Nat]
    BY <1>1, <1>2 DEF TypeOK, Sending
  <2> HIDE DEF f
  <2> QED
    BY <2>1 DEF Frames
<1>5. p' = p /\ (Stamped' <=> Stamped) /\ (HoldsOldest' <=> HoldsOldest)
  BY <1>2 DEF p, Stamped, HoldsOldest
<1>6. TypeOK'
  <2>1. shown' \in [Gens -> Nat]
    <3>1. shown[track] \in Nat /\ shown[track] + f.prev + 1 \in Nat
      BY <1>4
    <3> HIDE DEF f
    <3> QED
      BY <1>2, <1>4, <3>1
  <2> QED
    BY <1>1, <1>2, <1>3, <2>1 DEF TypeOK
<1>7. InHand' /\ InOrder'
  BY <1>1, <1>2, <1>3, <1>5 DEF InHand, InOrder, Older
<1>8. Balance'
  <2> SUFFICES ASSUME peer # 0 PROVE accepted'[peer] <= shown'[peer] + Carried'
    BY <1>3 DEF Balance
  <2>1. peer = gen /\ track = gen /\ peer \in Gens /\ peer # 0
    BY <1>1 DEF OwnPeer, TypeOK, ConnTypeOK
  <2>2. accepted[peer] \in Nat /\ shown[peer] \in Nat /\ accepted[peer] <= shown[peer] + Carried
    BY <1>1, <2>1 DEF TypeOK, Balance
  <2>3. shown'[peer] = shown[peer] + f.prev + 1
    BY <1>2, <1>4, <2>1
  <2>4. OwnInSender = OwnUnits(f) /\ OwnInSender' = 0 /\ OwnInProducer' = OwnInProducer
    BY <1>2, <1>3, <1>5 DEF OwnInSender, OwnInProducer, OwnUnits
  <2>5. OwnUnits(f) \in Nat /\ OwnUnits(f) <= f.prev + 1
    BY <1>1, <1>4, CarriedTypes
  <2>6. UnitsOf(gen, queue) \in Nat /\ OwnInProducer \in Nat /\ pending \in Nat
    BY <1>1, CarriedTypes
  <2> HIDE DEF f, OwnUnits, OwnInProducer, OwnInSender, UnitsOf
  <2>7. Carried <= Carried' + f.prev + 1 /\ Carried \in Nat /\ Carried' \in Nat
    BY <1>2, <1>3, <1>4, <2>4, <2>5, <2>6 DEF Carried
  <2> HIDE DEF Carried
  <2> QED
    BY <1>2, <1>4, <2>2, <2>3, <2>7
<1> QED
  BY <1>3, <1>6, <1>7, <1>8 DEF IInv

-----------------------------------------------------------------------------
(* The theorems.                                                           *)
LEMMA NextKeeps ==
    ASSUME IInv, [Next]_vars
    PROVE  IInv'
<1>1. CASE UNCHANGED vars
  <2>1. /\ ConnTypeOK' /\ track' \in Gens /\ LifeShape' /\ NilMeanwhile' /\ RoomToBump' /\ OwnPeer' /\ FreshPeer'
        /\ UNCHANGED <<gen, peer, track, queue, pending, frames, producer, sender, accepted, shown>>
    BY <1>1, ConnectionRests DEF vars, videoVars, countVars
  <2>2. TypeOK' /\ InHand' /\ InOrder' /\ Balance'
    BY <2>1 DEF IInv, TypeOK, InHand, InOrder, Older, p, Stamped, HoldsOldest, Balance, Carried, OwnInSender,
                OwnInProducer, OwnUnits
  <2> QED
    BY <2>1, <2>2 DEF IInv
<1>2. CASE Lifecycle
  BY <1>2, LifecycleKeeps
<1>3. CASE Encode
  BY <1>3, OfferKeeps, SwapKeeps, StampKeeps, PushKeeps, EvictKeeps, PutBackKeeps, ReplaceKeeps DEF Encode
<1>4. CASE SendOut
  BY <1>4, PopKeeps, JudgeKeeps, WriteKeeps DEF SendOut
<1>5. CASE \E g \in Gens : WireChanges(g) \/ StateChanges(g)
  BY <1>5, TransportKeeps
<1> QED
  BY <1>1, <1>2, <1>3, <1>4, <1>5 DEF Next

LEMMA Invariance == Spec => []IInv
  BY InitIInv, NextKeeps, PTL DEF Spec

(* Type correctness: among other things the queue is never longer than its *)
(* capacity (videoSendQueue), and peerGeneration never leaves its range.   *)
THEOREM VideoTypeCorrect == Spec => []TypeOK
<1>1. IInv => TypeOK
  BY DEF IInv
<1> QED
  BY <1>1, Invariance, PTL

(* No frame taken for the peer there is (sendVideoSample) drops out of its *)
(* timeline: it was written, or its duration is with a frame still to be   *)
(* written or among videoPendingDrops.                                     *)
THEOREM NoDropIsForgotten == Spec => []NoDropForgotten
<1>1. ASSUME IInv PROVE NoDropForgotten
  <2>1. TypeOK /\ InHand /\ Balance
    BY <1>1 DEF IInv
  <2>2. OwnInSender \in Nat /\ OwnInSender <= InSender /\ InSender \in Nat
    <3>1. CASE sender = Idle
      BY <3>1 DEF OwnInSender, InSender
    <3>2. CASE sender # Idle
      <4>1. sender.frame \in Frames
        BY <2>1, <3>2 DEF TypeOK, Sending
      <4>2. OwnUnits(sender.frame) \in Nat /\ Units(sender.frame) \in Nat
            /\ OwnUnits(sender.frame) <= Units(sender.frame)
        BY <2>1, <4>1, CarriedTypes
      <4> QED
        BY <3>2, <4>2 DEF OwnInSender, InSender
    <3> QED
      BY <3>1, <3>2
  <2>3. UnitsOf(gen, queue) \in Nat /\ UnitsOf(gen, queue) <= UnitsIn(queue) /\ UnitsIn(queue) \in Nat
    BY <2>1, UnitsWithin, CarriedTypes DEF TypeOK
  <2>4. OwnInProducer \in Nat /\ OwnInProducer <= InProducer /\ InProducer \in Nat
    <3>1. CASE producer = Idle
      BY <3>1 DEF OwnInProducer, InProducer
    <3>2. CASE producer # Idle
      <4>1. OwnUnits(p) \in Nat /\ Units(p) \in Nat /\ OwnUnits(p) <= Units(p)
        BY <2>1, <3>2, InHandTypes, CarriedTypes
      <4>2. CASE HoldsOldest
        <5>1. producer.oldest \in Frames /\ producer.oldest # Idle
          BY <2>1, <4>2, FramesAreNotIdle DEF HoldsOldest, InHand
        <5>2. OwnUnits(producer.oldest) \in Nat /\ Units(producer.oldest) \in Nat
              /\ OwnUnits(producer.oldest) <= Units(producer.oldest)
          BY <2>1, <5>1, CarriedTypes
        <5> HIDE DEF OwnUnits, Units, p
        <5> QED
          BY <3>2, <4>1, <4>2, <5>1, <5>2 DEF OwnInProducer, InProducer
      <4>3. CASE ~HoldsOldest
        <5>1. producer.oldest = Idle
          BY <2>1, <3>2, <4>3 DEF HoldsOldest, InHand
        <5> HIDE DEF OwnUnits, Units, p
        <5> QED
          BY <3>2, <4>1, <4>3, <5>1 DEF OwnInProducer, InProducer
      <4> QED
        BY <4>2, <4>3
    <3> QED
      BY <3>1, <3>2
  <2>5. pending \in Nat
    BY <2>1 DEF TypeOK
  <2>6. CASE peer # 0
    <3>1. accepted[peer] \in Nat /\ shown[peer] \in Nat /\ accepted[peer] <= shown[peer] + Carried
      BY <2>1, <2>6 DEF TypeOK, ConnTypeOK, Balance
    <3> HIDE DEF OwnInSender, OwnInProducer, UnitsOf, UnitsIn, InSender, InProducer
    <3> QED
      BY <2>2, <2>3, <2>4, <2>5, <3>1 DEF Carried, NoDropForgotten
  <2> QED
    BY <2>6 DEF NoDropForgotten
<1> QED
  BY <1>1, Invariance, PTL

(* What survives a step, frame by frame.                                   *)
Survives == \A f \in Held : f.key => \E h \in Held' : h.key /\ h.n >= f.n

HeldIs ==
    /\ producer = Idle \/ producer.at \notin {"putBack", "replace"} => Held = Queued
    /\ producer.at = "putBack" => Held = Queued \cup {producer.oldest}
    /\ producer.at = "replace" => Held = Queued \cup {p}

LEMMA HeldAre ==
    ASSUME IInv
    PROVE  HeldIs /\ \A f \in Held : f \in Frames /\ f.n \in Nat
<1> USE DEF HeldIs
<1>1. InHand /\ TypeOK
  BY DEF IInv
<1>2. producer = Idle => producer.at \notin {"putBack", "replace"}
  BY BusyAt
<1>3. /\ producer = Idle \/ producer.at \notin {"putBack", "replace"} => Held = Queued
      /\ producer.at = "putBack" => Held = Queued \cup {producer.oldest} /\ producer.oldest \in Frames
      /\ producer.at = "replace" => Held = Queued \cup {p} /\ p \in Frames
  <2>1. CASE producer = Idle
    BY <1>2, <2>1 DEF Held
  <2>2. CASE producer # Idle
    <3>1. p \in Frames
      BY <1>1, <2>2, InHandTypes
    <3>2. IF producer.at = "putBack" THEN producer.oldest \in Frames /\ producer.oldest # Idle
          ELSE producer.oldest = Idle
      BY <1>1, <2>2, FramesAreNotIdle DEF InHand
    <3> QED
      BY <2>2, <3>1, <3>2 DEF Held
  <2> QED
    BY <2>1, <2>2
<1>4. \A f \in Queued : f \in Frames
  BY QueueTypes DEF Queued
<1>5. \A f \in Frames : f.n \in Nat
  BY DEF Frames
<1> HIDE DEF Held, p
<1>6. \A f \in Held : f \in Frames
  BY <1>3, <1>4
<1> QED
  BY <1>3, <1>5, <1>6

LEMMA HeldFollows == IInv => HeldIs
  BY HeldAre

(* The encoder thread gives up a keyframe only for a later one.            *)
LEMMA EncodeSpares ==
    ASSUME IInv, IInv', Encode
    PROVE  Survives
<1> USE DEF Survives
<1>1. \A f \in Held : f \in Frames /\ f.n \in Nat /\ f.n >= f.n
  BY HeldAre
<1>2. HeldIs'
  <2>1. (IInv => HeldIs)'
    BY HeldFollows, PTL
  <2> QED
    BY <2>1
<1> USE DEF HeldIs
<1>3. queue \in Seq(Frames) /\ Len(queue) \in Nat
  BY QueueTypes
<1>4. InHand /\ InOrder /\ TypeOK
  BY DEF IInv
<1>5. \A g : queue \in Seq(Frames) /\ queue' = Append(queue, g) => Queued \cup {g} \subseteq Queued'
  <2> SUFFICES ASSUME NEW g, queue' = Append(queue, g) PROVE Queued \cup {g} \subseteq Queued'
    OBVIOUS
  <2>1. Len(queue') = Len(queue) + 1 /\ queue'[Len(queue) + 1] = g
        /\ \A i \in 1 .. Len(queue) : queue'[i] = queue[i] /\ i \in 1 .. Len(queue')
    BY <1>3
  <2>2. Len(queue) + 1 \in 1 .. Len(queue')
    BY <1>3, <2>1
  <2> QED
    BY <2>1, <2>2 DEF Queued
<1>6. queue # <<>> /\ queue' = Tail(queue) => Queued \subseteq Queued' \cup {Head(queue)}
  <2> SUFFICES ASSUME queue # <<>>, queue' = Tail(queue), NEW i \in 1 .. Len(queue)
               PROVE  queue[i] = Head(queue) \/ queue[i] \in Queued'
    BY DEF Queued
  <2>1. CASE i = 1
    BY <1>3, <2>1
  <2>2. CASE i # 1
    <3>1. i - 1 \in 1 .. Len(queue') /\ queue'[i - 1] = queue[i]
      BY <1>3, <2>2
    <3> QED
      BY <3>1 DEF Queued
  <2> QED
    BY <2>1, <2>2
<1>7. CASE Offer
  <2>1. producer = Idle /\ UNCHANGED queue /\ producer'.at = "swap"
    BY <1>7 DEF Offer
  <2>2. Held = Queued /\ Held' = Queued' /\ Queued' = Queued
    BY <1>2, <2>1, HeldAre DEF Queued
  <2> QED
    BY <1>1, <2>2
<1>8. CASE Swap \/ Stamp
  <2>1. producer.at \in {"swap", "stamp"} /\ UNCHANGED queue /\ producer \in Producing
        /\ producer'.at \in {"stamp", "push"}
    <3>1. producer.at \in {"swap", "stamp"} /\ UNCHANGED queue
      BY <1>8 DEF Swap, Stamp
    <3>2. producer \in Producing
      BY <1>4, <3>1, BusyAt, InHandTypes
    <3> QED
      BY <1>8, <3>1, <3>2 DEF Swap, Stamp, Producing
  <2>2. Held = Queued /\ Held' = Queued' /\ Queued' = Queued
    BY <1>2, <2>1, HeldAre DEF Queued
  <2> QED
    BY <1>1, <2>2
<1>9. CASE Push
  <2>1. producer.at = "push" /\ producer \in Producing
    BY <1>4, <1>9, BusyAt, InHandTypes DEF Push
  <2>2. Held = Queued
    BY <2>1, HeldAre
  <2>3. CASE Full
    <3>1. producer'.at = "evict" /\ UNCHANGED queue
      BY <1>9, <2>1, <2>3 DEF Push, Producing
    <3>2. Held' = Queued' /\ Queued' = Queued
      BY <1>2, <3>1 DEF Queued
    <3> QED
      BY <1>1, <2>2, <3>2
  <2>4. CASE ~Full
    <3>1. producer' = Idle /\ queue' = Append(queue, p)
      BY <1>9, <2>4 DEF Push
    <3>2. Held' = Queued' /\ Queued \subseteq Queued'
      BY <1>2, <1>3, <1>5, <3>1
    <3> QED
      BY <1>1, <2>2, <3>2
  <2> QED
    BY <2>3, <2>4
<1>10. CASE Evict
  <2>1. producer.at = "evict" /\ producer \in Producing /\ producer # Idle
    BY <1>4, <1>10, BusyAt, InHandTypes DEF Evict
  <2>2. Held = Queued
    BY <2>1, HeldAre
  <2>3. CASE queue = <<>>
    BY <2>2, <2>3 DEF Queued
  <2>4. CASE queue # <<>> /\ Head(queue).key /\ ~p.key
    <3>1. queue' = Tail(queue) /\ producer' = [producer EXCEPT !.at = "putBack", !.oldest = Head(queue)]
      BY <1>10, <2>4 DEF Evict
    <3>2. producer'.at = "putBack" /\ producer'.oldest = Head(queue)
      BY <2>1, <3>1 DEF Producing
    <3>3. Held \subseteq Held'
      BY <1>2, <1>6, <2>2, <2>4, <3>1, <3>2
    <3> QED
      BY <1>1, <3>3
  <2>5. CASE queue # <<>> /\ ~(Head(queue).key /\ ~p.key)
    <3>1. queue' = Tail(queue) /\ Replacing(Head(queue))
      BY <1>10, <2>5 DEF Evict
    <3>2. producer'.at = "replace" /\ p'.key = p.key /\ p'.n = p.n
      BY <2>1, <3>1 DEF Replacing, Producing, p, Frames
    <3>3. Held' = Queued' \cup {p'}
      BY <1>2, <3>2
    <3>4. Head(queue).key => p'.key /\ p'.n >= Head(queue).n
      <4>1. 1 \in 1 .. Len(queue) /\ Head(queue) = queue[1]
        BY <1>3, <2>5
      <4>2. Head(queue).n < p.n /\ Head(queue).n \in Nat
        BY <2>1, <4>1, QueueTypes DEF Older
      <4>3. p.n \in Nat
        BY <1>4, <2>1, InHandTypes
      <4> QED
        BY <2>5, <3>2, <4>2, <4>3
    <3>5. \A f \in Held : f = Head(queue) \/ f \in Held'
      BY <1>6, <2>2, <2>5, <3>1, <3>3
    <3> QED
      BY <1>1, <3>3, <3>4, <3>5
  <2> QED
    BY <2>3, <2>4, <2>5
<1>11. CASE PutBack
  <2>1. producer.at = "putBack" /\ producer # Idle
    BY <1>11, BusyAt DEF PutBack
  <2>2. ~Full
    BY <1>3, <1>4, <2>1, Constants DEF InHand, Full
  <2>3. producer' = Idle /\ queue' = Append(queue, producer.oldest)
    BY <1>11, <2>2 DEF PutBack, GiveUp
  <2>4. Held \subseteq Held'
    BY <1>2, <1>3, <1>5, <2>1, <2>3, HeldAre
  <2> QED
    BY <1>1, <2>4
<1>12. CASE Replace
  <2>1. producer.at = "replace" /\ producer # Idle
    BY <1>12, BusyAt DEF Replace
  <2>2. ~Full
    BY <1>3, <1>4, <2>1, Constants DEF InHand, Full
  <2>3. producer' = Idle /\ queue' = Append(queue, p)
    BY <1>12, <2>2 DEF Replace
  <2>4. Held \subseteq Held'
    BY <1>2, <1>3, <1>5, <2>1, <2>3, HeldAre
  <2> QED
    BY <1>1, <2>4
<1> QED
  BY <1>7, <1>8, <1>9, <1>10, <1>11, <1>12 DEF Encode

(* A keyframe in the queue leaves it towards the track or for a later      *)
(* keyframe, as long as the peer stays (sendVideoSample's full queue).     *)
THEOREM KeyframesSurvive == Spec => KeyframeSurvives
<1>1. ASSUME IInv, IInv', [Next]_vars, peer # 0, sender' = sender
      PROVE  Survives
  <2>1. \A f \in Held : f.n \in Nat
    BY <1>1, HeldAre
  <2>2. CASE UNCHANGED <<queue, producer>>
    BY <2>1, <2>2 DEF Survives, Held, Queued, p
  <2>3. CASE Encode
    BY <1>1, <2>3, EncodeSpares
  <2>4. CASE Lifecycle
    <3>1. life.at = "idle"
      BY <1>1 DEF IInv, NilMeanwhile
    <3>2. UNCHANGED <<queue, producer>>
      BY <2>4, <3>1 DEF Lifecycle, BeginCreate, BeginClose, CloseOld, CloseOldConn, Bump, BumpConn, Forget, Discard,
                        AudioStage, Install, InstallConn, InstallFails, InstallFailsConn, PassConn, At, videoVars
    <3> QED
      BY <2>2, <3>2
  <2>5. CASE SendOut
    <3>1. ~Pop
      BY <1>1 DEF Pop, Idle
    <3>2. ~Judge
      <4>1. SUFFICES ASSUME Judge PROVE FALSE
        OBVIOUS
      <4>2. sender \in Sending /\ sender.at = "judge" /\ sender # Idle
        BY <1>1, <4>1, BusyAt DEF Judge, IInv, TypeOK
      <4>3. sender' = [sender EXCEPT !.at = "write"]
        BY <1>1, <4>1, <4>2 DEF Judge
      <4> QED
        BY <1>1, <4>2, <4>3 DEF Sending
    <3>3. ~Write
      BY <1>1, BusyAt DEF Write
    <3> QED
      BY <2>5, <3>1, <3>2, <3>3 DEF SendOut
  <2>6. CASE \E g \in Gens : WireChanges(g) \/ StateChanges(g)
    BY <2>2, <2>6 DEF WireChanges, StateChanges, videoVars
  <2>7. CASE UNCHANGED vars
    BY <2>2, <2>7 DEF vars, videoVars
  <2> QED
    BY <1>1, <2>3, <2>4, <2>5, <2>6, <2>7 DEF Next
<1>2. ASSUME Survives
      PROVE  \A k \in Keyframes : \E m \in Keyframes' : m >= k
  BY <1>2 DEF Survives, Keyframes
<1>3. IInv /\ IInv' /\ [Next]_vars =>
        [peer # 0 /\ sender' = sender => \A k \in Keyframes : \E m \in Keyframes' : m >= k]_vars
  BY <1>1, <1>2
<1> QED
  BY <1>3, Invariance, PTL DEF Spec, KeyframeSurvives
=============================================================================
