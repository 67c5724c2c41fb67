--------------------------- MODULE PeerConnection ---------------------------
(***************************************************************************)
(* The peer connection of the Go side of the host (gortc_main/main.go):    *)
(* createPeerConnectionGo and closePeerConnection, which pcLifecycleMutex  *)
(* serialises, and the state callbacks of Pion, which it does not.         *)
(*                                                                         *)
(* Peers are numbered by the value peerGeneration has when they are        *)
(* installed.  A step is one critical section of pcMutex or one atomic     *)
(* operation.  The operators below say what a step does to the connection; *)
(* PeerMedia and PeerAudio add what it does to video and to audio.         *)
(***************************************************************************)
EXTENDS Naturals, Sequences

CONSTANT MaxGen   \* bound: value of peerGeneration

ASSUME PeerConnectionAssumption == MaxGen \in Nat

VARIABLES
    gen,        \* peerGeneration
    peer,       \* peerConnection: the number of the peer, 0 if nil
    state,      \* connectionState
    life,       \* how far createPeerConnectionGo or closePeerConnection is
    wire,       \* wire[g]: what the transport of peer g really is
    callbacks   \* callbacks[g]: state changes of peer g not yet reported

netVars == <<wire, callbacks>>
connVars == <<gen, peer, state, life, netVars>>

Gens == 0 .. MaxGen
States == {"none", "new", "connected", "disconnected", "closed"}
Ops == {"create", "close"}

(* What comes after each stage: closePeerConnection closes the old peer    *)
(* last, and neither resets the numbering of audio nor clears its buffer.  *)
After ==
    [create |-> [closeOld |-> "bump", bump |-> "forget", forget |-> "video", video |-> "audio",
                 audio |-> "reset", reset |-> "resetTime", resetTime |-> "unset", unset |-> "clear",
                 clear |-> "install", install |-> "idle"],
     close |-> [bump |-> "forget", forget |-> "video", video |-> "audio", audio |-> "closeOld",
                closeOld |-> "idle"]]

Stages == {"idle"} \cup DOMAIN After.create

ConnTypeOK ==
    /\ gen \in Gens
    /\ peer \in Gens
    /\ state \in States \ {"none"}
    /\ life \in [at : Stages, op : Ops, old : Gens]
    /\ wire \in [Gens -> States]
    /\ callbacks \in [Gens -> Seq(States \ {"none"})]

ConnInit ==
    /\ gen = 0 /\ peer = 0 /\ state = "new"
    /\ life = [at |-> "idle", op |-> "close", old |-> 0]
    /\ wire = [g \in Gens |-> "none"]
    /\ callbacks = [g \in Gens |-> <<>>]

-----------------------------------------------------------------------------
At(stage) == life.at = stage
Proceed == life' = [life EXCEPT !.at = After[life.op][@]]

(* The peer and its tracks are given up under pcMutex.                     *)
GiveUpPeer(op, first, shown) ==
    /\ At("idle")
    /\ life' = [at |-> first, op |-> op, old |-> peer]
    /\ peer' = 0 /\ state' = shown
    /\ UNCHANGED <<gen, netVars>>

BeginCreateConn == GiveUpPeer("create", "closeOld", "new")
BeginCloseConn == GiveUpPeer("close", "bump", "closed")

(* Close reports the state "closed" from a goroutine.                      *)
CloseOldConn ==
    /\ At("closeOld")
    /\ IF life.old # 0
       THEN /\ wire' = [wire EXCEPT ![life.old] = "closed"]
            /\ callbacks' = [callbacks EXCEPT ![life.old] = Append(@, "closed")]
       ELSE UNCHANGED netVars
    /\ Proceed
    /\ UNCHANGED <<gen, peer, state>>

BumpConn ==
    /\ At("bump")
    /\ gen' = gen + 1
    /\ Proceed
    /\ UNCHANGED <<peer, state, netVars>>

(* A stage that concerns one of the streams only.                          *)
PassConn(stage) == At(stage) /\ Proceed /\ UNCHANGED <<gen, peer, state, netVars>>

InstallConn ==
    /\ At("install")
    /\ peer' = gen
    /\ wire' = [wire EXCEPT ![gen] = "new"]
    /\ Proceed
    /\ UNCHANGED <<gen, state, callbacks>>

(* The peer cannot be made, or a track cannot be added to it.              *)
InstallFailsConn == PassConn("install")

(* The transport of a peer comes up and breaks.                            *)
WireChangesConn(g) ==
    /\ wire[g] \in {"new", "connected", "disconnected"}
    /\ callbacks[g] = <<>>
    /\ \E to \in {"connected", "disconnected"} \ {wire[g]} :
          /\ wire' = [wire EXCEPT ![g] = to]
          /\ callbacks' = [callbacks EXCEPT ![g] = Append(@, to)]
    /\ UNCHANGED <<gen, peer, state, life>>

(* OnConnectionStateChange does not ask whose callback it is.              *)
StateChangesConn(g) ==
    /\ callbacks[g] # <<>>
    /\ state' = Head(callbacks[g])
    /\ callbacks' = [callbacks EXCEPT ![g] = Tail(@)]
    /\ UNCHANGED <<gen, peer, life, wire>>

-----------------------------------------------------------------------------
(* README: "Late callbacks from a closed session are ignored."  Once every *)
(* change of the peer's transport has been reported, connectionState is    *)
(* the state of that peer.                                                 *)
StateIsOwn == peer # 0 /\ callbacks[peer] = <<>> => state = wire[peer]
=============================================================================
