------------------------ MODULE SignalingRoom_proofs ------------------------
(***************************************************************************)
(* What the scripts of the signaling room ensure for any number of         *)
(* instances, sockets and sessions: a connected socket that has its lease  *)
(* has its role and its place in the room, and loses its lease to nobody   *)
(* but a reconnect of its own owner; and a client hears the messages of a  *)
(* sender in the order they were sent.                                     *)
(***************************************************************************)
EXTENDS SignalingRoom, FiniteSetTheorems, SequenceTheorems, TLAPS

\* The phases from the JOIN of a socket to the end of its handlers.
Inside == {"joined", "open", "left", "tell"}

Owner == Sessions \cup {Host, None}

\* The shape of the state that the arguments below rest on.
Shape ==
    /\ keys.members \subseteq Sockets /\ keys.leased \subseteq Sockets
    /\ keys = [members |-> keys.members, leased |-> keys.leased, role |-> keys.role]
    /\ keys.role \in [Roles -> Sockets \cup {Nobody}]
    /\ DOMAIN sock = Sockets
    /\ \A k \in Sockets : sock[k] = [phase |-> sock[k].phase, ready |-> sock[k].ready,
                                     at |-> sock[k].at, owner |-> sock[k].owner,
                                     cur |-> sock[k].cur]

\* A lease is one of a member that has joined, and as long as the server deals with its
\* client, the role is the client's.
LeasesAreRoles ==
    \A k \in keys.leased :
        /\ k \in keys.members
        /\ sock[k].phase \in Inside \cup {"done"}
        /\ sock[k].phase \in Inside => keys.role[RoleOf(sock[k].owner)] = k

\* The holder of a role has joined, under an owner with that role.
HoldersHaveJoined ==
    \A r \in Roles : keys.role[r] # Nobody =>
        /\ sock[keys.role[r]].phase \in Inside \cup {"done"}
        /\ RoleOf(sock[keys.role[r]].owner) = r

IInv == Shape /\ LeasesAreRoles /\ HoldersHaveJoined

-----------------------------------------------------------------------------
LEMMA RoleIsOne == \A o : RoleOf(o) \in Roles
  BY DEF RoleOf, Roles

LEMMA NobodyIsNoSocket == Nobody \notin Sockets
  BY DEF Nobody, Sockets

LEMMA InitIInv == Init => IInv
<1> SUFFICES ASSUME Init PROVE IInv
  OBVIOUS
<1>1. Shape
  BY DEF Init, Shape, Unused
<1>2. LeasesAreRoles /\ HoldersHaveJoined
  BY DEF Init, LeasesAreRoles, HoldersHaveJoined
<1> QED
  BY <1>1, <1>2 DEF IInv

\* What most steps do to the sockets: one that has joined keeps its owner and does not go
\* back.
MovesOn ==
    /\ DOMAIN sock' = Sockets
    /\ \A k \in Sockets :
        /\ sock'[k] = [phase |-> sock'[k].phase, ready |-> sock'[k].ready, at |-> sock'[k].at,
                       owner |-> sock'[k].owner, cur |-> sock'[k].cur]
        /\ sock[k].phase \in Inside \cup {"done"} =>
               /\ sock'[k].owner = sock[k].owner
               /\ sock'[k].phase \in Inside \cup {"done"}
               /\ sock[k].phase = "done" => sock'[k].phase = "done"

\* Such a step keeps the invariant if it leaves the keys alone.
LEMMA MovingOn == ASSUME IInv, MovesOn, keys' = keys PROVE IInv'
<1> USE DEF IInv
<1>1. Shape'
  BY DEF Shape, MovesOn
<1>2. LeasesAreRoles'
  <2> SUFFICES ASSUME NEW k \in keys.leased
               PROVE  /\ k \in keys.members
                      /\ sock'[k].phase \in Inside \cup {"done"}
                      /\ sock'[k].phase \in Inside => keys.role[RoleOf(sock'[k].owner)] = k
    BY DEF MovesOn, LeasesAreRoles
  <2>1. k \in Sockets /\ k \in keys.members /\ sock[k].phase \in Inside \cup {"done"}
    BY DEF Shape, LeasesAreRoles
  <2>2. sock'[k].phase \in Inside => sock[k].phase \in Inside
    BY <2>1 DEF MovesOn, Inside
  <2> QED
    BY <2>1, <2>2 DEF MovesOn, LeasesAreRoles
<1>3. HoldersHaveJoined'
  <2> SUFFICES ASSUME NEW r \in Roles, keys.role[r] # Nobody
               PROVE  /\ sock'[keys.role[r]].phase \in Inside \cup {"done"}
                      /\ RoleOf(sock'[keys.role[r]].owner) = r
    BY DEF MovesOn, HoldersHaveJoined
  <2>1. keys.role[r] \in Sockets
    BY DEF Shape
  <2> QED
    BY <2>1 DEF MovesOn, HoldersHaveJoined
<1> QED
  BY <1>1, <1>2, <1>3

\* So does one that executes LUA_LEAVE for any socket.
LEMMA Leaving ==
    ASSUME IInv, MovesOn, NEW k \in Sockets, keys' = LuaLeave(k) PROVE IInv'
<1> USE DEF IInv
<1> DEFINE r == RoleOf(sock[k].owner)
<1>0. /\ keys'.members = keys.members \ {k} /\ keys'.leased = keys.leased \ {k}
      /\ keys'.role = IF keys.role[r] = k THEN [keys.role EXCEPT ![r] = Nobody] ELSE keys.role
      /\ keys' = [members |-> keys'.members, leased |-> keys'.leased, role |-> keys'.role]
  BY DEF LuaLeave
<1> HIDE DEF r
<1>1. Shape'
  <2>1. keys'.role \in [Roles -> Sockets \cup {Nobody}]
    BY <1>0 DEF Shape
  <2>2. keys'.members \subseteq Sockets /\ keys'.leased \subseteq Sockets
    BY <1>0 DEF Shape
  <2> QED
    BY <1>0, <2>1, <2>2 DEF Shape, MovesOn
<1>2. LeasesAreRoles'
  <2> SUFFICES ASSUME NEW j \in keys.leased \ {k}
               PROVE  /\ j \in keys.members \ {k}
                      /\ sock'[j].phase \in Inside \cup {"done"}
                      /\ sock'[j].phase \in Inside => keys'.role[RoleOf(sock'[j].owner)] = j
    BY <1>0 DEF LeasesAreRoles
  <2>1. j \in Sockets /\ j \in keys.members /\ sock[j].phase \in Inside \cup {"done"}
    BY DEF Shape, LeasesAreRoles
  <2>2. sock'[j].phase \in Inside => keys.role[RoleOf(sock'[j].owner)] = j
    BY <2>1 DEF MovesOn, Inside, LeasesAreRoles
  <2>3. keys.role[RoleOf(sock'[j].owner)] = j => keys'.role[RoleOf(sock'[j].owner)] = j
    BY <1>0, RoleIsOne DEF Shape
  <2> QED
    BY <2>1, <2>2, <2>3 DEF MovesOn
<1>3. HoldersHaveJoined'
  <2> SUFFICES ASSUME NEW q \in Roles, keys'.role[q] # Nobody
               PROVE  /\ sock'[keys'.role[q]].phase \in Inside \cup {"done"}
                      /\ RoleOf(sock'[keys'.role[q]].owner) = q
    BY DEF HoldersHaveJoined
  <2>1. keys'.role[q] = keys.role[q]
    BY <1>0 DEF Shape
  <2>2. keys.role[q] \in Sockets
    BY <2>1 DEF Shape
  <2> QED
    BY <2>1, <2>2 DEF MovesOn, HoldersHaveJoined
<1> QED
  BY <1>1, <1>2, <1>3

\* And one that executes LUA_JOIN, whatever comes back of it.
LEMMA Joining ==
    ASSUME IInv, NEW k \in Sockets, sock[k].phase = "join",
           keys' = LuaJoin(k).keys,
           \/ sock' = [sock EXCEPT ![k].phase = "joined"] /\ LuaJoin(k).result = "joined"
           \/ sock' = Finished(k)
    PROVE  IInv'
<1> USE DEF IInv
<1> DEFINE r == RoleOf(sock[k].owner)
           listed == keys.members \cap keys.leased
           old == {keys.role[r]} \ {Nobody}
<1>0. MovesOn /\ \A j \in Sockets \ {k} : sock'[j] = sock[j]
  BY DEF MovesOn, Shape, Finished, Inside
<1>1. /\ k \notin keys.leased /\ sock'[k].phase \in {"joined", "done"}
      /\ sock'[k].owner = sock[k].owner
  BY DEF LeasesAreRoles, Inside, Finished, Shape
<1>2. /\ \A j \in keys.leased : j \in Sockets /\ j # k
      /\ \A q \in Roles : keys.role[q] # k
  BY <1>1, NobodyIsNoSocket DEF Shape, HoldersHaveJoined, Inside
<1>3. CASE LuaJoin(k).result = "occupied"
  <2>1. /\ keys'.members = listed /\ keys'.leased = keys.leased /\ keys'.role = keys.role
        /\ keys' = [members |-> keys'.members, leased |-> keys'.leased, role |-> keys'.role]
    BY <1>3 DEF LuaJoin, Shape
  <2>2. sock' = Finished(k)
    BY <1>3
  <2>3. Shape'
    BY <1>0, <2>1 DEF Shape, MovesOn
  <2>4. LeasesAreRoles'
    BY <1>0, <1>2, <2>1 DEF LeasesAreRoles
  <2>5. HoldersHaveJoined'
    BY <1>0, <1>2, <2>1 DEF HoldersHaveJoined, Shape
  <2> QED
    BY <2>3, <2>4, <2>5
<1>4. CASE LuaJoin(k).result = "full"
  <2>1. /\ keys'.members = listed \ old /\ keys'.leased = keys.leased \ old
        /\ keys'.role = keys.role
        /\ keys' = [members |-> keys'.members, leased |-> keys'.leased, role |-> keys'.role]
    BY <1>4 DEF LuaJoin, Shape
  <2>3. Shape'
    BY <1>0, <2>1 DEF Shape, MovesOn
  <2>4. LeasesAreRoles'
    BY <1>0, <1>2, <2>1 DEF LeasesAreRoles
  <2>5. HoldersHaveJoined'
    BY <1>0, <1>2, <2>1 DEF HoldersHaveJoined, Shape
  <2> QED
    BY <2>3, <2>4, <2>5
<1>5. CASE LuaJoin(k).result = "joined"
  <2>1. /\ keys'.members = (listed \ old) \cup {k} /\ keys'.leased = (keys.leased \ old) \cup {k}
        /\ keys'.role = [keys.role EXCEPT ![r] = k]
        /\ keys' = [members |-> keys'.members, leased |-> keys'.leased, role |-> keys'.role]
    BY <1>5 DEF LuaJoin, Shape
  <2>2. r \in Roles
    BY RoleIsOne
  <2>3. Shape'
    BY <1>0, <2>1, <2>2 DEF Shape, MovesOn
  <2>4. LeasesAreRoles'
    <3>1. ASSUME NEW j \in keys.leased \ old
          PROVE  /\ j \in keys'.members
                 /\ sock'[j].phase \in Inside \cup {"done"}
                 /\ sock'[j].phase \in Inside => keys'.role[RoleOf(sock'[j].owner)] = j
      <4>1. sock'[j] = sock[j] /\ j \in keys.members /\ j \in Sockets
        BY <1>0, <1>2 DEF LeasesAreRoles
      <4>2. ASSUME sock[j].phase \in Inside PROVE keys'.role[RoleOf(sock[j].owner)] = j
        <5>1. keys.role[RoleOf(sock[j].owner)] = j
          BY <4>2 DEF LeasesAreRoles
        <5>2. RoleOf(sock[j].owner) # r
          BY <4>1, <5>1, NobodyIsNoSocket
        <5> QED
          BY <5>1, <5>2, <2>1, <2>2, RoleIsOne DEF Shape
      <4> QED
        BY <4>1, <4>2, <2>1 DEF LeasesAreRoles
    <3>2. /\ k \in keys'.members
          /\ sock'[k].phase \in Inside \cup {"done"}
          /\ sock'[k].phase \in Inside => keys'.role[RoleOf(sock'[k].owner)] = k
      BY <1>1, <2>1, <2>2 DEF Shape, Inside
    <3> QED
      BY <3>1, <3>2, <2>1 DEF LeasesAreRoles
  <2>5. HoldersHaveJoined'
    <3> SUFFICES ASSUME NEW q \in Roles, keys'.role[q] # Nobody
                 PROVE  /\ sock'[keys'.role[q]].phase \in Inside \cup {"done"}
                        /\ RoleOf(sock'[keys'.role[q]].owner) = q
      BY DEF HoldersHaveJoined
    <3>1. CASE q = r
      BY <1>1, <2>1, <3>1 DEF Shape, Inside
    <3>2. CASE q # r
      <4>1. keys'.role[q] = keys.role[q]
        BY <2>1, <3>2 DEF Shape
      <4> QED
        BY <4>1, <1>0, <1>2 DEF HoldersHaveJoined, Shape
    <3> QED
      BY <3>1, <3>2
  <2> QED
    BY <2>3, <2>4, <2>5
<1> QED
  BY <1>3, <1>4, <1>5 DEF LuaJoin

LEMMA Expiring ==
    ASSUME IInv,
           \/ \E r \in Roles : ExpireRole(r)
           \/ \E k \in Sockets : ExpireLease(k)
           \/ ExpireRoom
    PROVE  IInv'
<1> USE DEF IInv
<1>1. ASSUME NEW r \in Roles, ExpireRole(r) PROVE IInv'
  <2>1. /\ keys'.members = keys.members /\ keys'.leased = keys.leased
        /\ keys'.role = [keys.role EXCEPT ![r] = Nobody]
        /\ keys' = [members |-> keys'.members, leased |-> keys'.leased, role |-> keys'.role]
        /\ sock' = sock
    BY <1>1 DEF ExpireRole, Shape
  <2>2. Shape'
    BY <2>1 DEF Shape
  <2>3. LeasesAreRoles'
    BY <1>1, <2>1, RoleIsOne DEF LeasesAreRoles, ExpireRole, Shape, Inside
  <2>4. HoldersHaveJoined'
    BY <2>1 DEF HoldersHaveJoined, Shape
  <2> QED
    BY <2>2, <2>3, <2>4
<1>2. ASSUME NEW k \in Sockets, ExpireLease(k) PROVE IInv'
  <2>1. /\ keys'.members = keys.members /\ keys'.leased = keys.leased \ {k}
        /\ keys'.role = keys.role
        /\ keys' = [members |-> keys'.members, leased |-> keys'.leased, role |-> keys'.role]
        /\ sock' = sock
    BY <1>2 DEF ExpireLease, Shape
  <2> QED
    BY <2>1 DEF Shape, LeasesAreRoles, HoldersHaveJoined
<1>3. ASSUME ExpireRoom PROVE IInv'
  <2>1. /\ keys'.members = {} /\ keys'.leased = keys.leased /\ keys.leased = {}
        /\ keys'.role = keys.role
        /\ keys' = [members |-> keys'.members, leased |-> keys'.leased, role |-> keys'.role]
        /\ sock' = sock
    BY <1>3 DEF ExpireRoom, Shape
  <2> QED
    BY <2>1 DEF Shape, LeasesAreRoles, HoldersHaveJoined
<1> QED
  BY <1>1, <1>2, <1>3

-----------------------------------------------------------------------------
\* How each action moves the sockets and which script it executes.
LEMMA SocketMoves ==
    ASSUME IInv, NEW k \in Sockets, SocketNext(k)
    PROVE  IInv'
<1> USE DEF IInv
<1>1. CASE \E o \in Openings[k] : Connect(k, o.at, o.owner)
  <2>1. PICK o \in Openings[k] : Connect(k, o.at, o.owner)
    BY <1>1
  <2>2. PICK new : new = [Unused EXCEPT !.phase = "join", !.ready = "open", !.at = o.at,
                                        !.owner = o.owner]
    OBVIOUS
  <2>3. new = [phase |-> new.phase, ready |-> new.ready, at |-> new.at, owner |-> new.owner,
               cur |-> new.cur]
    BY <2>2 DEF Unused
  <2>4. sock[k].phase = "unused" /\ keys' = keys /\ sock' = [sock EXCEPT ![k] = new]
    BY <2>1, <2>2 DEF Connect
  <2>5. MovesOn
    BY <2>3, <2>4 DEF MovesOn, Shape, Inside
  <2> QED
    BY <2>4, <2>5, MovingOn
<1>2. CASE Refuse(k)
  <2>1. MovesOn /\ keys' = keys
    BY <1>2 DEF Refuse, Finished, MovesOn, Shape, Inside
  <2> QED
    BY <2>1, MovingOn
<1>3. CASE Join(k)
  <2>1. /\ sock[k].phase = "join" /\ keys' = LuaJoin(k).keys
        /\ \/ sock' = [sock EXCEPT ![k].phase = "joined"] /\ LuaJoin(k).result = "joined"
           \/ sock' = Finished(k)
    BY <1>3 DEF Join
  <2> QED
    BY <2>1, Joining
<1>4. CASE JoinFails(k)
  <2>1. CASE keys' = keys
    <3>1. MovesOn
      BY <1>4 DEF JoinFails, Finished, MovesOn, Shape, Inside
    <3> QED
      BY <2>1, <3>1, MovingOn
  <2>2. CASE keys' = LuaJoin(k).keys
    BY <1>4, <2>2, Joining DEF JoinFails
  <2> QED
    BY <1>4, <2>1, <2>2 DEF JoinFails
<1>5. CASE Undo(k) \/ Leave(k) \/ LeaveFails(k) \/ DrainLeave(k)
  <2>1. MovesOn
    BY <1>5 DEF Undo, Leave, LeaveFails, DrainLeave, Finished, MovesOn, Shape, Inside
  <2>2. keys' = keys \/ keys' = LuaLeave(k)
    BY <1>5 DEF Undo, Leave, LeaveFails, DrainLeave
  <2> QED
    BY <2>1, <2>2, MovingOn, Leaving
<1>6. CASE Register(k)
  <2>1. MovesOn /\ keys' = keys
    BY <1>6 DEF Register, MovesOn, Shape, Inside
  <2> QED
    BY <2>1, MovingOn
<1>7. CASE Disconnect(k) \/ Tell(k) \/ Drop(k)
  <2>1. MovesOn /\ keys' = keys
    BY <1>7 DEF Disconnect, Tell, Drop, MovesOn, Shape, Inside
  <2> QED
    BY <2>1, MovingOn
<1>8. CASE Examine(k) \/ Overloaded(k) \/ \E s \in Sessions : Send(k, s)
  <2>1. /\ keys' = keys
        /\ \/ sock' = sock
           \/ \E x : sock' = [sock EXCEPT ![k].cur = x]
           \/ \E x : sock' = [sock EXCEPT ![k].ready = x]
    BY <1>8 DEF Examine, Overloaded, Send
  <2>2. MovesOn
    BY <2>1 DEF MovesOn, Shape
  <2> QED
    BY <2>1, <2>2, MovingOn
<1>9. CASE Route(k) \/ Limit(k)
  <2>1. sock' = sock /\ keys' = keys
    BY <1>9 DEF Route, Limit
  <2>2. MovesOn
    BY <2>1 DEF MovesOn, Shape
  <2> QED
    BY <2>1, <2>2, MovingOn
<1>10. CASE ExpireLease(k)
  BY <1>10, Expiring
<1> QED
  BY <1>1, <1>2, <1>3, <1>4, <1>5, <1>6, <1>7, <1>8, <1>9, <1>10 DEF SocketNext, Proceed

LEMMA InstanceMoves ==
    ASSUME IInv, NEW i \in Instances, InstanceNext(i)
    PROVE  IInv'
<1> USE DEF IInv
<1>1. CASE Deliver(i) \/ Shutdown(i) \/ Exit(i) \/ Crash(i)
  <2>1. keys' = keys
    BY <1>1 DEF Deliver, Shutdown, Exit, Crash, Vanish
  <2>2. MovesOn
    <3>1. CASE Deliver(i)
      <4>1. PICK full : sock' = [k \in Sockets |-> IF k \in full
                                 THEN [sock[k] EXCEPT !.ready = "closing"] ELSE sock[k]]
        BY <3>1 DEF Deliver
      <4> QED
        BY <4>1 DEF MovesOn, Shape
    <3>2. CASE Shutdown(i)
      BY <3>2 DEF Shutdown, MovesOn, Shape
    <3>3. CASE Exit(i) \/ Crash(i)
      <4>1. Vanish(i)
        BY <3>3 DEF Exit, Crash
      <4>2. /\ DOMAIN sock' = Sockets
            /\ \A k \in Sockets :
                  \/ sock'[k] = sock[k]
                  \/ sock'[k] = [sock[k] EXCEPT !.phase = "done", !.ready = "closed"]
        BY <4>1 DEF Vanish
      <4>3. \A k \in Sockets :
               /\ sock'[k] = [phase |-> sock'[k].phase, ready |-> sock'[k].ready, at |-> sock'[k].at,
                              owner |-> sock'[k].owner, cur |-> sock'[k].cur]
               /\ sock'[k].owner = sock[k].owner
               /\ sock'[k].phase \in {sock[k].phase, "done"}
        BY <4>2 DEF Shape
      <4> QED
        BY <4>2, <4>3 DEF MovesOn
    <3> QED
      BY <1>1, <3>1, <3>2, <3>3
  <2> QED
    BY <2>1, <2>2, MovingOn
<1>2. CASE Check(i) \/ Lose(i) \/ BreakerCloses(i)
  <2>1. sock' = sock /\ keys' = keys
    BY <1>2 DEF Check, Lose, BreakerCloses
  <2>2. MovesOn
    BY <2>1 DEF MovesOn, Shape
  <2> QED
    BY <2>1, <2>2, MovingOn
<1> QED
  BY <1>1, <1>2 DEF InstanceNext

LEMMA Invariance == Spec => []IInv
<1>1. IInv /\ [Next]_vars => IInv'
  <2> SUFFICES ASSUME IInv, [Next]_vars PROVE IInv'
    OBVIOUS
  <2>1. CASE Next
    BY <2>1, SocketMoves, InstanceMoves, Expiring DEF Next
  <2>2. CASE UNCHANGED vars
    BY <2>2 DEF vars, IInv, Shape, LeasesAreRoles, HoldersHaveJoined
  <2> QED
    BY <2>1, <2>2
<1> QED
  BY InitIInv, <1>1, PTL DEF Spec

-----------------------------------------------------------------------------
(* A connected socket that has its lease has its role and its place in the room, however
   many connections its owner has opened and closed and whatever has been lost. *)
THEOREM LeasesAreWhole == Spec => []LeaseIsWhole
<1>1. IInv => LeaseIsWhole
  BY DEF IInv, LeasesAreRoles, LeaseIsWhole, Connected, Inside
<1> QED
  BY <1>1, Invariance, PTL

-----------------------------------------------------------------------------
\* Who loses a lease: this also needs that owners are known and never change, that a
\* socket whose LEAVE the shutdown has issued is closed, and that the room has room for
\* a reconnect.

Owned ==
    \A k \in Sockets : IF sock[k].phase = "unused" THEN sock[k] = Unused
                       ELSE sock[k].owner # None

Shut == \A k \in farewell : k \in Sockets /\ sock[k].phase # "unused" /\ sock[k].ready # "open"

Bounded == Cardinality(keys.members) <= Capacity

JInv == IInv /\ Owned /\ Shut /\ Bounded

\* A step opens sockets or moves them on; none is opened again.
Keeps ==
    \A k \in Sockets :
        IF sock[k].phase = "unused"
        THEN sock'[k] = sock[k] \/ (sock'[k].phase # "unused" /\ sock'[k].owner # None)
        ELSE /\ sock'[k].phase # "unused"
             /\ sock'[k].owner = sock[k].owner /\ sock'[k].at = sock[k].at
             /\ sock[k].ready # "open" => sock'[k].ready # "open"

LEMMA SocketKeeps ==
    ASSUME Shape, Owned, NEW k \in Sockets, SocketNext(k) PROVE Keeps
<1>1. CASE \E o \in Openings[k] : Connect(k, o.at, o.owner)
  <2>1. PICK o \in Openings[k] : Connect(k, o.at, o.owner)
    BY <1>1
  <2>2. o.owner # None
    BY RoomAssumption DEF Host, None
  <2> QED
    BY <2>1, <2>2 DEF Connect, Keeps, Shape, Unused
<1>2. CASE Refuse(k) \/ Join(k) \/ JoinFails(k) \/ Undo(k)
  <2>1. /\ sock[k].phase \in {"join", "joined"}
        /\ sock' = Finished(k) \/ sock' = [sock EXCEPT ![k].phase = "joined"]
    BY <1>2 DEF Refuse, Join, JoinFails, Undo
  <2> QED
    BY <2>1 DEF Keeps, Shape, Finished
<1>3. CASE Register(k)
  BY <1>3 DEF Register, Keeps, Shape, Local
<1>4. CASE Disconnect(k) \/ Leave(k) \/ LeaveFails(k) \/ Tell(k) \/ Drop(k)
  <2>1. CASE Disconnect(k)
    BY <2>1 DEF Disconnect, Keeps, Shape
  <2>2. CASE Leave(k) \/ LeaveFails(k) \/ Tell(k)
    BY <2>2 DEF Leave, LeaveFails, Tell, Keeps, Shape
  <2>3. CASE Drop(k)
    <3>1. sock[k].phase # "unused"
      BY <2>3 DEF Drop, Owned, Unused
    <3> QED
      BY <2>3, <3>1 DEF Drop, Keeps, Shape
  <2> QED
    BY <1>4, <2>1, <2>2, <2>3
<1>5. CASE Examine(k) \/ Overloaded(k) \/ \E s \in Sessions : Send(k, s)
  <2>1. /\ sock[k].phase = "open"
        /\ \/ sock' = sock
           \/ \E x : sock' = [sock EXCEPT ![k].cur = x]
           \/ sock' = [sock EXCEPT ![k].ready = "closing"]
           \/ sock' = [sock EXCEPT ![k].ready = IF @ = "open" THEN "closing" ELSE @]
    BY <1>5 DEF Examine, Overloaded, Send
  <2> QED
    BY <2>1 DEF Keeps, Shape
<1>6. CASE Route(k) \/ Limit(k) \/ DrainLeave(k) \/ ExpireLease(k)
  BY <1>6 DEF Route, Limit, DrainLeave, ExpireLease, Keeps
<1> QED
  BY <1>1, <1>2, <1>3, <1>4, <1>5, <1>6 DEF SocketNext, Proceed

LEMMA InstanceKeeps ==
    ASSUME Shape, Owned, NEW i \in Instances, InstanceNext(i) PROVE Keeps
<1>1. CASE Deliver(i)
  <2>1. PICK full : /\ \A k \in full : sock[k].phase = "open"
                    /\ sock' = [k \in Sockets |-> IF k \in full
                                 THEN [sock[k] EXCEPT !.ready = "closing"] ELSE sock[k]]
    BY <1>1 DEF Deliver, Routed, Local
  <2> QED
    BY <2>1 DEF Keeps, Shape
<1>2. CASE Shutdown(i)
  BY <1>2 DEF Shutdown, Keeps, Shape, Local
<1>3. CASE Exit(i) \/ Crash(i)
  <2>1. \A k \in Sockets : \/ sock'[k] = sock[k]
                           \/ /\ sock[k].at = i
                              /\ sock'[k] = [sock[k] EXCEPT !.phase = "done", !.ready = "closed"]
    BY <1>3 DEF Exit, Crash, Vanish
  <2>2. \A k \in Sockets : sock[k].at = i => sock[k].phase # "unused"
    BY RoomAssumption DEF Owned, Unused
  <2> QED
    BY <2>1, <2>2 DEF Keeps, Shape
<1>4. CASE Check(i) \/ Lose(i) \/ BreakerCloses(i)
  BY <1>4 DEF Check, Lose, BreakerCloses, Keeps
<1> QED
  BY <1>1, <1>2, <1>3, <1>4 DEF InstanceNext

LEMMA NextKeeps == ASSUME Shape, Owned, [Next]_vars PROVE Keeps
<1>1. CASE UNCHANGED vars \/ ExpireRoom \/ \E r \in Roles : ExpireRole(r)
  BY <1>1 DEF vars, ExpireRoom, ExpireRole, Keeps
<1> QED
  BY <1>1, SocketKeeps, InstanceKeeps DEF Next

\* The farewells after a step are old ones or those of sockets just closed.
LEMMA Farewells ==
    ASSUME Shape, Owned, [Next]_vars
    PROVE  \A k \in farewell' : \/ k \in farewell
                                \/ /\ k \in Sockets /\ sock[k].phase # "unused"
                                   /\ sock'[k].ready # "open"
<1>1. ASSUME NEW i \in Instances, Shutdown(i)
      PROVE  \A k \in farewell' \ farewell :
                k \in Sockets /\ sock[k].phase # "unused" /\ sock'[k].ready # "open"
  BY <1>1 DEF Shutdown, Local, Shape
<1>2. ASSUME NEW i \in Instances, InstanceNext(i), ~Shutdown(i) PROVE farewell' \subseteq farewell
  BY <1>2 DEF InstanceNext, Check, Deliver, Lose, BreakerCloses, Exit, Crash, Vanish
<1>3. ASSUME NEW k \in Sockets, SocketNext(k) PROVE farewell' \subseteq farewell
  <2>1. CASE Proceed(k)
    BY <2>1 DEF Proceed, Refuse, Join, Undo, Register, Disconnect, Leave, Tell
  <2>2. CASE ~Proceed(k)
    BY <1>3, <2>2 DEF SocketNext, JoinFails, LeaveFails, Drop, ExpireLease, Examine,
                      Overloaded, Route, Limit, DrainLeave, Send, Connect
  <2> QED
    BY <2>1, <2>2
<1>4. CASE UNCHANGED vars \/ ExpireRoom \/ \E r \in Roles : ExpireRole(r)
  BY <1>4 DEF vars, ExpireRoom, ExpireRole
<1> QED
  BY <1>1, <1>2, <1>3, <1>4 DEF Next

\* What a step does to the keys.
LEMMA KeySteps ==
    ASSUME [Next]_vars
    PROVE  \/ keys' = keys
           \/ \E k \in Sockets : /\ keys' = LuaJoin(k).keys /\ sock[k].phase = "join"
           \/ \E k \in Sockets : /\ keys' = LuaLeave(k)
                                 /\ sock[k].phase \in {"joined", "left"} \/ k \in farewell
           \/ \E k \in Sockets : ExpireLease(k)
           \/ \E r \in Roles : ExpireRole(r)
           \/ ExpireRoom
<1>1. ASSUME NEW k \in Sockets, SocketNext(k)
      PROVE  \/ keys' = keys
             \/ keys' = LuaJoin(k).keys /\ sock[k].phase = "join"
             \/ keys' = LuaLeave(k) /\ (sock[k].phase \in {"joined", "left"} \/ k \in farewell)
             \/ ExpireLease(k)
  <2>1. CASE Proceed(k)
    BY <2>1 DEF Proceed, Refuse, Join, Undo, Register, Disconnect, Leave, Tell
  <2>2. CASE ~Proceed(k)
    BY <1>1, <2>2 DEF SocketNext, JoinFails, LeaveFails, Drop, Examine, Overloaded, Route, Limit,
                      DrainLeave, Send, Connect
  <2> QED
    BY <2>1, <2>2
<1>2. ASSUME NEW i \in Instances, InstanceNext(i) PROVE keys' = keys
  BY <1>2 DEF InstanceNext, Check, Deliver, Lose, BreakerCloses, Shutdown, Exit, Crash, Vanish
<1>3. CASE UNCHANGED vars
  BY <1>3 DEF vars
<1> QED
  BY <1>1, <1>2, <1>3 DEF Next

LEMMA MembersAreFinite == ASSUME Shape PROVE /\ IsFiniteSet(keys.members)
                                             /\ Cardinality(keys.members) \in Nat
<1>1. IsFiniteSet(Sockets)
  BY FS_Interval, RoomAssumption DEF Sockets
<1> QED
  BY <1>1, FS_Subset, FS_CardinalityType DEF Shape

\* Removing sockets from the room keeps the bound.
LEMMA Shrinking ==
    ASSUME Shape, Bounded, NEW R, R \subseteq keys.members
    PROVE  IsFiniteSet(R) /\ Cardinality(R) \in Nat /\ Cardinality(R) <= Capacity
<1>1. IsFiniteSet(R) /\ Cardinality(R) <= Cardinality(keys.members)
  BY MembersAreFinite, FS_Subset
<1>2. Cardinality(R) \in Nat
  BY <1>1, FS_CardinalityType
<1> QED
  BY <1>1, <1>2, MembersAreFinite, RoomAssumption DEF Bounded

LEMMA BoundKept == ASSUME Shape, Bounded, [Next]_vars PROVE Bounded'
<1>1. CASE keys'.members \subseteq keys.members
  BY <1>1, Shrinking DEF Bounded
<1>2. ASSUME NEW k \in Sockets, keys' = LuaJoin(k).keys PROVE Bounded'
  <2> DEFINE room == (keys.members \cap keys.leased) \ ({keys.role[RoleOf(sock[k].owner)]} \ {Nobody})
  <2>1. \/ keys'.members \subseteq keys.members
        \/ keys'.members = room \cup {k} /\ ~(Cardinality(room) >= Capacity)
    BY <1>2 DEF LuaJoin, Shape
  <2>2. IsFiniteSet(room) /\ Cardinality(room) \in Nat
    BY Shrinking
  <2>3. Cardinality(room \cup {k}) <= Cardinality(room) + 1
    BY <2>2, FS_AddElement
  <2>4. IsFiniteSet(room \cup {k}) /\ Cardinality(room \cup {k}) \in Nat
    BY <2>2, FS_AddElement, FS_CardinalityType
  <2> HIDE DEF room
  <2>5. ~(Cardinality(room) >= Capacity) => Cardinality(room \cup {k}) <= Capacity
    BY <2>2, <2>3, <2>4, RoomAssumption
  <2> QED
    BY <1>1, <2>1, <2>5 DEF Bounded
<1>3. ASSUME NEW k \in Sockets, keys' = LuaLeave(k) \/ ExpireLease(k)
      PROVE  keys'.members \subseteq keys.members
  BY <1>3 DEF LuaLeave, ExpireLease, Shape
<1>4. ASSUME ExpireRoom \/ \E r \in Roles : ExpireRole(r)
      PROVE  keys'.members \subseteq keys.members
  BY <1>4 DEF ExpireRoom, ExpireRole, Shape
<1>5. CASE keys' = keys
  BY <1>1, <1>5
<1> QED
  BY <1>1, <1>2, <1>3, <1>4, <1>5, KeySteps

LEMMA JInvariance == Spec => []JInv
<1>1. Init => Owned /\ Shut /\ Bounded
  BY FS_EmptySet, RoomAssumption DEF Init, Owned, Shut, Bounded, Unused
<1>2. IInv /\ Owned /\ Shut /\ Bounded /\ [Next]_vars => Owned' /\ Shut' /\ Bounded'
  <2> SUFFICES ASSUME IInv, Owned, Shut, Bounded, [Next]_vars PROVE Owned' /\ Shut' /\ Bounded'
    OBVIOUS
  <2>1. Keeps
    BY NextKeeps DEF IInv
  <2>2. Owned'
    BY <2>1 DEF Owned, Keeps
  <2>3. Shut'
    BY <2>1, Farewells DEF Shut, Keeps, IInv
  <2> QED
    BY <2>2, <2>3, BoundKept DEF IInv
<1> QED
  BY <1>1, <1>2, Invariance, PTL DEF Spec, JInv

\* A JOIN takes the lease of nobody but the client it replaces: were the room full, there
\* would be no lease left to take.
LEMMA JoinReplaces ==
    ASSUME JInv, NEW k \in Sockets, sock[k].phase = "join", keys' = LuaJoin(k).keys,
           NEW j \in keys.leased \ keys'.leased
    PROVE  k \in keys'.leased \ keys.leased /\ sock[k].owner = sock[j].owner
<1> DEFINE r == RoleOf(sock[k].owner)
           listed == keys.members \cap keys.leased
           old == {keys.role[r]} \ {Nobody}
<1>0. k \notin keys.leased
  BY DEF JInv, IInv, LeasesAreRoles, Inside
<1>1. LuaJoin(k).result # "occupied"
  BY DEF LuaJoin, JInv, IInv, Shape
<1>2. j \in old /\ OwnerOf(r) \in {None, sock[k].owner} /\ j \in Sockets
  BY <1>1 DEF LuaJoin, JInv, IInv, Shape
<1>3. sock[k].owner = sock[j].owner
  BY <1>2 DEF OwnerOf, JInv, IInv, LeasesAreRoles, Owned, Inside
<1>4. LuaJoin(k).result # "full"
  <2> SUFFICES ASSUME Cardinality(listed \ old) >= Capacity PROVE FALSE
    BY DEF LuaJoin
  <2>1. j \in listed /\ old = {j}
    BY <1>2 DEF JInv, IInv, LeasesAreRoles
  <2>2. IsFiniteSet(listed) /\ Cardinality(listed) \in Nat /\ Cardinality(listed) <= Capacity
    BY Shrinking DEF JInv, IInv
  <2>3. Cardinality(listed \ {j}) = Cardinality(listed) - 1
    BY <2>1, <2>2, FS_RemoveElement
  <2> HIDE DEF listed, old
  <2> QED
    BY <2>1, <2>2, <2>3, RoomAssumption
<1>5. k \in keys'.leased
  BY <1>1, <1>4 DEF LuaJoin
<1> QED
  BY <1>0, <1>3, <1>5

(* A connected socket loses its lease only to a reconnect of its own owner. *)
THEOREM LeasesAreLostToOwners == Spec => LeaseLostToOwner
<1> DEFINE Kept == \A k \in keys.leased \ keys'.leased :
                Connected(k) /\ server[sock[k].at] = "up" =>
                    \E j \in keys'.leased \ keys.leased : sock[j].owner = sock[k].owner
<1>1. JInv /\ [Next]_vars => Kept
  <2> SUFFICES ASSUME JInv, [Next]_vars, NEW k \in keys.leased \ keys'.leased, Connected(k)
               PROVE  \E j \in keys'.leased \ keys.leased : sock[j].owner = sock[k].owner
    OBVIOUS
  <2>1. sock[k].phase = "open" /\ sock[k].ready = "open" /\ k \notin farewell
    BY DEF Connected, JInv, Shut
  <2>2. ASSUME NEW j \in Sockets, keys' = LuaJoin(j).keys, sock[j].phase = "join"
        PROVE  \E x \in keys'.leased \ keys.leased : sock[x].owner = sock[k].owner
    BY <2>2, JoinReplaces
  <2>3. ASSUME NEW j \in Sockets, keys' = LuaLeave(j),
               sock[j].phase \in {"joined", "left"} \/ j \in farewell
        PROVE  FALSE
    BY <2>1, <2>3 DEF LuaLeave
  <2>4. ASSUME NEW j \in Sockets, ExpireLease(j) PROVE FALSE
    BY <2>1, <2>4 DEF ExpireLease, JInv, IInv, Shape
  <2>5. ASSUME ExpireRoom \/ \E r \in Roles : ExpireRole(r) PROVE FALSE
    BY <2>5 DEF ExpireRoom, ExpireRole, JInv, IInv, Shape
  <2> QED
    BY <2>2, <2>3, <2>4, <2>5, KeySteps
<1> QED
  BY <1>1, JInvariance, PTL DEF Spec, LeaseLostToOwner

-----------------------------------------------------------------------------
\* The order of messages.  What a client has heard of a sender comes before what waits in
\* the inbox of its instance, and that before what the sender's handler has not routed;
\* the sender's own instance never has its messages in its inbox.

Waiting == [n: Nat \ {0}, session: Sessions, limiting: BOOLEAN]
Envelopes == [from: Sockets, n: Nat, session: Owner, checked: BOOLEAN]
Notes == [from: Sockets, n: Nat]

Traffic ==
    /\ pending \in [Sockets -> Seq(Waiting)]
    /\ inbox \in [Instances -> Seq(Envelopes)]
    /\ heard \in [Sockets -> Seq(Notes)]
    /\ sent \in Nat

Named == \A k \in Sockets : sock[k].owner \in Owner /\ sock[k].cur \in Owner

Rising(w) == \A x, y \in DOMAIN w : x < y => w[x].n < w[y].n
InOrder(s) == \A x, y \in DOMAIN s : x < y /\ s[x].from = s[y].from /\ s[y].n # 0 => s[x].n < s[y].n
Before(h, b) ==
    \A x \in DOMAIN h : \A y \in DOMAIN b : h[x].from = b[y].from /\ b[y].n # 0 => h[x].n < b[y].n
Ahead(s, k, w) == \A x \in DOMAIN s : \A z \in DOMAIN w : s[x].from = k => s[x].n < w[z].n
UpTo(s, n) == \A x \in DOMAIN s : s[x].n <= n

Ordered ==
    /\ \A k \in Sockets : Rising(pending[k]) /\ UpTo(pending[k], sent)
    /\ \A i \in Instances : InOrder(inbox[i]) /\ UpTo(inbox[i], sent)
    /\ \A p \in Sockets : InOrder(heard[p]) /\ UpTo(heard[p], sent)
    /\ \A i \in Instances, k \in Sockets : Ahead(inbox[i], k, pending[k])
    /\ \A p, k \in Sockets : Ahead(heard[p], k, pending[k])
    /\ \A p \in Sockets, i \in Instances : sock[p].at = i => Before(heard[p], inbox[i])

Placed ==
    /\ \A k \in Sockets : sock[k].phase = "unused" => DOMAIN pending[k] = {} /\ DOMAIN heard[k] = {}
    /\ \A i \in Instances : \A x \in DOMAIN inbox[i] :
          sock[inbox[i][x].from].phase # "unused" /\ sock[inbox[i][x].from].at # i

OInv == Traffic /\ Named /\ Ordered /\ Placed

\* A sequence is thinned if some of its messages are left out or only their marks change.
Thin(t, s) ==
    \E e \in [DOMAIN t -> DOMAIN s] :
        /\ \A x \in DOMAIN t : t[x].n = s[e[x]].n
        /\ \A x, y \in DOMAIN t : x < y => e[x] < e[y]
ThinFrom(t, s) ==
    \E e \in [DOMAIN t -> DOMAIN s] :
        /\ \A x \in DOMAIN t : t[x].n = s[e[x]].n /\ t[x].from = s[e[x]].from
        /\ \A x, y \in DOMAIN t : x < y => e[x] < e[y]
Without(t, s) ==
    \E e \in [DOMAIN t -> DOMAIN s] :
        /\ \A x \in DOMAIN t : t[x] = s[e[x]]
        /\ \A x, y \in DOMAIN t : x < y => e[x] < e[y]

LEMMA WithoutIsThin == ASSUME NEW t, NEW s, Without(t, s) PROVE Thin(t, s) /\ ThinFrom(t, s)
<1> PICK e \in [DOMAIN t -> DOMAIN s] :
        /\ \A x \in DOMAIN t : t[x] = s[e[x]]
        /\ \A x, y \in DOMAIN t : x < y => e[x] < e[y]
  BY DEF Without
<1> QED
  BY DEF Thin, ThinFrom

LEMMA WithoutSome ==
    ASSUME NEW S, NEW s \in Seq(S)
    PROVE  /\ Without(s, s) /\ Without(<<>>, s)
           /\ s # <<>> => Without(Tail(s), s) /\ Without(<<Head(s)>>, s)
           /\ s # <<>> => Tail(s) \in Seq(S) /\ Head(s) \in S /\ <<Head(s)>> \in Seq(S)
           /\ <<>> \in Seq(S)
<1>1. Len(s) \in Nat /\ DOMAIN s = 1 .. Len(s)
  OBVIOUS
<1>2. Without(s, s)
  <2> DEFINE e == [x \in DOMAIN s |-> x]
  <2>1. e \in [DOMAIN s -> DOMAIN s] /\ \A x \in DOMAIN s : e[x] = x
    OBVIOUS
  <2> HIDE DEF e
  <2> QED
    BY <2>1 DEF Without
<1>3. Without(<<>>, s)
  <2> DEFINE e == [x \in {} |-> x]
  <2>1. e \in [DOMAIN <<>> -> DOMAIN s] /\ DOMAIN <<>> = {}
    OBVIOUS
  <2> HIDE DEF e
  <2> QED
    BY <2>1 DEF Without
<1>4. ASSUME s # <<>> PROVE Without(Tail(s), s) /\ Tail(s) \in Seq(S)
  <2> DEFINE t == Tail(s)
             e == [x \in DOMAIN t |-> x + 1]
  <2>1. /\ t \in Seq(S) /\ Len(t) = Len(s) - 1 /\ DOMAIN t = 1 .. (Len(s) - 1)
        /\ \A x \in DOMAIN t : t[x] = s[x + 1]
    BY <1>1, <1>4
  <2> HIDE DEF t
  <2>2. e \in [DOMAIN t -> DOMAIN s] /\ \A x \in DOMAIN t : e[x] = x + 1 /\ x \in Nat
    BY <1>1, <2>1
  <2> HIDE DEF e
  <2>3. Without(t, s)
    BY <2>1, <2>2 DEF Without
  <2> QED
    BY <2>1, <2>3 DEF t
<1>5. ASSUME s # <<>> PROVE Without(<<Head(s)>>, s) /\ Head(s) \in S /\ <<Head(s)>> \in Seq(S)
  <2> DEFINE t == <<Head(s)>>
             e == [x \in DOMAIN t |-> 1]
  <2>1. /\ DOMAIN t = {1} /\ t[1] = s[1] /\ 1 \in DOMAIN s /\ t \in Seq(S) /\ Head(s) \in S
    BY <1>1, <1>5
  <2> HIDE DEF t
  <2>2. e \in [DOMAIN t -> DOMAIN s] /\ \A x \in DOMAIN t : e[x] = 1 /\ x = 1
    BY <1>1, <2>1
  <2> HIDE DEF e
  <2>3. Without(t, s)
    BY <2>1, <2>2 DEF Without
  <2> QED
    BY <2>1, <2>3 DEF t
<1> QED
  BY <1>2, <1>3, <1>4, <1>5

LEMMA WithoutOne ==
    ASSUME NEW S, NEW s \in Seq(S), NEW i \in DOMAIN s
    PROVE  RemoveAt(s, i) \in Seq(S) /\ Without(RemoveAt(s, i), s)
<1> DEFINE l == SubSeq(s, 1, i - 1)
           r == SubSeq(s, i + 1, Len(s))
           t == RemoveAt(s, i)
<1>1. Len(s) \in Nat /\ DOMAIN s = 1 .. Len(s) /\ i \in 1 .. Len(s)
  OBVIOUS
<1>2. /\ l \in Seq(S) /\ Len(l) = i - 1
      /\ \A x \in 1 .. (i - 1) : l[x] = s[x]
  BY <1>1
<1>3. /\ r \in Seq(S) /\ Len(r) = Len(s) - i
      /\ \A x \in 1 .. (Len(s) - i) : r[x] = s[i + x]
  BY <1>1
<1>4. t = l \o r
  BY DEF RemoveAt
<1> HIDE DEF l, r, t
<1>5. t \in Seq(S) /\ Len(t) = Len(s) - 1 /\ DOMAIN t = 1 .. (Len(s) - 1)
  <2>1. l \o r \in Seq(S) /\ Len(l \o r) = Len(l) + Len(r)
    BY <1>2, <1>3, ConcatProperties
  <2>2. Len(t) = Len(s) - 1 /\ t \in Seq(S)
    BY <1>1, <1>2, <1>3, <1>4, <2>1
  <2> QED
    BY <1>1, <2>2
<1>6. \A x \in DOMAIN t : t[x] = IF x < i THEN l[x] ELSE r[x - (i - 1)]
  <2>1. \A x \in 1 .. (Len(l) + Len(r)) :
            (l \o r)[x] = IF x <= Len(l) THEN l[x] ELSE r[x - Len(l)]
    BY <1>2, <1>3, ConcatProperties
  <2>2. Len(l) + Len(r) = Len(s) - 1
    BY <1>1, <1>2, <1>3
  <2>3. \A x \in 1 .. (Len(s) - 1) : t[x] = IF x <= i - 1 THEN l[x] ELSE r[x - (i - 1)]
    BY <1>2, <1>4, <2>1, <2>2
  <2> QED
    BY <1>1, <1>5, <2>3
<1>7. \A x \in DOMAIN t : t[x] = s[IF x < i THEN x ELSE x + 1]
  <2> SUFFICES ASSUME NEW x \in DOMAIN t PROVE t[x] = s[IF x < i THEN x ELSE x + 1]
    OBVIOUS
  <2>1. CASE x < i
    BY <1>1, <1>2, <1>5, <1>6, <2>1
  <2>2. CASE ~(x < i)
    <3>1. x - (i - 1) \in 1 .. (Len(s) - i) /\ i + (x - (i - 1)) = x + 1
      BY <1>1, <1>5, <2>2
    <3> QED
      BY <1>3, <1>6, <2>2, <3>1
  <2> QED
    BY <2>1, <2>2
<1> DEFINE e == [x \in DOMAIN t |-> IF x < i THEN x ELSE x + 1]
<1>8. /\ e \in [DOMAIN t -> DOMAIN s]
      /\ \A x \in DOMAIN t : e[x] = IF x < i THEN x ELSE x + 1
      /\ \A x, y \in DOMAIN t : x < y => e[x] < e[y]
  BY <1>1, <1>5
<1> HIDE DEF e
<1>9. Without(t, s)
  BY <1>7, <1>8 DEF Without
<1> QED
  BY <1>5, <1>9 DEF t

\* What thinning keeps.
LEMMA ThinKeeps ==
    ASSUME NEW t, NEW s, Thin(t, s)
    PROVE  /\ Rising(s) => Rising(t)
           /\ \A n : UpTo(s, n) => UpTo(t, n)
           /\ \A a, k : Ahead(a, k, s) => Ahead(a, k, t)
<1> PICK e \in [DOMAIN t -> DOMAIN s] :
        /\ \A x \in DOMAIN t : t[x].n = s[e[x]].n
        /\ \A x, y \in DOMAIN t : x < y => e[x] < e[y]
  BY DEF Thin
<1>1. \A x \in DOMAIN t : e[x] \in DOMAIN s
  OBVIOUS
<1>2. Rising(s) => Rising(t)
  BY <1>1 DEF Rising
<1>3. ASSUME NEW n, UpTo(s, n) PROVE UpTo(t, n)
  BY <1>1, <1>3 DEF UpTo
<1>4. ASSUME NEW a, NEW k, Ahead(a, k, s) PROVE Ahead(a, k, t)
  BY <1>1, <1>4 DEF Ahead
<1> QED
  BY <1>2, <1>3, <1>4

LEMMA ThinFromKeeps ==
    ASSUME NEW t, NEW s, ThinFrom(t, s)
    PROVE  /\ InOrder(s) => InOrder(t)
           /\ \A n : UpTo(s, n) => UpTo(t, n)
           /\ \A k, w : Ahead(s, k, w) => Ahead(t, k, w)
           /\ \A h : Before(h, s) => Before(h, t)
           /\ \A x \in DOMAIN t : \E y \in DOMAIN s : t[x].from = s[y].from
<1> PICK e \in [DOMAIN t -> DOMAIN s] :
        /\ \A x \in DOMAIN t : t[x].n = s[e[x]].n /\ t[x].from = s[e[x]].from
        /\ \A x, y \in DOMAIN t : x < y => e[x] < e[y]
  BY DEF ThinFrom
<1>1. \A x \in DOMAIN t : e[x] \in DOMAIN s
  OBVIOUS
<1>2. InOrder(s) => InOrder(t)
  BY <1>1 DEF InOrder
<1>3. ASSUME NEW n, UpTo(s, n) PROVE UpTo(t, n)
  BY <1>1, <1>3 DEF UpTo
<1>4. ASSUME NEW k, NEW w, Ahead(s, k, w) PROVE Ahead(t, k, w)
  BY <1>1, <1>4 DEF Ahead
<1>5. ASSUME NEW h, Before(h, s) PROVE Before(h, t)
  BY <1>1, <1>5 DEF Before
<1>6. \A x \in DOMAIN t : \E y \in DOMAIN s : t[x].from = s[y].from
  BY <1>1
<1> QED
  BY <1>2, <1>3, <1>4, <1>5, <1>6

\* What one more message keeps.
LEMMA AppendKeeps ==
    ASSUME NEW S, NEW s \in Seq(S), NEW m \in S
    PROVE  /\ Append(s, m) \in Seq(S)
           /\ \A n : UpTo(s, n) /\ m.n <= n => UpTo(Append(s, m), n)
           /\ Rising(s) /\ (\A x \in DOMAIN s : s[x].n < m.n) => Rising(Append(s, m))
           /\ InOrder(s) /\ (m.n = 0 \/ \A x \in DOMAIN s : s[x].from = m.from => s[x].n < m.n)
                => InOrder(Append(s, m))
           /\ \A k, w : Ahead(s, k, w) /\ (m.from = k => \A z \in DOMAIN w : m.n < w[z].n)
                => Ahead(Append(s, m), k, w)
           /\ \A a, k : Ahead(a, k, s) /\ (\A x \in DOMAIN a : a[x].n < m.n)
                => Ahead(a, k, Append(s, m))
           /\ \A b :
                Before(s, b) /\ (\A y \in DOMAIN b : m.from = b[y].from /\ b[y].n # 0 => m.n < b[y].n)
                => Before(Append(s, m), b)
           /\ \A h :
                Before(h, s) /\ (m.n = 0 \/ \A x \in DOMAIN h : h[x].from = m.from => h[x].n < m.n)
                => Before(h, Append(s, m))
<1> DEFINE t == Append(s, m)
           l == Len(s) + 1
<1>1. /\ t \in Seq(S) /\ DOMAIN t = DOMAIN s \cup {l} /\ l \notin DOMAIN s
      /\ \A x \in DOMAIN s : t[x] = s[x] /\ x < l /\ ~(l < x)
      /\ t[l] = m /\ ~(l < l)
  OBVIOUS
<1> HIDE DEF t, l
<1>2. ASSUME NEW n, UpTo(s, n), m.n <= n PROVE UpTo(t, n)
  BY <1>1, <1>2 DEF UpTo
<1>3. ASSUME Rising(s), \A x \in DOMAIN s : s[x].n < m.n PROVE Rising(t)
  BY <1>1, <1>3 DEF Rising
<1>4. ASSUME InOrder(s), m.n = 0 \/ \A x \in DOMAIN s : s[x].from = m.from => s[x].n < m.n
      PROVE  InOrder(t)
  BY <1>1, <1>4 DEF InOrder
<1>5. ASSUME NEW k, NEW w, Ahead(s, k, w), m.from = k => \A z \in DOMAIN w : m.n < w[z].n
      PROVE  Ahead(t, k, w)
  BY <1>1, <1>5 DEF Ahead
<1>6. ASSUME NEW a, NEW k, Ahead(a, k, s), \A x \in DOMAIN a : a[x].n < m.n
      PROVE  Ahead(a, k, t)
  BY <1>1, <1>6 DEF Ahead
<1>7. ASSUME NEW b, Before(s, b),
             \A y \in DOMAIN b : m.from = b[y].from /\ b[y].n # 0 => m.n < b[y].n
      PROVE  Before(t, b)
  BY <1>1, <1>7 DEF Before
<1>8. ASSUME NEW h, Before(h, s), m.n = 0 \/ \A x \in DOMAIN h : h[x].from = m.from => h[x].n < m.n
      PROVE  Before(h, t)
  BY <1>1, <1>8 DEF Before
<1> QED
  BY <1>1, <1>2, <1>3, <1>4, <1>5, <1>6, <1>7, <1>8 DEF t

\* What comes before the head of a sequence comes before it alone, and the head before the
\* rest.
LEMMA HeadFirst ==
    ASSUME NEW S, NEW s \in Seq(S), s # <<>>
    PROVE  /\ \A n : UpTo(s, n) => Head(s).n <= n
           /\ Rising(s) => \A z \in DOMAIN Tail(s) : Head(s).n < Tail(s)[z].n
           /\ InOrder(s) => \A y \in DOMAIN Tail(s) :
                  Head(s).from = Tail(s)[y].from /\ Tail(s)[y].n # 0 => Head(s).n < Tail(s)[y].n
           /\ \A a, k : Ahead(a, k, s) => \A x \in DOMAIN a : a[x].from = k => a[x].n < Head(s).n
           /\ \A k, w : Ahead(s, k, w) => (Head(s).from = k => \A z \in DOMAIN w : Head(s).n < w[z].n)
           /\ \A h : Before(h, s) =>
                  (Head(s).n = 0 \/ \A x \in DOMAIN h : h[x].from = Head(s).from => h[x].n < Head(s).n)
<1> DEFINE t == Tail(s)
           m == Head(s)
<1>1. /\ 1 \in DOMAIN s /\ m = s[1]
      /\ \A x \in DOMAIN t : x + 1 \in DOMAIN s /\ 1 < x + 1 /\ t[x] = s[x + 1]
  OBVIOUS
<1> HIDE DEF t, m
<1>2. \A n : UpTo(s, n) => m.n <= n
  BY <1>1 DEF UpTo
<1>3. Rising(s) => \A z \in DOMAIN t : m.n < t[z].n
  BY <1>1 DEF Rising
<1>4. InOrder(s) => \A y \in DOMAIN t : m.from = t[y].from /\ t[y].n # 0 => m.n < t[y].n
  BY <1>1 DEF InOrder
<1>5. \A a, k : Ahead(a, k, s) => \A x \in DOMAIN a : a[x].from = k => a[x].n < m.n
  BY <1>1 DEF Ahead
<1>6. \A k, w : Ahead(s, k, w) => (m.from = k => \A z \in DOMAIN w : m.n < w[z].n)
  BY <1>1 DEF Ahead
<1>7. \A h : Before(h, s) =>
          (m.n = 0 \/ \A x \in DOMAIN h : h[x].from = m.from => h[x].n < m.n)
  BY <1>1 DEF Before
<1> QED
  BY <1>2, <1>3, <1>4, <1>5, <1>6, <1>7 DEF t, m

LEMMA Messages ==
    ASSUME Traffic
    PROVE  /\ \A k \in Sockets : \A x \in DOMAIN pending[k] :
                  pending[k][x].n \in Nat \ {0} /\ pending[k][x].session \in Sessions
           /\ \A i \in Instances : \A x \in DOMAIN inbox[i] :
                  inbox[i][x].from \in Sockets /\ inbox[i][x].n \in Nat
           /\ \A p \in Sockets : \A x \in DOMAIN heard[p] : heard[p][x].n \in Nat
<1>1. ASSUME NEW k \in Sockets, NEW x \in DOMAIN pending[k]
      PROVE  pending[k][x].n \in Nat \ {0} /\ pending[k][x].session \in Sessions
  <2>1. pending[k] \in Seq(Waiting)
    BY DEF Traffic
  <2>2. pending[k][x] \in Waiting
    BY <2>1
  <2> QED
    BY <2>2 DEF Waiting
<1>2. ASSUME NEW i \in Instances, NEW x \in DOMAIN inbox[i]
      PROVE  inbox[i][x].from \in Sockets /\ inbox[i][x].n \in Nat
  <2>1. inbox[i] \in Seq(Envelopes)
    BY DEF Traffic
  <2>2. inbox[i][x] \in Envelopes
    BY <2>1
  <2> QED
    BY <2>2 DEF Envelopes
<1>3. ASSUME NEW p \in Sockets, NEW x \in DOMAIN heard[p] PROVE heard[p][x].n \in Nat
  <2>1. heard[p] \in Seq(Notes)
    BY DEF Traffic
  <2>2. heard[p][x] \in Notes
    BY <2>1
  <2> QED
    BY <2>2 DEF Notes
<1> QED
  BY <1>1, <1>2, <1>3

LEMMA InitOInv == Init => OInv
<1> SUFFICES ASSUME Init PROVE OInv
  OBVIOUS
<1>1. /\ \A k \in Sockets : pending[k] = <<>> /\ heard[k] = <<>> /\ sock[k] = Unused
      /\ \A i \in Instances : inbox[i] = <<>>
      /\ sent = 0
  BY DEF Init
<1>2. Traffic
  BY <1>1 DEF Init, Traffic
<1>3. Named
  BY <1>1 DEF Named, Unused, Owner
<1>4. Ordered
  BY <1>1 DEF Ordered, Rising, UpTo, InOrder, Ahead, Before
<1>5. Placed
  BY <1>1 DEF Placed
<1> QED
  BY <1>2, <1>3, <1>4, <1>5 DEF OInv

\* A step that loses messages, or moves none, keeps the order.
LEMMA Thinning ==
    ASSUME OInv, Keeps,
           pending' \in [Sockets -> Seq(Waiting)],
           inbox' \in [Instances -> Seq(Envelopes)],
           \A k \in Sockets : Thin(pending'[k], pending[k]),
           \A i \in Instances : ThinFrom(inbox'[i], inbox[i]),
           heard' = heard, sent' = sent
    PROVE  Traffic' /\ Ordered' /\ Placed'
<1>1. Traffic'
  BY DEF OInv, Traffic
<1>2. \A k \in Sockets : Rising(pending'[k]) /\ UpTo(pending'[k], sent)
  BY ThinKeeps DEF OInv, Ordered
<1>3. \A i \in Instances : InOrder(inbox'[i]) /\ UpTo(inbox'[i], sent)
  BY ThinFromKeeps DEF OInv, Ordered
<1>4. \A i \in Instances, k \in Sockets : Ahead(inbox'[i], k, pending'[k])
  <2> SUFFICES ASSUME NEW i \in Instances, NEW k \in Sockets PROVE Ahead(inbox'[i], k, pending'[k])
    OBVIOUS
  <2>1. Ahead(inbox'[i], k, pending[k])
    BY ThinFromKeeps DEF OInv, Ordered
  <2> QED
    BY <2>1, ThinKeeps
<1>5. \A p, k \in Sockets : Ahead(heard[p], k, pending'[k])
  BY ThinKeeps DEF OInv, Ordered
<1>6. ASSUME NEW p \in Sockets, NEW i \in Instances, sock'[p].at = i
      PROVE  Before(heard[p], inbox'[i])
  <2>1. CASE sock[p].phase = "unused"
    <3>1. DOMAIN heard[p] = {}
      BY <2>1 DEF OInv, Placed
    <3> QED
      BY <3>1 DEF Before
  <2>2. CASE sock[p].phase # "unused"
    <3>1. sock[p].at = i
      BY <1>6, <2>2 DEF Keeps
    <3>2. Before(heard[p], inbox[i])
      BY <3>1 DEF OInv, Ordered
    <3> QED
      BY <3>2, ThinFromKeeps
  <2> QED
    BY <2>1, <2>2
<1>7. Ordered'
  BY <1>2, <1>3, <1>4, <1>5, <1>6 DEF OInv, Ordered
<1>8. ASSUME NEW k \in Sockets, sock'[k].phase = "unused"
      PROVE  DOMAIN pending'[k] = {} /\ DOMAIN heard[k] = {}
  <2>1. DOMAIN pending[k] = {} /\ DOMAIN heard[k] = {}
    BY <1>8 DEF OInv, Placed, Keeps
  <2> QED
    BY <2>1 DEF Thin
<1>9. ASSUME NEW i \in Instances, NEW x \in DOMAIN inbox'[i]
      PROVE  sock'[inbox'[i][x].from].phase # "unused" /\ sock'[inbox'[i][x].from].at # i
  <2>1. PICK y \in DOMAIN inbox[i] : inbox'[i][x].from = inbox[i][y].from
    BY ThinFromKeeps
  <2>2. inbox[i][y].from \in Sockets
    BY Messages DEF OInv
  <2> QED
    BY <2>1, <2>2 DEF OInv, Placed, Keeps
<1>10. Placed'
  BY <1>8, <1>9 DEF Placed
<1> QED
  BY <1>1, <1>7, <1>10

\* A client sends: its message is later than all the others.
LEMMA Sending ==
    ASSUME OInv, Owned, Keeps, NEW k \in Sockets, NEW s \in Sessions, Send(k, s)
    PROVE  Traffic' /\ Ordered' /\ Placed'
<1> DEFINE m == [n |-> sent + 1, session |-> s, limiting |-> FALSE]
<1>1. /\ sent \in Nat /\ sent' = sent + 1 /\ inbox' = inbox /\ heard' = heard
      /\ sock[k].phase = "open"
      /\ pending' = pending \/ pending' = [pending EXCEPT ![k] = Append(@, m)]
  BY DEF Send, OInv, Traffic
<1>2. m \in Waiting /\ m.n = sent + 1
  BY <1>1 DEF Waiting
<1> HIDE DEF m
<1>3. /\ \A j \in Sockets : UpTo(pending[j], sent') /\ UpTo(heard[j], sent')
      /\ \A i \in Instances : UpTo(inbox[i], sent')
  BY <1>1, Messages DEF OInv, Ordered, UpTo
<1>4. Append(pending[k], m) \in Seq(Waiting)
  BY <1>2, AppendKeeps DEF OInv, Traffic
<1>5. Rising(Append(pending[k], m)) /\ UpTo(Append(pending[k], m), sent')
  <2>1. \A x \in DOMAIN pending[k] : pending[k][x].n < m.n
    BY <1>1, <1>2, Messages DEF OInv, Ordered, UpTo
  <2>2. pending[k] \in Seq(Waiting) /\ m.n <= sent'
    BY <1>1, <1>2 DEF OInv, Traffic
  <2> QED
    BY <1>2, <1>3, <2>1, <2>2, AppendKeeps DEF OInv, Ordered
<1>6. ASSUME NEW i \in Instances PROVE Ahead(inbox[i], k, Append(pending[k], m))
  <2>1. \A x \in DOMAIN inbox[i] : inbox[i][x].n < m.n
    BY <1>1, <1>2, Messages DEF OInv, Ordered, UpTo
  <2> QED
    BY <1>2, <2>1, AppendKeeps DEF OInv, Ordered, Traffic
<1>7. ASSUME NEW p \in Sockets PROVE Ahead(heard[p], k, Append(pending[k], m))
  <2>1. \A x \in DOMAIN heard[p] : heard[p][x].n < m.n
    BY <1>1, <1>2, Messages DEF OInv, Ordered, UpTo
  <2> QED
    BY <1>2, <2>1, AppendKeeps DEF OInv, Ordered, Traffic
<1>8. ASSUME NEW j \in Sockets
      PROVE  \/ pending'[j] = pending[j]
             \/ j = k /\ pending'[j] = Append(pending[k], m)
  BY <1>1 DEF OInv, Traffic
<1>9. Traffic'
  <2>1. pending' \in [Sockets -> Seq(Waiting)]
    BY <1>1, <1>4 DEF OInv, Traffic
  <2>2. sent' \in Nat
    BY <1>1
  <2> QED
    BY <1>1, <2>1, <2>2 DEF OInv, Traffic
<1>10. \A p \in Sockets, i \in Instances : sock'[p].at = i => Before(heard[p], inbox[i])
  <2> SUFFICES ASSUME NEW p \in Sockets, NEW i \in Instances, sock'[p].at = i
               PROVE  Before(heard[p], inbox[i])
    OBVIOUS
  <2>1. CASE sock[p].phase = "unused"
    BY <2>1 DEF Before, OInv, Placed
  <2>2. CASE sock[p].phase # "unused"
    BY <2>2 DEF Keeps, OInv, Ordered
  <2> QED
    BY <2>1, <2>2
<1>11. Ordered'
  BY <1>1, <1>3, <1>5, <1>6, <1>7, <1>8, <1>10 DEF OInv, Ordered
<1>12. Placed'
  BY <1>1, <1>8, Messages DEF OInv, Placed, Keeps
<1> QED
  BY <1>9, <1>11, <1>12

\* What is heard and what is published, if a message goes to some sockets and instances.
LEMMA Heard ==
    ASSUME Traffic, NEW R, NEW m, NEW note \in Notes, note = [from |-> m.from, n |-> m.n],
           Hear(R, m)
    PROVE  /\ heard' \in [Sockets -> Seq(Notes)]
           /\ \A p \in Sockets : heard'[p] = IF p \in R THEN Append(heard[p], note) ELSE heard[p]
<1>1. \A p \in Sockets : heard[p] \in Seq(Notes) /\ Append(heard[p], note) \in Seq(Notes)
  BY AppendKeeps DEF Traffic
<1>2. heard' = [p \in Sockets |-> IF p \in R THEN Append(heard[p], note) ELSE heard[p]]
  BY DEF Hear
<1> QED
  BY <1>1, <1>2

LEMMA Publishing ==
    ASSUME Traffic, NEW i, NEW env \in Envelopes, inbox' = Published(i, env)
    PROVE  /\ inbox' \in [Instances -> Seq(Envelopes)]
           /\ \A j \in Instances : \/ inbox'[j] = inbox[j]
                                   \/ j # i /\ inbox'[j] = Append(inbox[j], env)
<1>1. \A j \in Instances : inbox[j] \in Seq(Envelopes) /\ Append(inbox[j], env) \in Seq(Envelopes)
  BY AppendKeeps DEF Traffic
<1>2. inbox' = [j \in Instances |-> IF j = i \/ server[j] = "down" THEN inbox[j]
                                    ELSE Append(inbox[j], env)]
  BY DEF Published
<1> QED
  BY <1>1, <1>2

\* The server routes the first message of a socket: those here hear it, the other instances
\* receive it.
LEMMA Routing ==
    ASSUME OInv, Owned, NEW k \in Sockets, Route(k)
    PROVE  Traffic' /\ Ordered' /\ Placed'
<1> DEFINE w == pending[k]
           m == Head(w)
           i == sock[k].at
           env == [from |-> k, n |-> m.n, session |-> m.session, checked |-> FALSE]
           note == [from |-> k, n |-> m.n]
<1>1. /\ w # <<>> /\ pending' = [pending EXCEPT ![k] = Tail(w)]
      /\ sock' = sock /\ sent' = sent
      /\ \E R \in SUBSET Routed(k, m.session, Local(i)) : Hear(R, env)
      /\ inbox' = inbox \/ inbox' = Published(i, env)
  BY DEF Route
<1>2. w \in Seq(Waiting) /\ pending \in [Sockets -> Seq(Waiting)] /\ sent \in Nat
  BY DEF OInv, Traffic
<1> HIDE DEF w
<1>3. /\ Tail(w) \in Seq(Waiting) /\ Thin(Tail(w), w)
      /\ m \in Waiting
  BY <1>1, <1>2, WithoutSome, WithoutIsThin
<1>4. m.n \in Nat \ {0} /\ m.session \in Sessions
  BY <1>3 DEF Waiting
<1>5. env \in Envelopes /\ env.from = k /\ env.n = m.n
  BY <1>4 DEF Envelopes, Owner
<1>6. /\ \A z \in DOMAIN Tail(w) : m.n < Tail(w)[z].n
      /\ \A a : Ahead(a, k, w) => \A x \in DOMAIN a : a[x].from = k => a[x].n < m.n
      /\ m.n <= sent
  <2>1. Rising(w) /\ UpTo(w, sent)
    BY DEF w, OInv, Ordered
  <2> QED
    BY <1>1, <1>2, <2>1, HeadFirst
<1>7. \A j \in Instances : Ahead(inbox[j], k, w) /\ Ahead(inbox[j], k, Tail(w))
  BY <1>3, ThinKeeps DEF w, OInv, Ordered
<1>8. \A p \in Sockets : Ahead(heard[p], k, w) /\ Ahead(heard[p], k, Tail(w))
  BY <1>3, ThinKeeps DEF w, OInv, Ordered
<1>9. /\ note \in Notes /\ heard' \in [Sockets -> Seq(Notes)]
      /\ \A p \in Sockets : \/ heard'[p] = heard[p]
                            \/ sock[p].at = i /\ heard'[p] = Append(heard[p], note)
      /\ \A p \in Sockets : sock[p].phase = "unused" => heard'[p] = heard[p]
  <2>1. PICK R \in SUBSET Routed(k, m.session, Local(i)) : Hear(R, env)
    BY <1>1
  <2>2. \A p \in R : sock[p].at = i /\ sock[p].phase = "open"
    BY <2>1 DEF Routed, Local
  <2>3. note \in Notes /\ note = [from |-> env.from, n |-> env.n]
    BY <1>4 DEF Notes
  <2> HIDE DEF i, m, env, note
  <2>4. /\ heard' \in [Sockets -> Seq(Notes)]
        /\ \A p \in Sockets : heard'[p] = IF p \in R THEN Append(heard[p], note) ELSE heard[p]
    BY <2>1, <2>3, Heard DEF OInv
  <2> QED
    BY <2>2, <2>3, <2>4
<1>10. /\ inbox' \in [Instances -> Seq(Envelopes)]
       /\ \A j \in Instances : \/ inbox'[j] = inbox[j]
                               \/ j # i /\ inbox'[j] = Append(inbox[j], env)
  BY <1>1, <1>5, Publishing DEF OInv, Traffic
<1>11. /\ pending' \in [Sockets -> Seq(Waiting)]
       /\ \A q \in Sockets : pending'[q] = IF q = k THEN Tail(w) ELSE pending[q]
  BY <1>1, <1>2, <1>3
<1> HIDE DEF m, i, env, note
<1>12. note.from = k /\ note.n = m.n
  BY DEF note
<1>13. Traffic'
  BY <1>1, <1>2, <1>9, <1>10, <1>11 DEF Traffic
<1>14. ASSUME NEW q \in Sockets PROVE Rising(pending'[q]) /\ UpTo(pending'[q], sent)
  <2>1. Rising(Tail(w)) /\ UpTo(Tail(w), sent)
    BY <1>3, ThinKeeps DEF w, OInv, Ordered
  <2> QED
    BY <1>11, <2>1 DEF OInv, Ordered
<1>15. ASSUME NEW j \in Instances
       PROVE  /\ InOrder(inbox'[j]) /\ UpTo(inbox'[j], sent)
              /\ \A q \in Sockets : Ahead(inbox'[j], q, pending'[q])
  <2>1. /\ inbox[j] \in Seq(Envelopes) /\ InOrder(inbox[j]) /\ UpTo(inbox[j], sent)
        /\ \A q \in Sockets : Ahead(inbox[j], q, pending'[q])
    BY <1>7, <1>11 DEF OInv, Ordered, Traffic
  <2>2. ASSUME inbox'[j] = Append(inbox[j], env)
        PROVE  /\ InOrder(inbox'[j]) /\ UpTo(inbox'[j], sent)
               /\ \A q \in Sockets : Ahead(inbox'[j], q, pending'[q])
    <3>1. \A x \in DOMAIN inbox[j] : inbox[j][x].from = env.from => inbox[j][x].n < env.n
      BY <1>5, <1>6, <1>7
    <3>2. InOrder(Append(inbox[j], env)) /\ UpTo(Append(inbox[j], env), sent)
      BY <1>5, <1>6, <2>1, <3>1, AppendKeeps
    <3>3. ASSUME NEW q \in Sockets PROVE Ahead(Append(inbox[j], env), q, pending'[q])
      <4>1. env.from = q => \A z \in DOMAIN pending'[q] : env.n < pending'[q][z].n
        BY <1>5, <1>6, <1>11
      <4> QED
        BY <1>5, <2>1, <4>1, AppendKeeps
    <3> QED
      BY <2>2, <3>2, <3>3
  <2> QED
    BY <1>10, <2>1, <2>2
<1>16. ASSUME NEW p \in Sockets
       PROVE  /\ InOrder(heard'[p]) /\ UpTo(heard'[p], sent)
              /\ \A q \in Sockets : Ahead(heard'[p], q, pending'[q])
  <2>1. /\ heard[p] \in Seq(Notes) /\ InOrder(heard[p]) /\ UpTo(heard[p], sent)
        /\ \A q \in Sockets : Ahead(heard[p], q, pending'[q])
    BY <1>8, <1>11 DEF OInv, Ordered, Traffic
  <2>2. ASSUME heard'[p] = Append(heard[p], note)
        PROVE  /\ InOrder(heard'[p]) /\ UpTo(heard'[p], sent)
               /\ \A q \in Sockets : Ahead(heard'[p], q, pending'[q])
    <3>1. \A x \in DOMAIN heard[p] : heard[p][x].from = note.from => heard[p][x].n < note.n
      BY <1>6, <1>8, <1>12
    <3>2. InOrder(Append(heard[p], note)) /\ UpTo(Append(heard[p], note), sent)
      BY <1>6, <1>9, <1>12, <2>1, <3>1, AppendKeeps
    <3>3. ASSUME NEW q \in Sockets PROVE Ahead(Append(heard[p], note), q, pending'[q])
      <4>1. note.from = q => \A z \in DOMAIN pending'[q] : note.n < pending'[q][z].n
        BY <1>6, <1>11, <1>12
      <4> QED
        BY <1>9, <2>1, <4>1, AppendKeeps
    <3> QED
      BY <2>2, <3>2, <3>3
  <2> QED
    BY <1>9, <2>1, <2>2
<1>17. ASSUME NEW p \in Sockets, NEW j \in Instances, sock[p].at = j
       PROVE  Before(heard'[p], inbox'[j])
  <2>0. /\ heard[p] \in Seq(Notes) /\ inbox[j] \in Seq(Envelopes) /\ Before(heard[p], inbox[j])
    BY <1>17 DEF OInv, Ordered, Traffic
  <2>1. CASE heard'[p] = heard[p] /\ inbox'[j] = inbox[j]
    BY <2>0, <2>1
  <2>2. CASE heard'[p] = Append(heard[p], note) /\ j = i
    <3>1. inbox'[j] = inbox[j]
      BY <1>10, <2>2
    <3>2. \A y \in DOMAIN inbox[j] : note.from # inbox[j][y].from
      BY <1>12, <2>2 DEF i, OInv, Placed
    <3>3. note \in Notes
      BY <1>9
    <3>4. Before(Append(heard[p], note), inbox[j])
      BY <2>0, <3>2, <3>3, AppendKeeps
    <3> QED
      BY <2>2, <3>1, <3>4
  <2>3. CASE heard'[p] = heard[p] /\ inbox'[j] = Append(inbox[j], env)
    <3>1. \A x \in DOMAIN heard[p] : heard[p][x].from = env.from => heard[p][x].n < env.n
      BY <1>5, <1>6, <1>8
    <3> QED
      BY <1>5, <2>0, <2>3, <3>1, AppendKeeps
  <2> QED
    BY <1>9, <1>10, <1>17, <2>1, <2>2, <2>3
<1>18. Ordered'
  BY <1>1, <1>14, <1>15, <1>16, <1>17 DEF Ordered
<1>19. ASSUME NEW q \in Sockets, sock[q].phase = "unused"
       PROVE  DOMAIN pending'[q] = {} /\ DOMAIN heard'[q] = {}
  <2>1. DOMAIN pending[q] = {} /\ DOMAIN heard[q] = {}
    BY <1>19 DEF OInv, Placed
  <2>2. q # k
    BY <1>1, <1>2, <2>1 DEF w
  <2> QED
    BY <1>9, <1>11, <1>19, <2>1, <2>2
<1>20. ASSUME NEW j \in Instances, NEW x \in DOMAIN inbox'[j]
       PROVE  sock[inbox'[j][x].from].phase # "unused" /\ sock[inbox'[j][x].from].at # j
  <2>1. CASE inbox'[j] = inbox[j]
    BY <2>1 DEF OInv, Placed
  <2>2. CASE inbox'[j] = Append(inbox[j], env) /\ j # i
    <3>1. sock[k].phase # "unused"
      BY <1>1, <1>2 DEF w, OInv, Placed
    <3>2. x \in DOMAIN inbox[j] \/ inbox'[j][x] = env
      BY <1>5, <2>2 DEF OInv, Traffic
    <3>3. CASE x \in DOMAIN inbox[j]
      <4>1. inbox'[j][x] = inbox[j][x]
        BY <1>5, <2>2, <3>3 DEF OInv, Traffic
      <4> QED
        BY <3>3, <4>1 DEF OInv, Placed
    <3>4. CASE inbox'[j][x] = env
      BY <1>5, <2>2, <3>1, <3>4 DEF i
    <3> QED
      BY <3>2, <3>3, <3>4
  <2> QED
    BY <1>10, <2>1, <2>2
<1>21. Placed'
  BY <1>1, <1>19, <1>20 DEF Placed
<1> QED
  BY <1>13, <1>18, <1>21

\* An instance delivers the first message of its inbox.
LEMMA Delivering ==
    ASSUME OInv, Owned, Keeps, NEW i \in Instances, Deliver(i)
    PROVE  Traffic' /\ Ordered' /\ Placed'
<1> DEFINE b == inbox[i]
           m == Head(b)
           note == [from |-> m.from, n |-> m.n]
<1>1. /\ b # <<>> /\ inbox' = [inbox EXCEPT ![i] = Tail(b)]
      /\ pending' = pending /\ sent' = sent
      /\ \E R \in SUBSET Routed(m.from, m.session, Local(i)) : Hear(R, m)
  BY DEF Deliver
<1>2. /\ b \in Seq(Envelopes) /\ inbox \in [Instances -> Seq(Envelopes)] /\ sent \in Nat
      /\ pending \in [Sockets -> Seq(Waiting)]
  BY DEF OInv, Traffic
<1> HIDE DEF b
<1>3. Tail(b) \in Seq(Envelopes) /\ ThinFrom(Tail(b), b) /\ m \in Envelopes
  BY <1>1, <1>2, WithoutSome, WithoutIsThin
<1>4. m.n \in Nat /\ m.from \in Sockets
  BY <1>3 DEF Envelopes
<1>5. note \in Notes /\ note = [from |-> m.from, n |-> m.n] /\ note.from = m.from /\ note.n = m.n
  BY <1>4 DEF Notes
<1> HIDE DEF m, note
<1>6. /\ heard' \in [Sockets -> Seq(Notes)]
      /\ \A p \in Sockets :
            \/ heard'[p] = heard[p]
            \/ /\ sock[p].at = i /\ sock[p].phase # "unused"
               /\ heard'[p] = Append(heard[p], note)
  <2>1. PICK R \in SUBSET Routed(m.from, m.session, Local(i)) : Hear(R, m)
    BY <1>1
  <2>2. \A p \in R : sock[p].at = i /\ sock[p].phase = "open"
    BY <2>1 DEF Routed, Local
  <2>3. /\ heard' \in [Sockets -> Seq(Notes)]
        /\ \A p \in Sockets : heard'[p] = IF p \in R THEN Append(heard[p], note) ELSE heard[p]
    BY <1>5, <2>1, Heard DEF OInv
  <2> QED
    BY <2>2, <2>3
<1>7. /\ inbox' \in [Instances -> Seq(Envelopes)]
      /\ \A j \in Instances : inbox'[j] = IF j = i THEN Tail(b) ELSE inbox[j]
  BY <1>1, <1>2, <1>3
<1>8. Traffic'
  BY <1>1, <1>2, <1>6, <1>7 DEF Traffic
<1>9. /\ \A y \in DOMAIN Tail(b) :
            m.from = Tail(b)[y].from /\ Tail(b)[y].n # 0 => m.n < Tail(b)[y].n
      /\ \A k, w : Ahead(b, k, w) => (m.from = k => \A z \in DOMAIN w : m.n < w[z].n)
      /\ \A h : Before(h, b) =>
            (m.n = 0 \/ \A x \in DOMAIN h : h[x].from = m.from => h[x].n < m.n)
      /\ m.n <= sent
  <2>1. InOrder(b) /\ UpTo(b, sent)
    BY DEF b, OInv, Ordered
  <2> QED
    BY <1>1, <1>2, <2>1, HeadFirst DEF m
<1>10. ASSUME NEW j \in Instances
       PROVE  /\ InOrder(inbox'[j]) /\ UpTo(inbox'[j], sent) /\ ThinFrom(inbox'[j], inbox[j])
              /\ \A q \in Sockets : Ahead(inbox'[j], q, pending[q])
  <2>1. ThinFrom(inbox'[j], inbox[j])
    <3>1. inbox[j] \in Seq(Envelopes)
      BY <1>2
    <3>2. ThinFrom(inbox[j], inbox[j])
      BY <3>1, WithoutSome, WithoutIsThin
    <3> QED
      BY <1>3, <1>7, <3>2 DEF b
  <2> QED
    BY <2>1, ThinFromKeeps DEF OInv, Ordered
<1>11. ASSUME NEW p \in Sockets
       PROVE  /\ InOrder(heard'[p]) /\ UpTo(heard'[p], sent)
              /\ \A q \in Sockets : Ahead(heard'[p], q, pending[q])
  <2>1. /\ heard[p] \in Seq(Notes) /\ InOrder(heard[p]) /\ UpTo(heard[p], sent)
        /\ \A q \in Sockets : Ahead(heard[p], q, pending[q])
    BY DEF OInv, Ordered, Traffic
  <2>2. ASSUME sock[p].at = i, heard'[p] = Append(heard[p], note)
        PROVE  /\ InOrder(heard'[p]) /\ UpTo(heard'[p], sent)
               /\ \A q \in Sockets : Ahead(heard'[p], q, pending[q])
    <3>1. Before(heard[p], b)
      BY <2>2 DEF b, OInv, Ordered
    <3>2. note.n = 0 \/ \A x \in DOMAIN heard[p] : heard[p][x].from = note.from => heard[p][x].n < note.n
      BY <1>5, <1>9, <3>1
    <3>3. note \in Notes /\ note.n <= sent
      BY <1>5, <1>9
    <3>4. InOrder(Append(heard[p], note)) /\ UpTo(Append(heard[p], note), sent)
      BY <2>1, <3>2, <3>3, AppendKeeps
    <3>5. ASSUME NEW q \in Sockets PROVE Ahead(Append(heard[p], note), q, pending[q])
      <4>1. Ahead(b, q, pending[q])
        BY DEF b, OInv, Ordered
      <4>2. note.from = q => \A z \in DOMAIN pending[q] : note.n < pending[q][z].n
        BY <1>5, <1>9, <4>1
      <4> QED
        BY <2>1, <3>3, <4>2, AppendKeeps
    <3> QED
      BY <2>2, <3>4, <3>5
  <2> QED
    BY <1>6, <2>1, <2>2
<1>12. ASSUME NEW p \in Sockets, NEW j \in Instances, sock'[p].at = j
       PROVE  Before(heard'[p], inbox'[j])
  <2>1. CASE sock[p].phase = "unused"
    <3>1. heard'[p] = heard[p] /\ DOMAIN heard[p] = {}
      BY <1>6, <2>1 DEF OInv, Placed
    <3> QED
      BY <3>1 DEF Before
  <2>2. CASE sock[p].phase # "unused"
    <3>1. sock[p].at = j
      BY <1>12, <2>2 DEF Keeps
    <3>2. Before(heard[p], inbox'[j])
      BY <1>10, <3>1, ThinFromKeeps DEF OInv, Ordered
    <3>3. ASSUME j = i, heard'[p] = Append(heard[p], note) PROVE Before(heard'[p], inbox'[j])
      <4>1. inbox'[j] = Tail(b) /\ Before(heard[p], Tail(b))
        BY <1>7, <3>2, <3>3
      <4>2. \A y \in DOMAIN Tail(b) :
                note.from = Tail(b)[y].from /\ Tail(b)[y].n # 0 => note.n < Tail(b)[y].n
        BY <1>5, <1>9
      <4>3. heard[p] \in Seq(Notes) /\ note \in Notes
        BY <1>5 DEF OInv, Traffic
      <4>4. Before(Append(heard[p], note), Tail(b))
        BY <4>1, <4>2, <4>3, AppendKeeps
      <4> QED
        BY <3>3, <4>1, <4>4
    <3> QED
      BY <1>6, <3>1, <3>2, <3>3
  <2> QED
    BY <2>1, <2>2
<1>13. Ordered'
  <2>1. \A k \in Sockets : Rising(pending[k]) /\ UpTo(pending[k], sent)
    BY DEF OInv, Ordered
  <2> QED
    BY <1>1, <1>10, <1>11, <1>12, <2>1 DEF Ordered
<1>14. ASSUME NEW q \in Sockets, sock'[q].phase = "unused"
       PROVE  DOMAIN pending[q] = {} /\ DOMAIN heard'[q] = {}
  <2>1. sock[q].phase = "unused"
    BY <1>14 DEF Keeps
  <2>2. heard'[q] = heard[q]
    BY <1>6, <2>1
  <2> QED
    BY <2>1, <2>2 DEF OInv, Placed
<1>15. ASSUME NEW j \in Instances, NEW x \in DOMAIN inbox'[j]
       PROVE  sock'[inbox'[j][x].from].phase # "unused" /\ sock'[inbox'[j][x].from].at # j
  <2>1. PICK y \in DOMAIN inbox[j] : inbox'[j][x].from = inbox[j][y].from
    BY <1>10, ThinFromKeeps
  <2>2. inbox[j][y].from \in Sockets
    BY Messages DEF OInv
  <2> QED
    BY <2>1, <2>2 DEF OInv, Placed, Keeps
<1>16. Placed'
  BY <1>1, <1>14, <1>15 DEF Placed
<1> QED
  BY <1>8, <1>13, <1>16

\* The end of a player's session is published.
LEMMA Telling ==
    ASSUME OInv, Owned, Keeps, NEW k \in Sockets, Tell(k)
    PROVE  Traffic' /\ Ordered' /\ Placed'
<1> DEFINE i == sock[k].at
           env == [from |-> k, n |-> 0, session |-> EndedSession(k), checked |-> FALSE]
<1>1. /\ sock[k].phase = "tell" /\ inbox' = Published(i, env)
      /\ pending' = pending /\ heard' = heard /\ sent' = sent
  BY DEF Tell
<1>2. env \in Envelopes /\ env.from = k /\ env.n = 0
  BY DEF Envelopes, EndedSession, OInv, Named
<1> HIDE DEF env, i
<1>3. /\ inbox' \in [Instances -> Seq(Envelopes)]
      /\ \A j \in Instances : \/ inbox'[j] = inbox[j]
                              \/ j # i /\ inbox'[j] = Append(inbox[j], env)
  BY <1>1, <1>2, Publishing DEF OInv
<1>4. /\ sent \in Nat /\ heard \in [Sockets -> Seq(Notes)]
      /\ \A q \in Sockets : Rising(pending[q]) /\ UpTo(pending[q], sent)
      /\ \A p \in Sockets : InOrder(heard[p]) /\ UpTo(heard[p], sent)
      /\ \A p, q \in Sockets : Ahead(heard[p], q, pending[q])
  BY DEF OInv, Traffic, Ordered
<1>5. Traffic'
  BY <1>1, <1>3 DEF OInv, Traffic
<1>6. ASSUME NEW j \in Instances
      PROVE  /\ InOrder(inbox'[j]) /\ UpTo(inbox'[j], sent)
             /\ \A q \in Sockets : Ahead(inbox'[j], q, pending[q])
             /\ \A p \in Sockets : sock[p].at = j => Before(heard[p], inbox'[j])
  <2>1. /\ inbox[j] \in Seq(Envelopes) /\ InOrder(inbox[j]) /\ UpTo(inbox[j], sent)
        /\ \A q \in Sockets : Ahead(inbox[j], q, pending[q])
        /\ \A p \in Sockets : sock[p].at = j => Before(heard[p], inbox[j])
    BY DEF OInv, Ordered, Traffic
  <2>2. ASSUME inbox'[j] = Append(inbox[j], env)
        PROVE  /\ InOrder(inbox'[j]) /\ UpTo(inbox'[j], sent)
               /\ \A q \in Sockets : Ahead(inbox'[j], q, pending[q])
               /\ \A p \in Sockets : sock[p].at = j => Before(heard[p], inbox'[j])
    <3>1. InOrder(Append(inbox[j], env)) /\ UpTo(Append(inbox[j], env), sent)
      BY <1>2, <1>4, <2>1, AppendKeeps
    <3>2. ASSUME NEW q \in Sockets PROVE Ahead(Append(inbox[j], env), q, pending[q])
      <4>1. \A z \in DOMAIN pending[q] : env.n < pending[q][z].n
        BY <1>2, Messages DEF OInv
      <4> QED
        BY <1>2, <2>1, <4>1, AppendKeeps
    <3>3. ASSUME NEW p \in Sockets, sock[p].at = j PROVE Before(heard[p], Append(inbox[j], env))
      <4>1. Before(heard[p], inbox[j])
        BY <2>1, <3>3
      <4> QED
        BY <1>2, <2>1, <4>1, AppendKeeps
    <3> QED
      BY <2>2, <3>1, <3>2, <3>3
  <2> QED
    BY <1>3, <2>1, <2>2
<1>7. ASSUME NEW p \in Sockets, NEW j \in Instances, sock'[p].at = j
      PROVE  Before(heard[p], inbox'[j])
  <2>1. CASE sock[p].phase = "unused"
    BY <2>1 DEF Before, OInv, Placed
  <2>2. CASE sock[p].phase # "unused"
    BY <1>6, <1>7, <2>2 DEF Keeps
  <2> QED
    BY <2>1, <2>2
<1>8. Ordered'
  BY <1>1, <1>4, <1>6, <1>7 DEF Ordered
<1>9. ASSUME NEW j \in Instances, NEW x \in DOMAIN inbox'[j]
      PROVE  sock'[inbox'[j][x].from].phase # "unused" /\ sock'[inbox'[j][x].from].at # j
  <2>1. sock'[k].phase # "unused" /\ sock'[k].at = i
    BY <1>1 DEF Keeps, i
  <2>2. \/ x \in DOMAIN inbox[j] /\ inbox'[j][x] = inbox[j][x]
        \/ j # i /\ inbox'[j][x] = env
    <3>1. inbox[j] \in Seq(Envelopes)
      BY DEF OInv, Traffic
    <3>2. CASE inbox'[j] = inbox[j]
      BY <3>2
    <3>3. CASE j # i /\ inbox'[j] = Append(inbox[j], env)
      BY <1>2, <3>1, <3>3
    <3> QED
      BY <1>3, <3>2, <3>3
  <2>3. CASE x \in DOMAIN inbox[j] /\ inbox'[j][x] = inbox[j][x]
    <3>1. inbox[j][x].from \in Sockets
      BY <2>3, Messages DEF OInv
    <3> QED
      BY <2>3, <3>1 DEF OInv, Placed, Keeps
  <2> QED
    BY <1>2, <2>1, <2>2, <2>3
<1>10. Placed'
  BY <1>1, <1>9 DEF OInv, Placed, Keeps
<1> QED
  BY <1>5, <1>8, <1>10

-----------------------------------------------------------------------------
\* The steps that lose messages or only mark them.
LEMMA MarkedIsThin ==
    ASSUME NEW s \in Seq(Waiting), s # <<>>
    PROVE  LET t == [s EXCEPT ![1].limiting = TRUE] IN t \in Seq(Waiting) /\ Thin(t, s)
<1> DEFINE w == [s[1] EXCEPT !.limiting = TRUE]
           t == [s EXCEPT ![1].limiting = TRUE]
           e == [x \in DOMAIN s |-> x]
<1>1. s[1] \in Waiting /\ 1 \in DOMAIN s
  OBVIOUS
<1>2. w \in Waiting /\ w.n = s[1].n
  BY <1>1 DEF Waiting
<1>3. t = [s EXCEPT ![1] = w]
  OBVIOUS
<1> HIDE DEF w, t
<1>4. t \in Seq(Waiting) /\ DOMAIN t = DOMAIN s /\ \A x \in DOMAIN s : t[x].n = s[x].n
  BY <1>1, <1>2, <1>3
<1>5. e \in [DOMAIN t -> DOMAIN s] /\ \A x \in DOMAIN t : e[x] = x
  BY <1>4
<1> HIDE DEF e
<1>6. Thin(t, s)
  BY <1>4, <1>5 DEF Thin
<1> QED
  BY <1>4, <1>6 DEF t

LEMMA CheckedIsThin ==
    ASSUME NEW s \in Seq(Envelopes), NEW i \in DOMAIN s
    PROVE  LET t == [s EXCEPT ![i].checked = TRUE] IN t \in Seq(Envelopes) /\ ThinFrom(t, s)
<1> DEFINE w == [s[i] EXCEPT !.checked = TRUE]
           t == [s EXCEPT ![i].checked = TRUE]
           e == [x \in DOMAIN s |-> x]
<1>1. s[i] \in Envelopes
  OBVIOUS
<1>2. w \in Envelopes /\ w.n = s[i].n /\ w.from = s[i].from
  BY <1>1 DEF Envelopes
<1>3. t = [s EXCEPT ![i] = w]
  OBVIOUS
<1> HIDE DEF w, t
<1>4. /\ t \in Seq(Envelopes) /\ DOMAIN t = DOMAIN s
      /\ \A x \in DOMAIN s : t[x].n = s[x].n /\ t[x].from = s[x].from
  BY <1>2, <1>3
<1>5. e \in [DOMAIN t -> DOMAIN s] /\ \A x \in DOMAIN t : e[x] = x
  BY <1>4
<1> HIDE DEF e
<1>6. ThinFrom(t, s)
  BY <1>4, <1>5 DEF ThinFrom
<1> QED
  BY <1>4, <1>6 DEF t

\* Messages still with the server are the same or thinned.
PendingThinned == /\ pending' \in [Sockets -> Seq(Waiting)]
                  /\ \A k \in Sockets : Thin(pending'[k], pending[k])
InboxThinned == /\ inbox' \in [Instances -> Seq(Envelopes)]
                /\ \A i \in Instances : ThinFrom(inbox'[i], inbox[i])
Thinned == PendingThinned /\ InboxThinned /\ heard' = heard /\ sent' = sent

LEMMA SamePending == ASSUME Traffic, pending' = pending PROVE PendingThinned
<1>1. \A k \in Sockets : pending[k] \in Seq(Waiting)
  BY DEF Traffic
<1>2. \A k \in Sockets : Thin(pending[k], pending[k])
  BY <1>1, WithoutSome, WithoutIsThin
<1> QED
  BY <1>2 DEF Traffic, PendingThinned

LEMMA SameInbox == ASSUME Traffic, inbox' = inbox PROVE InboxThinned
<1>1. \A i \in Instances : inbox[i] \in Seq(Envelopes)
  BY DEF Traffic
<1>2. \A i \in Instances : ThinFrom(inbox[i], inbox[i])
  BY <1>1, WithoutSome, WithoutIsThin
<1> QED
  BY <1>2 DEF Traffic, InboxThinned

LEMMA OnePending ==
    ASSUME Traffic, NEW k, NEW t \in Seq(Waiting), Thin(t, pending[k]),
           pending' = [pending EXCEPT ![k] = t]
    PROVE  PendingThinned
<1>1. \A j \in Sockets : pending[j] \in Seq(Waiting)
  BY DEF Traffic
<1>2. \A j \in Sockets : Thin(pending[j], pending[j])
  BY <1>1, WithoutSome, WithoutIsThin
<1> QED
  BY <1>2 DEF Traffic, PendingThinned

LEMMA OneInbox ==
    ASSUME Traffic, NEW i, NEW t \in Seq(Envelopes), ThinFrom(t, inbox[i]),
           inbox' = [inbox EXCEPT ![i] = t]
    PROVE  InboxThinned
<1>1. \A j \in Instances : inbox[j] \in Seq(Envelopes)
  BY DEF Traffic
<1>2. \A j \in Instances : ThinFrom(inbox[j], inbox[j])
  BY <1>1, WithoutSome, WithoutIsThin
<1> QED
  BY <1>2 DEF Traffic, InboxThinned

LEMMA SocketThins ==
    ASSUME Traffic, NEW k \in Sockets, SocketNext(k), ~Route(k), ~Tell(k),
           \A s \in Sessions : ~Send(k, s)
    PROVE  Thinned
<1>0. pending[k] \in Seq(Waiting)
  BY DEF Traffic
<1>1. CASE Examine(k)
  <2>1. /\ inbox' = inbox /\ heard' = heard /\ sent' = sent /\ pending[k] # <<>>
        /\ \/ pending' = [pending EXCEPT ![k][1].limiting = TRUE]
           \/ pending' = [pending EXCEPT ![k] = Tail(@)]
    BY <1>1 DEF Examine
  <2>2. CASE pending' = [pending EXCEPT ![k][1].limiting = TRUE]
    <3> DEFINE t == [pending[k] EXCEPT ![1].limiting = TRUE]
    <3>1. t \in Seq(Waiting) /\ Thin(t, pending[k])
      BY <1>0, <2>1, MarkedIsThin
    <3>2. pending' = [pending EXCEPT ![k] = t]
      BY <2>2
    <3> HIDE DEF t
    <3> QED
      BY <2>1, <3>1, <3>2, OnePending, SameInbox DEF Thinned
  <2>3. CASE pending' = [pending EXCEPT ![k] = Tail(@)]
    <3>1. Tail(pending[k]) \in Seq(Waiting) /\ Thin(Tail(pending[k]), pending[k])
      BY <1>0, <2>1, WithoutSome, WithoutIsThin
    <3> QED
      BY <2>1, <2>3, <3>1, OnePending, SameInbox DEF Thinned
  <2> QED
    BY <2>1, <2>2, <2>3
<1>2. CASE Overloaded(k) \/ Limit(k)
  <2>1. /\ inbox' = inbox /\ heard' = heard /\ sent' = sent /\ pending[k] # <<>>
        /\ pending' = [pending EXCEPT ![k] = Tail(@)]
    BY <1>2 DEF Overloaded, Limit
  <2>2. Tail(pending[k]) \in Seq(Waiting) /\ Thin(Tail(pending[k]), pending[k])
    BY <1>0, <2>1, WithoutSome, WithoutIsThin
  <2> QED
    BY <2>1, <2>2, OnePending, SameInbox DEF Thinned
<1>3. CASE Disconnect(k)
  <2>1. PICK t : /\ pending' = [pending EXCEPT ![k] = t]
                 /\ t = <<>> \/ (pending[k] # <<>> /\ t = <<Head(pending[k])>>)
    BY <1>3 DEF Disconnect
  <2>2. inbox' = inbox /\ heard' = heard /\ sent' = sent
    BY <1>3 DEF Disconnect
  <2>3. t \in Seq(Waiting) /\ Thin(t, pending[k])
    <3>1. CASE t = <<>>
      BY <1>0, <3>1, WithoutSome, WithoutIsThin
    <3>2. CASE pending[k] # <<>> /\ t = <<Head(pending[k])>>
      BY <1>0, <3>2, WithoutSome, WithoutIsThin
    <3> QED
      BY <2>1, <3>1, <3>2
  <2> QED
    BY <2>1, <2>2, <2>3, OnePending, SameInbox DEF Thinned
<1>4. CASE UNCHANGED traffic
  BY <1>4, SamePending, SameInbox DEF Thinned, traffic
<1>5. \/ Examine(k) \/ Overloaded(k) \/ Limit(k) \/ Disconnect(k) \/ UNCHANGED traffic
  <2>1. CASE Proceed(k)
    BY <2>1 DEF Proceed, Refuse, Join, Undo, Register, Leave
  <2>2. CASE ~Proceed(k)
    BY <2>2 DEF SocketNext, JoinFails, LeaveFails, Drop, ExpireLease, DrainLeave, Connect
  <2> QED
    BY <2>1, <2>2
<1> QED
  BY <1>1, <1>2, <1>3, <1>4, <1>5

LEMMA InstanceThins ==
    ASSUME Traffic, NEW i \in Instances, InstanceNext(i), ~Deliver(i)
    PROVE  Thinned
<1>0. inbox[i] \in Seq(Envelopes)
  BY DEF Traffic
<1>1. CASE Check(i)
  <2>1. PICK x \in DOMAIN inbox[i] :
            \/ inbox' = [inbox EXCEPT ![i] = [inbox[i] EXCEPT ![x].checked = TRUE]]
            \/ inbox' = [inbox EXCEPT ![i] = RemoveAt(inbox[i], x)]
    BY <1>1 DEF Check
  <2>2. PICK t : /\ inbox' = [inbox EXCEPT ![i] = t]
                 /\ \/ t = [inbox[i] EXCEPT ![x].checked = TRUE]
                    \/ t = RemoveAt(inbox[i], x)
    BY <2>1
  <2>3. pending' = pending /\ heard' = heard /\ sent' = sent
    BY <1>1 DEF Check
  <2>4. t \in Seq(Envelopes) /\ ThinFrom(t, inbox[i])
    <3>1. CASE t = [inbox[i] EXCEPT ![x].checked = TRUE]
      BY <1>0, <3>1, CheckedIsThin
    <3>2. CASE t = RemoveAt(inbox[i], x)
      BY <1>0, <3>2, WithoutOne, WithoutIsThin
    <3> QED
      BY <2>2, <3>1, <3>2
  <2> QED
    BY <2>2, <2>3, <2>4, OneInbox, SamePending DEF Thinned
<1>2. CASE Lose(i)
  <2>1. /\ pending' = pending /\ heard' = heard /\ sent' = sent /\ inbox[i] # <<>>
        /\ inbox' = [inbox EXCEPT ![i] = Tail(@)]
    BY <1>2 DEF Lose
  <2>2. Tail(inbox[i]) \in Seq(Envelopes) /\ ThinFrom(Tail(inbox[i]), inbox[i])
    BY <1>0, <2>1, WithoutSome, WithoutIsThin
  <2> QED
    BY <2>1, <2>2, OneInbox, SamePending DEF Thinned
<1>3. CASE Exit(i) \/ Crash(i)
  <2>1. /\ pending' = [k \in Sockets |-> IF sock[k].at = i THEN <<>> ELSE pending[k]]
        /\ inbox' = [inbox EXCEPT ![i] = <<>>] /\ heard' = heard /\ sent' = sent
    BY <1>3 DEF Exit, Crash, Vanish
  <2>2. <<>> \in Seq(Envelopes) /\ ThinFrom(<<>>, inbox[i])
    BY <1>0, WithoutSome, WithoutIsThin
  <2>3. \A k \in Sockets : pending[k] \in Seq(Waiting)
    BY DEF Traffic
  <2>4. \A k \in Sockets : /\ Thin(pending[k], pending[k]) /\ Thin(<<>>, pending[k])
                           /\ <<>> \in Seq(Waiting)
    BY <2>3, WithoutSome, WithoutIsThin
  <2>5. PendingThinned
    BY <2>1, <2>3, <2>4 DEF PendingThinned
  <2> QED
    BY <2>1, <2>2, <2>5, OneInbox DEF Thinned
<1>4. CASE BreakerCloses(i) \/ Shutdown(i)
  <2>1. UNCHANGED traffic
    BY <1>4 DEF BreakerCloses, Shutdown
  <2> QED
    BY <2>1, SamePending, SameInbox DEF Thinned, traffic
<1> QED
  BY <1>1, <1>2, <1>3, <1>4 DEF InstanceNext

\* The sessions that sockets belong to and speak to are sessions.
LEMMA NamesKept == ASSUME Shape, Traffic, Named, [Next]_vars PROVE Named'
<1>1. ASSUME NEW k \in Sockets, SocketNext(k) PROVE Named'
  <2>1. CASE \E o \in Openings[k] : Connect(k, o.at, o.owner)
    <3>1. PICK o \in Openings[k] : Connect(k, o.at, o.owner)
      BY <2>1
    <3>2. o.owner \in Owner
      BY RoomAssumption DEF Owner
    <3> QED
      BY <3>1, <3>2 DEF Connect, Named, Shape, Unused, Owner
  <2>2. CASE Examine(k)
    <3>1. PICK s : /\ s = Head(pending[k]).session /\ pending[k] # <<>>
                   /\ sock' \in {sock, [sock EXCEPT ![k].cur = s]}
      BY <2>2 DEF Examine
    <3>2. pending[k] \in Seq(Waiting)
      BY DEF Traffic
    <3>3. Head(pending[k]) \in Waiting
      BY <3>1, <3>2
    <3>4. s \in Owner
      BY <3>1, <3>3 DEF Waiting, Owner
    <3> QED
      BY <3>1, <3>4 DEF Named, Shape
  <2>3. ASSUME ~Examine(k), ~\E o \in Openings[k] : Connect(k, o.at, o.owner)
        PROVE  \A j \in Sockets : sock'[j].owner = sock[j].owner /\ sock'[j].cur = sock[j].cur
    <3>1. CASE Register(k)
      BY <3>1 DEF Register, Shape
    <3>2. ASSUME ~Register(k)
          PROVE  \/ sock' = sock
                 \/ \E x : sock' = [sock EXCEPT ![k].phase = x]
                 \/ \E x : sock' = [sock EXCEPT ![k].ready = x]
                 \/ \E x, y : sock' = [sock EXCEPT ![k].phase = x, ![k].ready = y]
      <4>1. CASE Proceed(k)
        BY <3>2, <4>1 DEF Proceed, Refuse, Join, Undo, Disconnect, Leave, Tell, Finished
      <4>2. CASE ~Proceed(k)
        BY <1>1, <2>3, <4>2 DEF SocketNext, JoinFails, LeaveFails, Drop, ExpireLease, Overloaded,
                                Route, Limit, DrainLeave, Send, Finished
      <4> QED
        BY <4>1, <4>2
    <3>3. ASSUME NEW x, NEW y,
                 \/ sock' = [sock EXCEPT ![k].phase = x]
                 \/ sock' = [sock EXCEPT ![k].ready = x]
                 \/ sock' = [sock EXCEPT ![k].phase = x, ![k].ready = y]
          PROVE  \A j \in Sockets : sock'[j].owner = sock[j].owner /\ sock'[j].cur = sock[j].cur
      BY <3>3 DEF Shape
    <3> QED
      BY <3>1, <3>2, <3>3
  <2> QED
    BY <2>1, <2>2, <2>3 DEF Named
<1>2. ASSUME NEW i \in Instances, InstanceNext(i) PROVE Named'
  <2>1. \A j \in Sockets : sock'[j].owner = sock[j].owner /\ sock'[j].cur = sock[j].cur
    <3>1. CASE Deliver(i)
      <4>1. PICK full : sock' = [k \in Sockets |-> IF k \in full
                                 THEN [sock[k] EXCEPT !.ready = "closing"] ELSE sock[k]]
        BY <3>1 DEF Deliver
      <4> QED
        BY <4>1 DEF Shape
    <3>2. CASE Shutdown(i)
      BY <3>2 DEF Shutdown, Shape
    <3>3. CASE Exit(i) \/ Crash(i)
      <4>1. \A j \in Sockets :
                \/ sock'[j] = sock[j]
                \/ sock'[j] = [sock[j] EXCEPT !.phase = "done", !.ready = "closed"]
        BY <3>3 DEF Exit, Crash, Vanish
      <4>2. ASSUME NEW j \in Sockets,
                   sock'[j] = [sock[j] EXCEPT !.phase = "done", !.ready = "closed"]
            PROVE  sock'[j].owner = sock[j].owner /\ sock'[j].cur = sock[j].cur
        BY <4>2 DEF Shape
      <4> QED
        BY <4>1, <4>2
    <3>4. CASE Check(i) \/ Lose(i) \/ BreakerCloses(i)
      BY <3>4 DEF Check, Lose, BreakerCloses
    <3> QED
      BY <1>2, <3>1, <3>2, <3>3, <3>4 DEF InstanceNext
  <2> QED
    BY <2>1 DEF Named
<1>3. CASE UNCHANGED vars \/ ExpireRoom \/ \E r \in Roles : ExpireRole(r)
  BY <1>3 DEF vars, ExpireRoom, ExpireRole, Named
<1> QED
  BY <1>1, <1>2, <1>3 DEF Next

LEMMA OrderKept ==
    ASSUME Shape, Owned, OInv, Keeps, [Next]_vars
    PROVE  Traffic' /\ Ordered' /\ Placed'
<1>1. ASSUME Thinned PROVE Traffic' /\ Ordered' /\ Placed'
  BY <1>1, Thinning DEF Thinned, PendingThinned, InboxThinned
<1>2. ASSUME NEW k \in Sockets, SocketNext(k) PROVE Traffic' /\ Ordered' /\ Placed'
  BY <1>1, <1>2, SocketThins, Routing, Telling, Sending DEF OInv
<1>3. ASSUME NEW i \in Instances, InstanceNext(i) PROVE Traffic' /\ Ordered' /\ Placed'
  BY <1>1, <1>3, InstanceThins, Delivering DEF OInv
<1>4. CASE UNCHANGED vars \/ ExpireRoom \/ \E r \in Roles : ExpireRole(r)
  <2>1. UNCHANGED traffic
    BY <1>4 DEF vars, ExpireRoom, ExpireRole, traffic
  <2>2. Thinned
    BY <2>1, SamePending, SameInbox DEF Thinned, traffic, OInv
  <2> QED
    BY <1>1, <2>2
<1> QED
  BY <1>2, <1>3, <1>4 DEF Next

(* Whatever path a message takes, local or through Redis, a client hears the messages of a
   sender once each and in the order they were sent: handleMessage takes them off the
   chain of the sender one at a time, every instance handles what its subscription
   receives in the order it was published, and no instance hears itself. *)
THEOREM MessagesAreHeardInOrder == Spec => []HeardInOrder
<1>1. JInv /\ OInv /\ [Next]_vars => OInv'
  <2> SUFFICES ASSUME JInv, OInv, [Next]_vars PROVE OInv'
    OBVIOUS
  <2>1. Keeps
    BY NextKeeps DEF JInv, IInv
  <2> QED
    BY <2>1, OrderKept, NamesKept DEF OInv, JInv, IInv
<1>2. OInv => HeardInOrder
  BY DEF OInv, Ordered, InOrder, HeardInOrder
<1> QED
  BY <1>1, <1>2, InitOInv, JInvariance, PTL DEF Spec

=============================================================================
