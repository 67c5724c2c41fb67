---------------------------- MODULE SignalingRoom ----------------------------
(***************************************************************************)
(* One room of the signaling server (src/Server/                           *)
(* ScalableSignalingServer.js, redisScripts.js), as several instances of   *)
(* the server share it through Redis.  The host of the room and the        *)
(* players of its sessions open WebSockets to any instance; a message goes *)
(* to the sockets of the same instance directly and to the others through  *)
(* Redis pub/sub.                                                          *)
(*                                                                         *)
(* A Redis command or script is one step, taken together with the code of  *)
(* its handler up to the next await; between two steps of a handler        *)
(* everything else may run.  The commands of one instance execute in the   *)
(* order they are issued.                                                  *)
(***************************************************************************)
EXTENDS Naturals, Sequences, FiniteSets, SequencesExt

CONSTANTS
    Instances,      \* processes of the signaling server
    MaxSockets,     \* bound on the WebSockets opened; a socket is its number
    Sessions,       \* sessions whose players may enter the room
    Openings,       \* [Sockets -> set of [at, owner]]: which sockets clients may open
    Capacity,       \* roomCapacity
    PendingLimit,   \* messages of one socket that may wait for their handler (64)
    ErrorThreshold, \* cbErrorThreshold
    MaxMessages,    \* bound on the messages sent by clients
    MaxEvents,      \* bound on them, failures of Redis commands and ends of instances together
    Slow            \* whether buffers of clients may be full

Sockets == 1..MaxSockets
Host == "host"
None == "none"
Nobody == 0
Roles == {"host", "player"}
RoleOf(owner) == IF owner = Host THEN "host" ELSE "player"

ASSUME RoomAssumption ==
    /\ {MaxSockets, MaxMessages, MaxEvents} \subseteq Nat
    /\ {Capacity, PendingLimit, ErrorThreshold} \subseteq Nat \ {0}
    /\ {Host, None} \cap Sessions = {} /\ None \notin Instances
    /\ Openings \in [Sockets -> SUBSET [at: Instances, owner: Sessions \cup {Host}]]
    /\ Slow \in BOOLEAN

VARIABLES
    keys,     \* [members, leased, role]: the room's set, its clients' leases, the owners of the roles
    server,   \* [Instances -> {"up", "draining", "down"}]
    breaker,  \* [Instances -> [failures, open]]: redisFailureCount, redisCircuitOpenUntil
    sock,     \* [Sockets -> the WebSocket and where its handlers are]
    pending,  \* [Sockets -> the messages of its _messageChain]
    farewell, \* sockets whose LEAVE the shutdown has issued
    inbox,    \* [Instances -> what its subscription has received and not yet handled]
    heard,    \* [Sockets -> what the client was sent]: history
    sent,     \* messages sent by clients
    faults    \* failures so far

vars == <<keys, server, breaker, sock, pending, farewell, inbox, heard, sent,
          faults>>
traffic == <<pending, inbox, heard, sent>>

Unused == [phase |-> "unused", ready |-> "closed", at |-> None,
           owner |-> None, cur |-> None]

TypeOK ==
    /\ keys \in [members: SUBSET Sockets, leased: SUBSET Sockets,
                 role: [Roles -> Sockets \cup {Nobody}]]
    /\ server \in [Instances -> {"up", "draining", "down"}]
    /\ breaker \in [Instances -> [failures: 0..(ErrorThreshold - 1), open: BOOLEAN]]
    /\ sock \in [Sockets ->
            [phase: {"unused", "join", "joined", "open", "left", "tell", "done"},
             ready: {"open", "closing", "closed"},
             at: Instances \cup {None}, owner: Sessions \cup {Host, None},
             cur: Sessions \cup {None}]]
    /\ \A k \in Sockets : \A m \in ToSet(pending[k]) :
            m \in [n: 1..MaxMessages, session: Sessions, limiting: BOOLEAN]
    /\ farewell \subseteq Sockets
    /\ \A i \in Instances : \A m \in ToSet(inbox[i]) :
            m \in [from: Sockets, n: 0..MaxMessages, session: Sessions, checked: BOOLEAN]
    /\ \A k \in Sockets : \A m \in ToSet(heard[k]) :
            m \in [from: Sockets, n: 0..MaxMessages]
    /\ sent \in 0..MaxMessages /\ faults \in 0..MaxEvents

Init ==
    /\ keys = [members |-> {}, leased |-> {}, role |-> [r \in Roles |-> Nobody]]
    /\ server = [i \in Instances |-> "up"]
    /\ breaker = [i \in Instances |-> [failures |-> 0, open |-> FALSE]]
    /\ sock = [k \in Sockets |-> Unused]
    /\ pending = [k \in Sockets |-> <<>>]
    /\ farewell = {}
    /\ inbox = [i \in Instances |-> <<>>]
    /\ heard = [k \in Sockets |-> <<>>]
    /\ sent = 0 /\ faults = 0

-----------------------------------------------------------------------------
\* The scripts of Redis, on the keys of the room.

\* The owner of a role is kept with its client; a client has one owner.
OwnerOf(r) == IF keys.role[r] = Nobody THEN None ELSE sock[keys.role[r]].owner

\* A mistake: LUA_JOIN replaces whoever has the role.
LuaJoinAnyOwner(k) ==
    LET old == {keys.role[RoleOf(sock[k].owner)]} \ {Nobody}
    IN  [result |-> "joined",
         keys |-> [members |-> ((keys.members \cap keys.leased) \ old) \cup {k},
                   leased |-> (keys.leased \ old) \cup {k},
                   role |-> [keys.role EXCEPT ![RoleOf(sock[k].owner)] = k]]]

\* What LUA_JOIN leaves in Redis and returns for the client k, which is never a member yet.
LuaJoin(k) ==
    LET r == RoleOf(sock[k].owner)
        listed == keys.members \cap keys.leased
        old == {keys.role[r]} \ {Nobody}
        room == listed \ old
    IN  IF OwnerOf(r) \notin {None, sock[k].owner}
        THEN [result |-> "occupied", keys |-> [keys EXCEPT !.members = listed]]
        ELSE IF Cardinality(room) >= Capacity
        THEN [result |-> "full",
              keys |-> [keys EXCEPT !.members = room, !.leased = @ \ old]]
        ELSE [result |-> "joined",
              keys |-> [members |-> room \cup {k}, leased |-> (keys.leased \ old) \cup {k},
                        role |-> [keys.role EXCEPT ![r] = k]]]

\* A mistake: LUA_LEAVE deletes the role of its owner, whichever client holds it now.
LuaLeaveByOwner(k) ==
    LET r == RoleOf(sock[k].owner)
    IN  [members |-> keys.members \ {k}, leased |-> keys.leased \ {k},
         role |-> IF OwnerOf(r) = sock[k].owner THEN [keys.role EXCEPT ![r] = Nobody]
                  ELSE keys.role]

\* What LUA_LEAVE leaves in Redis: the role only if it is still this client's.
LuaLeave(k) ==
    LET r == RoleOf(sock[k].owner)
    IN  [members |-> keys.members \ {k}, leased |-> keys.leased \ {k},
         role |-> IF keys.role[r] = k THEN [keys.role EXCEPT ![r] = Nobody] ELSE keys.role]

\* The sockets in localRooms of an instance.
Local(i) == {k \in Sockets : sock[k].phase = "open" /\ sock[k].at = i}

\* The heartbeat of a socket's instance keeps its lease, its role's key and the room alive.
Refreshed(k) ==
    sock[k].phase = "open" /\ sock[k].ready = "open" /\ server[sock[k].at] = "up"

\* A mistake: the role's key is set without a time to live.
ExpireRoleNever(r) == keys.role[r] # Nobody /\ UNCHANGED vars

\* The three keys expire when nobody refreshes them any more, long after the server is
\* done with their client.
ExpireRole(r) ==
    /\ keys.role[r] # Nobody /\ sock[keys.role[r]].phase = "done"
    /\ \A k \in Sockets : RoleOf(sock[k].owner) = r => ~Refreshed(k)
    /\ keys' = [keys EXCEPT !.role[r] = Nobody]
    /\ UNCHANGED <<server, breaker, sock, farewell, traffic, faults>>

ExpireLease(k) ==
    /\ k \in keys.leased /\ sock[k].phase = "done"
    /\ keys' = [keys EXCEPT !.leased = @ \ {k}]
    /\ UNCHANGED <<server, breaker, sock, farewell, traffic, faults>>

ExpireRoom ==
    /\ keys.members # {} /\ keys.leased = {}
    /\ \A k \in Sockets : ~Refreshed(k)
    /\ keys' = [keys EXCEPT !.members = {}]
    /\ UNCHANGED <<server, breaker, sock, farewell, traffic, faults>>

-----------------------------------------------------------------------------
\* The circuit breaker of an instance.  Failures are counted up to the one that opens it,
\* and again from there when its time is over.

Fault == sent + faults < MaxEvents /\ faults' = faults + 1
NoFault == UNCHANGED faults

Succeeded(i) == breaker' = [breaker EXCEPT ![i].failures = 0]
Failed(i) ==
    breaker' = [breaker EXCEPT ![i] =
        IF @.failures + 1 >= ErrorThreshold THEN [@ EXCEPT !.open = TRUE]
        ELSE [@ EXCEPT !.failures = @ + 1]]

BreakerCloses(i) ==
    /\ breaker[i].open
    /\ breaker' = [breaker EXCEPT ![i].open = FALSE]
    /\ UNCHANGED <<keys, server, sock, farewell, traffic, faults>>

-----------------------------------------------------------------------------
\* Setting up a connection.

Finished(k) == [sock EXCEPT ![k].phase = "done", ![k].ready = "closed"]

\* A socket is accepted.  Its rate limit, its credential or token and, for a host, the
\* registration for the room are checked before it joins; sockets are numbered as they come.
Connect(k, at, owner) ==
    /\ sock[k].phase = "unused" /\ \A j \in 1..(k - 1) : sock[j].phase # "unused"
    /\ server[at] = "up" /\ ~breaker[at].open
    /\ sock' = [sock EXCEPT ![k] = [Unused EXCEPT !.phase = "join", !.ready = "open",
                                    !.at = at, !.owner = owner]]
    /\ UNCHANGED <<keys, server, breaker, farewell, traffic, faults>>

\* A check fails, or the player's one-time token has been claimed before.
Refuse(k) ==
    /\ sock[k].phase = "join"
    /\ sock' = Finished(k)
    /\ UNCHANGED <<keys, server, breaker, farewell, traffic, faults>>

\* The JOIN, which does not ask whether the socket is still there.
Join(k) ==
    /\ sock[k].phase = "join"
    /\ keys' = LuaJoin(k).keys
    /\ sock' = IF LuaJoin(k).result = "joined" THEN [sock EXCEPT ![k].phase = "joined"]
               ELSE Finished(k)
    /\ Succeeded(sock[k].at)
    /\ UNCHANGED <<server, farewell, traffic, faults>>

\* The JOIN fails, or its reply is lost after it was executed.
JoinFails(k) ==
    /\ sock[k].phase = "join" /\ Fault
    /\ keys' \in {keys, LuaJoin(k).keys}
    /\ sock' = Finished(k)
    /\ Failed(sock[k].at)
    /\ UNCHANGED <<server, farewell, traffic>>

\* The socket was closed during the set-up: it leaves again, without a word.
Undo(k) ==
    /\ sock[k].phase = "joined" /\ sock[k].ready # "open"
    /\ \/ NoFault /\ keys' = LuaLeave(k)
       \/ Fault /\ keys' = keys
    /\ sock' = Finished(k)
    /\ UNCHANGED <<server, breaker, farewell, traffic>>

\* The socket enters the local room, and takes the place of those of its owner there.
Register(k) ==
    /\ sock[k].phase = "joined" /\ sock[k].ready = "open"
    /\ sock' = [j \in Sockets |->
            IF j = k THEN [sock[k] EXCEPT !.phase = "open"]
            ELSE IF j \in Local(sock[k].at) /\ sock[j].owner = sock[k].owner
                    /\ sock[j].ready = "open"
            THEN [sock[j] EXCEPT !.ready = "closing"]
            ELSE sock[j]]
    /\ UNCHANGED <<keys, server, breaker, farewell, traffic, faults>>

-----------------------------------------------------------------------------
\* Messages.

\* Those of the candidates that a message of k in session s is routed to: the other role,
\* and from the host only the player of the session.
Routed(k, s, candidates) ==
    {p \in candidates : /\ sock[p].ready = "open"
                        /\ RoleOf(sock[p].owner) # RoleOf(sock[k].owner)
                        /\ sock[k].owner = Host => sock[p].owner = s}

Hear(receivers, m) ==
    heard' = [p \in Sockets |-> IF p \in receivers
                                THEN Append(heard[p], [from |-> m.from, n |-> m.n])
                                ELSE heard[p]]

\* A mistake: an instance does not recognise what it has published itself.
PublishedToAll(i, m) ==
    [j \in Instances |-> IF server[j] = "down" THEN inbox[j] ELSE Append(inbox[j], m)]

\* Every instance gets what is published; the sender's ignores it for its origin.
Published(i, m) ==
    [j \in Instances |-> IF j = i \/ server[j] = "down" THEN inbox[j] ELSE Append(inbox[j], m)]

\* A client sends; a socket with too many waiting messages is closed.
Send(k, s) ==
    /\ sock[k].phase = "open" /\ sock[k].ready # "closed"
    /\ sent < MaxMessages /\ sent + faults < MaxEvents
    /\ sock[k].owner \in {Host, s}
    /\ sent' = sent + 1
    /\ IF Len(pending[k]) >= PendingLimit
       THEN /\ sock' = [sock EXCEPT ![k].ready = "closing"]
            /\ UNCHANGED pending
       ELSE /\ pending' = [pending EXCEPT ![k] =
                    Append(@, [n |-> sent + 1, session |-> s, limiting |-> FALSE])]
            /\ UNCHANGED sock
    /\ UNCHANGED <<keys, server, breaker, farewell, inbox, heard, faults>>

\* The host may speak to a session whose player is here or holds the role in Redis.
Known(k, s) ==
    \/ sock[k].owner # Host
    \/ \E p \in Local(sock[k].at) : sock[p].owner = s
    \/ OwnerOf("player") = s

\* handleMessage up to the rate limits of address and room.
Examine(k) ==
    /\ sock[k].phase = "open" /\ pending[k] # <<>> /\ ~Head(pending[k]).limiting
    /\ LET s == Head(pending[k]).session IN
       IF Known(k, s)
       THEN /\ pending' = [pending EXCEPT ![k][1].limiting = TRUE]
            /\ sock' = IF sock[k].owner = Host THEN [sock EXCEPT ![k].cur = s] ELSE sock
       ELSE /\ pending' = [pending EXCEPT ![k] = Tail(@)]
            /\ UNCHANGED sock
    /\ UNCHANGED <<keys, server, breaker, farewell, inbox, heard, sent, faults>>

\* The sender's own buffer is full: it is closed and the message dropped.
Overloaded(k) ==
    /\ Slow
    /\ sock[k].phase = "open" /\ pending[k] # <<>> /\ ~Head(pending[k]).limiting
    /\ pending' = [pending EXCEPT ![k] = Tail(@)]
    /\ sock' = [sock EXCEPT ![k].ready = IF @ = "open" THEN "closing" ELSE @]
    /\ UNCHANGED <<keys, server, breaker, farewell, inbox, heard, sent, faults>>

\* The rest of handleMessage: to the sockets here and to the other instances.  It does
\* not ask again whether the sender is still connected.
Route(k) ==
    /\ pending[k] # <<>> /\ Head(pending[k]).limiting
    /\ LET m == Head(pending[k])
           i == sock[k].at
           env == [from |-> k, n |-> m.n, session |-> m.session, checked |-> FALSE]
           peers == Routed(k, m.session, Local(i))
       IN  /\ \E reached \in IF Slow THEN SUBSET peers ELSE {peers} :
                  Hear(reached, env)
           /\ \/ NoFault /\ inbox' = Published(i, env) /\ Succeeded(i)
              \/ Fault /\ inbox' = inbox /\ Failed(i)
    /\ pending' = [pending EXCEPT ![k] = Tail(@)]
    /\ UNCHANGED <<keys, server, sock, farewell, sent>>

\* A rate limit is exceeded: the message is dropped.
Limit(k) ==
    /\ pending[k] # <<>> /\ Head(pending[k]).limiting
    /\ pending' = [pending EXCEPT ![k] = Tail(@)]
    /\ UNCHANGED <<keys, server, breaker, sock, farewell, inbox, heard, sent, faults>>

\* handleRedisMessage reads the sender's lease and role; both are lost for good together.
Check(i) ==
    \E x \in DOMAIN inbox[i] :
        /\ ~inbox[i][x].checked /\ \A y \in 1..(x - 1) : inbox[i][y].checked
        /\ LET k == inbox[i][x].from IN
           inbox' = [inbox EXCEPT ![i] =
               IF k \in keys.leased /\ keys.role[RoleOf(sock[k].owner)] = k
               THEN [@ EXCEPT ![x].checked = TRUE] ELSE RemoveAt(@, x)]
        /\ UNCHANGED <<keys, server, breaker, sock, pending, farewell, heard, sent, faults>>

\* The replies are back: the message goes to the sockets here, but those whose buffer is
\* full are closed instead.
Deliver(i) ==
    /\ inbox[i] # <<>> /\ Head(inbox[i]).checked
    /\ LET m == Head(inbox[i])
           peers == Routed(m.from, m.session, Local(i))
       IN  \E full \in IF Slow THEN SUBSET peers ELSE {{}} :
              /\ Hear(peers \ full, m)
              /\ sock' = [k \in Sockets |-> IF k \in full THEN [sock[k] EXCEPT !.ready = "closing"]
                                            ELSE sock[k]]
    /\ inbox' = [inbox EXCEPT ![i] = Tail(@)]
    /\ UNCHANGED <<keys, server, breaker, pending, farewell, sent, faults>>

-----------------------------------------------------------------------------
\* The end of connections.

\* The client goes away, its connection breaks, or a heartbeat terminates it because it
\* has not answered the last ping; a socket in its set-up counts as one that has not.
Drop(k) ==
    /\ sock[k].ready = "open"
    /\ sock' = [sock EXCEPT ![k].ready = "closed"]
    /\ UNCHANGED <<keys, server, breaker, farewell, traffic, faults>>

\* handleDisconnection takes the socket out of the local room; of its messages only one
\* that is already past its first test goes on.
Disconnect(k) ==
    /\ sock[k].phase = "open" /\ sock[k].ready # "open"
    /\ sock' = [sock EXCEPT ![k].phase = "left", ![k].ready = "closed"]
    /\ pending' = [pending EXCEPT ![k] =
           IF @ # <<>> /\ Head(@).limiting THEN <<Head(@)>> ELSE <<>>]
    /\ UNCHANGED <<keys, server, breaker, farewell, inbox, heard, sent, faults>>

\* The session whose end is told to the peers.
EndedSession(k) == IF sock[k].owner = Host THEN sock[k].cur ELSE sock[k].owner

Leave(k) ==
    /\ sock[k].phase = "left"
    /\ keys' = LuaLeave(k)
    /\ Succeeded(sock[k].at)
    /\ sock' = [sock EXCEPT ![k].phase = IF EndedSession(k) = None THEN "done" ELSE "tell"]
    /\ UNCHANGED <<server, farewell, traffic, faults>>

\* LEAVE fails, executed or not: nobody is told.
LeaveFails(k) ==
    /\ sock[k].phase = "left" /\ Fault
    /\ keys' \in {keys, LuaLeave(k)}
    /\ Failed(sock[k].at)
    /\ sock' = [sock EXCEPT ![k].phase = "done"]
    /\ UNCHANGED <<server, farewell, traffic>>

\* peer-disconnected is published.
Tell(k) ==
    /\ sock[k].phase = "tell"
    /\ inbox' = Published(sock[k].at, [from |-> k, n |-> 0, session |-> EndedSession(k),
                                       checked |-> FALSE])
    /\ sock' = [sock EXCEPT ![k].phase = "done"]
    /\ UNCHANGED <<keys, server, breaker, pending, farewell, heard, sent, faults>>

-----------------------------------------------------------------------------
\* The end of an instance.

\* A signal or an uncaught error: clients are closed and their LEAVEs issued.
Shutdown(i) ==
    /\ Fault /\ server[i] = "up"
    /\ server' = [server EXCEPT ![i] = "draining"]
    /\ sock' = [k \in Sockets |-> IF k \in Local(i) /\ sock[k].ready = "open"
                                  THEN [sock[k] EXCEPT !.ready = "closing"] ELSE sock[k]]
    /\ farewell' = farewell \cup Local(i)
    /\ UNCHANGED <<keys, breaker, traffic>>

DrainLeave(k) ==
    /\ k \in farewell
    /\ \/ NoFault /\ keys' = LuaLeave(k)
       \/ Fault /\ keys' = keys
    /\ farewell' = farewell \ {k}
    /\ UNCHANGED <<server, breaker, sock, traffic>>

\* What is left of an instance that is gone: the keys of its sockets.
Vanish(i) ==
    /\ server' = [server EXCEPT ![i] = "down"]
    /\ sock' = [k \in Sockets |-> IF sock[k].at = i
                                  THEN [sock[k] EXCEPT !.phase = "done", !.ready = "closed"]
                                  ELSE sock[k]]
    /\ pending' = [k \in Sockets |-> IF sock[k].at = i THEN <<>> ELSE pending[k]]
    /\ farewell' = {k \in farewell : sock[k].at # i}
    /\ inbox' = [inbox EXCEPT ![i] = <<>>]
    /\ UNCHANGED <<keys, breaker, heard, sent>>

\* The drain ends or takes too long.
Exit(i) == server[i] = "draining" /\ NoFault /\ Vanish(i)
Crash(i) == Fault /\ server[i] = "up" /\ Vanish(i)

\* The subscription reconnects and misses a message.
Lose(i) ==
    /\ Fault /\ inbox[i] # <<>> /\ ~Head(inbox[i]).checked
    /\ inbox' = [inbox EXCEPT ![i] = Tail(@)]
    /\ UNCHANGED <<keys, server, breaker, sock, pending, farewell, heard, sent>>

-----------------------------------------------------------------------------
\* What the server does with a socket without waiting for its client.
Proceed(k) ==
    Refuse(k) \/ Join(k) \/ Undo(k) \/ Register(k) \/ Disconnect(k) \/ Leave(k) \/ Tell(k)

SocketNext(k) ==
    \/ Proceed(k) \/ JoinFails(k) \/ LeaveFails(k) \/ Drop(k) \/ ExpireLease(k)
    \/ Examine(k) \/ Overloaded(k) \/ Route(k) \/ Limit(k) \/ DrainLeave(k)
    \/ \E s \in Sessions : Send(k, s)
    \/ \E o \in Openings[k] : Connect(k, o.at, o.owner)

InstanceNext(i) ==
    \/ Check(i) \/ Deliver(i) \/ Lose(i) \/ BreakerCloses(i)
    \/ Shutdown(i) \/ Exit(i) \/ Crash(i)

Next ==
    \/ \E k \in Sockets : SocketNext(k)
    \/ \E i \in Instances : InstanceNext(i)
    \/ \E r \in Roles : ExpireRole(r)
    \/ ExpireRoom

Spec == Init /\ [][Next]_vars

\* Handlers get their replies, keys expire, drains end.
FairSpec ==
    /\ Spec
    /\ \A k \in Sockets : WF_vars(Proceed(k))
    /\ \A i \in Instances : WF_vars(Exit(i))
    /\ \A r \in Roles : WF_vars(ExpireRole(r))

\* What is published is handled, too.
FairDelivery ==
    /\ FairSpec
    /\ \A i \in Instances : WF_vars(Check(i)) /\ WF_vars(Deliver(i))

-----------------------------------------------------------------------------
\* Properties.

\* A registered, connected socket of a running instance.
Connected(k) == sock[k].phase = "open" /\ sock[k].ready = "open"

(* A connected socket that has its lease also has its role and its place in the room:
   the late LEAVE of a connection it replaced took nothing of it, nor did a key expire
   under it (LUA_JOIN and LUA_LEAVE, the refresh of the heartbeat). *)
LeaseIsWhole ==
    \A k \in keys.leased : Connected(k) /\ server[sock[k].at] = "up" =>
        k \in keys.members /\ keys.role[RoleOf(sock[k].owner)] = k

(* A connected socket loses its lease only to a reconnect of its own owner, never to
   another session, a refused join or the disconnection of another socket. *)
LeaseLostToOwner ==
    [][\A k \in keys.leased \ keys'.leased :
          Connected(k) /\ server[sock[k].at] = "up" =>
              \E j \in keys'.leased \ keys.leased : sock[j].owner = sock[k].owner]_vars

(* Whatever path a message takes, local or through Redis, a client hears the messages of
   a sender once each and in the order they were sent. *)
HeardInOrder ==
    \A k \in Sockets : \A x, y \in DOMAIN heard[k] :
        (x < y /\ heard[k][x].from = heard[k][y].from /\ heard[k][y].n # 0)
            => heard[k][x].n < heard[k][y].n

(* A role does not stay with an owner who is gone: after a disconnection, a failed LEAVE
   or the loss of an instance, it is given up or has a connected socket again. *)
RolesAreFreed ==
    \A r \in Roles :
        []<>(keys.role[r] = Nobody \/ \E k \in Sockets : Connected(k) /\ RoleOf(sock[k].owner) = r)

(* "Redis cleanup and notify peers" (ScalableSignalingServer.js:827): the host that is
   connected when a player's disconnection is announced hears of it. *)
PeerIsTold ==
    \A k, h \in Sockets :
        (sock[k].phase = "tell" /\ sock[k].owner # Host /\ sock[h].owner = Host /\ Connected(h))
            ~> (~Connected(h) \/ \E x \in DOMAIN heard[h] : heard[h][x] = [from |-> k, n |-> 0])

(* A connected socket that no other connected socket of its owner has replaced can be
   heard on other instances. *)
OpenIsHeard ==
    \A k \in Sockets :
        (Connected(k) /\ server[sock[k].at] = "up"
         /\ \A j \in Sockets \ {k} : sock[j].owner = sock[k].owner => sock[j].phase \in {"unused", "done"})
            => k \in keys.leased
=============================================================================
