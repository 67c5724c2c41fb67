------------------------------ MODULE Pairing ------------------------------
(***************************************************************************)
(* Pairing by code: the host shows a code and publishes it with a          *)
(* heartbeat (Host/MatchmakerClient.cpp), the matchmaker keeps it in Redis *)
(* (HEARTBEAT_SCRIPT of Server/mm_server/Matchmaker.js), and a player who  *)
(* types it in gets the host's room and a token for it (POST               *)
(* /api/match/find, CLAIM_HOST_SCRIPT).                                    *)
(*                                                                         *)
(* One host, of capacity 1 as sendHeartbeat has it.  A script is one       *)
(* action; a handler is its code from one reply of Redis to the next       *)
(* command, and that command.  Keys expire at any time, except where a     *)
(* comment says what keeps them alive.  The set idle_hosts, which nothing  *)
(* reads but its own clean-up, is left out.                                *)
(*                                                                         *)
(* Codes and rooms are random and never drawn twice: a draw takes one that *)
(* nothing refers to any more.                                             *)
(***************************************************************************)
EXTENDS Naturals, Sequences

CONSTANTS
    Guests,     \* players at their browsers
    Codes,      \* pairing codes, 128 random bits each
    Rooms,      \* rooms, one for each start of the host
    None,       \* an expired key, no code, no room, nobody
    PairFaults, \* the failures explored, see below
    MaxFaults   \* bound: failures of requests

(* lost:   a request of the host does not arrive                           *)
(* silent: it is handled and its answer does not arrive within 5 s         *)
(* late:   it is given up by the host after 5 s and handled afterwards     *)
(* overtaken: ... and after a later one                                    *)
(* outage: the host hears no answer for longer than hostTtlSeconds         *)
(* turn:   no TURN credentials, or a crash of the matchmaker, after a claim*)
(* stop:   the host is stopped, or killed                                  *)
(* quick:  it is started again within hostTtlSeconds                       *)
ASSUME PairingAssumption ==
    /\ None \notin Codes \cup Rooms \cup Guests
    /\ PairFaults \subseteq
           {"lost", "silent", "late", "overtaken", "outage", "turn", "stop", "quick"}
    /\ MaxFaults \in Nat

VARIABLES
    \* Redis
    pairRec,    \* host:<id>              [free, room], or None
    reserved,   \* host_reservations:<id> 0 when expired
    offered,    \* the codes with a key   pairing:<hash>
    consumed,   \* pairing-consumed:<id>
    room,       \* host-room:<id>, which the signaling server asks for
    \* the host
    host,       \* its thread, the code it shows and the room it waits in
    peer,       \* whether a player is connecting or connected
    post,       \* the heartbeat under way, with its answer
    late,       \* heartbeats that were given up
    \* each player: its request to /api/match/find, or the token it got
    find,
    \* history and bound
    uses,       \* uses[c]: the claims code c was good for
    faults

redisVars == <<pairRec, reserved, offered, consumed, room>>
pairVars == <<redisVars, host, peer, post, late, find, uses, faults>>

CodeOrNone == Codes \cup {None}
RoomOrNone == Rooms \cup {None}

(* boot, reboot: StartCoreServices, before the thread runs; beat, again:   *)
(* a heartbeat of the thread and the second one after a new code; wait:    *)
(* between two beats, the presence post included.                          *)
Booting == {"boot", "reboot"}
Posting == Booting \cup {"beat", "again"}
Heartbeats == [code : Codes, room : Rooms, slots : 0..1]
PairRecords == [free : BOOLEAN, room : Rooms]

PairTypeOK ==
    /\ pairRec \in PairRecords \cup {None}
    /\ reserved \in Nat
    /\ offered \subseteq Codes
    /\ consumed \in CodeOrNone
    /\ room \in RoomOrNone
    /\ host \in [pc : Posting \cup {"off", "wait"}, code : CodeOrNone, room : RoomOrNone]
    /\ peer \in BOOLEAN
    /\ post \in [req : Heartbeats, answer : {"none", "accepted", "rotate"}] \cup {None}
    /\ late \in Seq(Heartbeats)
    /\ find \in [Guests -> [pc : {"idle", "claim", "turn", "token"}, code : CodeOrNone, room : RoomOrNone]]
    /\ uses \in [Codes -> Nat]
    /\ faults \in 0..MaxFaults

NoFind == [pc |-> "idle", code |-> None, room |-> None]

PairInit ==
    /\ pairRec = None /\ reserved = 0 /\ offered = {} /\ consumed = None /\ room = None
    /\ host = [pc |-> "off", code |-> None, room |-> None]
    /\ peer = FALSE /\ post = None /\ late = <<>>
    /\ find = [p \in Guests |-> NoFind]
    /\ uses = [c \in Codes |-> 0]
    /\ faults = 0

LateOnes == {late[i] : i \in DOMAIN late}

(* generateRoomId: 16 random bytes.                                        *)
CodesAround ==
    offered \cup {consumed, host.code} \cup {r.code : r \in LateOnes} \cup {find[p].code : p \in Guests}
RoomsAround ==
    {room, host.room} \cup {find[p].room : p \in Guests}
        \cup {r.room : r \in LateOnes} \cup (IF pairRec = None THEN {} ELSE {pairRec.room})
        \cup (IF post = None THEN {} ELSE {post.req.room})
FreshCodes == Codes \ CodesAround
FreshRooms == Rooms \ RoomsAround

Fails(fault) ==
    /\ fault \in PairFaults
    /\ faults < MaxFaults
    /\ faults' = faults + 1

-----------------------------------------------------------------------------
(* The scripts.                                                            *)

(* Mutant: reservations are not subtracted.                                *)
AvailableUnreserved(slots) == slots

Available(slots) == IF reserved > 0 THEN 0 ELSE slots

(* Mutant: the code is published although it was used.                     *)
HeartbeatReoffers(r) ==
    LET available == Available(r.slots)
    IN  /\ pairRec' = [free |-> available > 0, room |-> r.room]
        /\ offered' = IF available > 0 THEN offered \cup {r.code} ELSE offered \ {r.code}
        /\ consumed' = IF consumed = r.code THEN consumed ELSE None
        /\ room' = r.room

(* HEARTBEAT_SCRIPT: reservations count against the slots; a code that is  *)
(* marked as consumed is withdrawn, any other one clears the mark.         *)
HeartbeatScript(r) ==
    LET available == Available(r.slots)
        used == consumed = r.code
    IN  /\ pairRec' = [free |-> available > 0, room |-> r.room]
        /\ offered' = IF available > 0 /\ ~used THEN offered \cup {r.code}
                      ELSE offered \ {r.code}
        /\ consumed' = IF used THEN consumed ELSE None
        /\ room' = r.room

(* CLAIM_HOST_SCRIPT when the host has a slot: taken, reserved for         *)
(* allocationReservationSeconds, and the code marked.                      *)
ClaimHostScript(c) ==
    /\ pairRec' = [pairRec EXCEPT !.free = FALSE]
    /\ reserved' = reserved + 1
    /\ offered' = offered \ {c}
    /\ consumed' = c

-----------------------------------------------------------------------------
(* The host: HostRuntime::Start and Stop, heartbeatLoop, sendHeartbeat.    *)

(* sendHeartbeat: the slot is free unless a peer is connecting, connected. *)
Heartbeat(c, r) == [code |-> c, room |-> r, slots |-> IF peer THEN 0 ELSE 1]

SendHeartbeat(pc, c, r) ==
    /\ host' = [pc |-> pc, code |-> c, room |-> r]
    /\ post' = [req |-> Heartbeat(c, r), answer |-> "none"]

(* What an earlier run published or sent is gone, unless it ran a moment   *)
(* ago.                                                                    *)
StartHost ==
    /\ host.pc = "off"
    /\ (offered = {} /\ late = <<>>) \/ "quick" \in PairFaults
    /\ \E c \in FreshCodes, r \in FreshRooms :
        /\ SendHeartbeat("boot", c, r)
        /\ uses' = [uses EXCEPT ![c] = 0]
    /\ UNCHANGED <<redisVars, peer, late, find, faults>>

Beat ==
    /\ host.pc = "wait"
    /\ SendHeartbeat("beat", host.code, host.room)
    /\ UNCHANGED <<redisVars, peer, late, find, uses, faults>>

(* The commands of one matchmaker reach Redis in the order of the requests *)
(* (a reconnecting client keeps them in a queue).                          *)
HandleHeartbeat ==
    /\ post # None
    /\ post.answer = "none"
    /\ late = <<>> \/ "overtaken" \in PairFaults
    /\ HeartbeatScript(post.req)
    /\ post' = [post EXCEPT !.answer = IF consumed = post.req.code THEN "rotate" ELSE "accepted"]
    /\ UNCHANGED <<reserved, host, peer, late, find, uses, faults>>

Answered == post # None /\ post.answer # "none"

(* An answer that asks for nothing, or to the second heartbeat, whose      *)
(* result is not looked at.                                                *)
HostAccepts ==
    /\ Answered
    /\ post.answer = "accepted" \/ host.pc \in {"again", "reboot"}
    /\ host' = [host EXCEPT !.pc = "wait"]
    /\ post' = None
    /\ UNCHANGED <<redisVars, peer, late, find, uses, faults>>

(* Mutant: the host goes on with the code it has.                          *)
HostKeepsCode ==
    /\ Answered
    /\ post.answer = "rotate" /\ host.pc \in {"boot", "beat"}
    /\ host' = [host EXCEPT !.pc = "wait"]
    /\ post' = None
    /\ UNCHANGED <<redisVars, peer, late, find, uses, faults>>

(* RotatePairingCode: a new code is drawn, shown and published.            *)
HostRotates ==
    /\ Answered
    /\ post.answer = "rotate" /\ host.pc \in {"boot", "beat"}
    /\ \E c \in FreshCodes :
        /\ SendHeartbeat(IF host.pc = "boot" THEN "reboot" ELSE "again", c, host.room)
        /\ uses' = [uses EXCEPT ![c] = 0]
    /\ UNCHANGED <<redisVars, peer, late, find, faults>>

(* HeartbeatResult::Failed: no answer, or an error.  A start is undone, the*)
(* thread goes on.                                                         *)
HostGivesUp ==
    /\ post' = None
    /\ host' = IF host.pc \in Booting THEN [pc |-> "off", code |-> None, room |-> None]
               ELSE [host EXCEPT !.pc = "wait"]
    /\ UNCHANGED <<redisVars, peer, find, uses>>

PostFails ==
    /\ post # None
    /\ HostGivesUp
    /\ \/ post.answer = "none" /\ Fails("lost") /\ UNCHANGED late
       \/ Answered /\ Fails("silent") /\ UNCHANGED late
       \/ post.answer = "none" /\ Fails("late") /\ late' = Append(late, post.req)

(* The request of a host that has given it up is handled all the same.     *)
HandleLate ==
    /\ \E i \in DOMAIN late :
        /\ i = 1 \/ "overtaken" \in PairFaults
        /\ HeartbeatScript(late[i])
        /\ late' = SubSeq(late, 1, i - 1) \o SubSeq(late, i + 1, Len(late))
    /\ UNCHANGED <<reserved, host, peer, post, find, uses, faults>>

(* A stop; what was sent may still arrive.                                 *)
StopHost ==
    /\ host.pc # "off"
    /\ Fails("stop")
    /\ host' = [pc |-> "off", code |-> None, room |-> None]
    /\ peer' = FALSE
    /\ post' = None
    /\ late' \in {late} \cup IF post # None /\ post.answer = "none" /\ "late" \in PairFaults
                             THEN {Append(late, post.req)} ELSE {}
    /\ UNCHANGED <<redisVars, find, uses>>

-----------------------------------------------------------------------------
(* POST /api/match/find.                                                   *)

(* The code is looked up; 404 when there is none.                          *)
Look(p, c) ==
    /\ find[p].pc = "idle"
    /\ c \in offered
    /\ find' = [find EXCEPT ![p] = [pc |-> "claim", code |-> c, room |-> None]]
    /\ UNCHANGED <<redisVars, host, peer, post, late, uses, faults>>

HostIsFree == pairRec # None /\ pairRec.free

ClaimCode(p) ==
    /\ find[p].pc = "claim"
    /\ HostIsFree
    /\ ClaimHostScript(find[p].code)
    /\ uses' = [uses EXCEPT ![find[p].code] = @ + 1]
    /\ find' = [find EXCEPT ![p] = [pc |-> "turn", code |-> None, room |-> pairRec.room]]
    /\ UNCHANGED <<room, host, peer, post, late, faults>>

(* The script returns nil: 404.                                            *)
ClaimRefused(p) ==
    /\ find[p].pc = "claim"
    /\ ~HostIsFree
    /\ find' = [find EXCEPT ![p] = NoFind]
    /\ UNCHANGED <<redisVars, host, peer, post, late, uses, faults>>

(* getIceServers and the token.                                            *)
Grant(p) ==
    /\ find[p].pc = "turn"
    /\ find' = [find EXCEPT ![p].pc = "token"]
    /\ UNCHANGED <<redisVars, host, peer, post, late, uses, faults>>

(* getIceServers throws in production: 500, and the claim stays.           *)
GrantFails(p) ==
    /\ find[p].pc = "turn"
    /\ Fails("turn")
    /\ find' = [find EXCEPT ![p] = NoFind]
    /\ UNCHANGED <<redisVars, host, peer, post, late, uses>>

-----------------------------------------------------------------------------
(* The player takes the token to the signaling server, once; the host may  *)
(* be gone, be in another room by now, or answer to somebody else.         *)
Connect(p) ==
    /\ find[p].pc = "token"
    /\ find' = [find EXCEPT ![p] = NoFind]
    /\ peer' = (peer \/ (find[p].room = host.room /\ host.pc \in {"wait", "beat", "again"}))
    /\ UNCHANGED <<redisVars, host, post, late, uses, faults>>

Disconnect ==
    /\ peer
    /\ peer' = FALSE
    /\ UNCHANGED <<redisVars, host, post, late, find, uses, faults>>

-----------------------------------------------------------------------------
(* Expiries.                                                               *)

(* The keys a heartbeat writes, hostTtlSeconds after the last one; the     *)
(* record lives longer when a claim wrote it since.                        *)
PublicationExpires ==
    /\ room # None
    /\ room' = None
    /\ offered' = {}
    /\ pairRec' \in {pairRec, None}
    /\ UNCHANGED <<reserved, consumed, host, peer, post, late, find, uses, faults>>

RecordExpires ==
    /\ pairRec # None /\ room = None
    /\ pairRec' = None
    /\ UNCHANGED <<reserved, offered, consumed, room, host, peer, post, late, find, uses, faults>>

(* A code the host does not publish any more.                              *)
OldCodeExpires(c) ==
    /\ c \in offered /\ c # host.code
    /\ offered' = offered \ {c}
    /\ UNCHANGED <<pairRec, reserved, consumed, room, host, peer, post, late, find, uses, faults>>

(* The mark lives hostTtlSeconds (60) from the claim: longer than any      *)
(* request, and three beats of the host, one of which is answered, unless  *)
(* there is an outage.                                                     *)
MarkExpires ==
    /\ consumed # None
    /\ consumed \notin {host.code} \cup {r.code : r \in LateOnes} \/ "outage" \in PairFaults
    /\ consumed' = None
    /\ UNCHANGED <<pairRec, reserved, offered, room, host, peer, post, late, find, uses, faults>>

(* Twenty seconds after the claim; a handler issues its claim at once when *)
(* it has the answer to its lookup.                                        *)
ReservationExpires ==
    /\ reserved > 0
    /\ \A p \in Guests : find[p].pc # "claim"
    /\ reserved' = 0
    /\ UNCHANGED <<pairRec, offered, consumed, room, host, peer, post, late, find, uses, faults>>

-----------------------------------------------------------------------------
PairNext ==
    \/ StartHost \/ Beat \/ HandleHeartbeat \/ HostAccepts \/ HostRotates
    \/ PostFails \/ HandleLate \/ StopHost
    \/ \E p \in Guests, c \in Codes : Look(p, c)
    \/ \E p \in Guests : ClaimCode(p) \/ ClaimRefused(p) \/ Grant(p) \/ GrantFails(p) \/ Connect(p)
    \/ Disconnect
    \/ PublicationExpires \/ RecordExpires \/ MarkExpires \/ ReservationExpires
    \/ \E c \in Codes : OldCodeExpires(c)

PairSpec == PairInit /\ [][PairNext]_pairVars

(* The thread of the host runs, requests are handled and answered unless   *)
(* they fail, handlers proceed, what nobody renews expires. Nobody has to  *)
(* ask, to connect or to leave.                                            *)
PairFairness ==
    /\ WF_pairVars(Beat) /\ WF_pairVars(HandleHeartbeat) /\ WF_pairVars(HandleLate)
    /\ WF_pairVars(HostAccepts) /\ WF_pairVars(HostRotates)
    /\ \A p \in Guests : WF_pairVars(ClaimCode(p)) /\ WF_pairVars(ClaimRefused(p))
                        /\ WF_pairVars(Grant(p))
    /\ \A c \in Codes : WF_pairVars(OldCodeExpires(c))
    /\ SF_pairVars(ReservationExpires)

PairFairSpec == PairSpec /\ PairFairness

-----------------------------------------------------------------------------
(* A code is good for one claim: it is withdrawn by the claim and not      *)
(* published again by the heartbeats of the host that has not heard of it  *)
(* yet, whatever else is looked up, claimed, lost or expired meanwhile     *)
(* (Matchmaker.js:311-321; pairing-rotation.test.js: "keeps a consumed code*)
(* unavailable until the host publishes a new code").                      *)
CodeUsedOnce == \A c \in Codes : uses[c] <= 1

(* Two players do not hold a reservation of the one slot at a time, with   *)
(* the same code or with two (README.md:176).                              *)
ReservedOnce == reserved <= 1

Findable ==
    /\ pairRec # None /\ pairRec.free /\ pairRec.room = host.room
    /\ host.code \in offered
    /\ room = host.room

(* A running host that serves nobody can be found again and again, by the  *)
(* code it shows and in the room it waits in: after a player who claimed   *)
(* it and never came, a claim whose token was never delivered, answers that*)
(* were lost and keys that expired.                                        *)
FoundAgain == []<>(host.pc \in {"off"} \cup Booting \/ peer \/ Findable)
=============================================================================
