---------------------------- MODULE Marketplace ----------------------------
(***************************************************************************)
(* The marketplace sessions of Server/mm_server/Matchmaker.js, with the    *)
(* Redis scripts they call (OrchestrationStore) and the host agents at the *)
(* other end of the control sockets (HostAgent).                           *)
(*                                                                         *)
(* The matchmaker is one Node process with one Redis connection: between   *)
(* two awaits a handler runs alone, and Redis executes the commands in the *)
(* order they are issued.  A step of a handler is therefore its code from  *)
(* one reply up to the next command, and that command.  A handler awaiting *)
(* a reply occupies a slot of `task`; steps of different slots interleave. *)
(***************************************************************************)
EXTENDS OrchestrationStore, HostAgent

CONSTANTS
    Slots,        \* bound: handlers in progress at a time
    MaxCommands   \* bound: commands on their way to a host when a player cancels

ASSUME MarketplaceAssumption == MaxCommands \in Nat

VARIABLES
    playerLock,  \* playerLock[p]: market:player-session:<p>
    prepDL,      \* market:session-prepare-deadlines
    sessDL,      \* market:session-deadlines
    discDL,      \* market:host-disconnect-deadlines
    clients,     \* clients[h]: the connection in controlGateway.clients, 0 if none
    asked,       \* the sessions that have been requested
    task         \* task[t]: the handler in slot t

marketVars == <<playerLock, prepDL, sessDL, discDL, clients, asked, task>>
vars == <<storeVars, hostVars, marketVars>>

-----------------------------------------------------------------------------
(* A handler in progress: the step it resumes at, why it runs (a host      *)
(* event, a request, or a timer), its session and its copy of the record,  *)
(* the host and connection whose event or deadline it handles, the host it *)
(* has claimed and the candidates it has left.                             *)
Timers == {"prepare_timeout", "duration_expired", "host_disconnected"}
Kinds == EventTypes \cup Timers \cup {"create", "delete"}
Steps == {"load", "loadLeased", "judge", "orphan", "unarm", "find", "claim", "send", "arm",
          "getLock", "delLock", "save", "unduration", "undisconnect"}
Task == [pc : Steps, kind : Kinds, s : SessionOrNone, rec : SessionRecords,
         host : Hosts \cup {NoHost}, conn : 0 .. MaxConn,
         cand : Hosts \cup {NoHost}, cands : SUBSET Hosts]
Done == [pc |-> "done"]
NewTask(pc, kind, s) ==
    [pc |-> pc, kind |-> kind, s |-> s, rec |-> NoSessionRecord,
     host |-> NoHost, conn |-> 0, cand |-> NoHost, cands |-> {}]

TypeOK ==
    /\ StoreTypeOK
    /\ HostTypeOK
    /\ playerLock \in [Players -> SessionOrNone]
    /\ prepDL \subseteq Sessions
    /\ sessDL \subseteq Sessions
    /\ discDL \subseteq Hosts
    /\ clients \in [Hosts -> 0 .. MaxConn]
    /\ asked \subseteq Sessions
    /\ \A t \in Slots : task[t] = Done \/ task[t] \in Task

Init ==
    /\ StoreInit
    /\ HostInit
    /\ playerLock = [p \in Players |-> NoSession]
    /\ prepDL = {} /\ sessDL = {} /\ discDL = {}
    /\ clients = [h \in Hosts |-> 0]
    /\ asked = {}
    /\ task = [t \in Slots |-> Done]

Goto(t, r) == task' = [task EXCEPT ![t] = r]
Connected(h) == clients[h] # 0

(* controlGateway.send: the command reaches the host only if the socket    *)
(* the matchmaker holds is still the one the host has open.                *)
Command(h, type, s) ==
    inbox' = IF Connected(h) /\ link[h] = clients[h]
             THEN [inbox EXCEPT ![h] = Append(@, [type |-> type, s |-> s])]
             ELSE inbox

Running(t) == task[t] # Done
Busy(s) == \E t \in Slots : Running(t) /\ task[t].s = s

OnlyHosts == <<up, link, conns, posts, active, phase>>                \* not inbox, events
marketRest == <<playerLock, prepDL, sessDL, discDL, clients, asked>>  \* not task

-----------------------------------------------------------------------------
(* Starting a handler.                                                     *)

(* POST /sessions: SET NX on the player's key.                             *)
CreateSession(t, s) ==
    /\ ~Running(t)
    /\ s \notin asked
    /\ asked' = asked \cup {s}
    /\ IF playerLock[PlayerOf[s]] = NoSession
       THEN /\ playerLock' = [playerLock EXCEPT ![PlayerOf[s]] = s]
            /\ Goto(t, [NewTask("find", "create", s) EXCEPT !.rec = NewSession])
       ELSE UNCHANGED <<playerLock, task>>
    /\ UNCHANGED <<storeVars, hostVars, prepDL, sessDL, discDL, clients>>

(* DELETE /sessions/:id, as often as the player likes: the id is in the 202*)
(* answer and in the 409 of another request.  A session that is over is    *)
(* only answered.                                                          *)
Live == SessionStates \ Terminal

DeleteSession(t, s) ==
    /\ "cancel" \in Faults
    /\ ~Running(t)
    /\ record[s].state \in Live
    /\ Len(inbox[record[s].host]) < MaxCommands
    /\ Goto(t, [NewTask("judge", "delete", s) EXCEPT !.rec = record[s]])
    /\ UNCHANGED <<storeVars, hostVars, marketRest>>

(* The events of a connection are handled one after the other (the promise *)
(* chain of accept), those of different connections are not.               *)
Handling(h, k) ==
    \E t \in Slots : Running(t) /\ task[t].kind \in EventTypes
                     /\ task[t].host = h /\ task[t].conn = k

TakeEvent(t, h, k) ==
    /\ ~Running(t)
    /\ events[h][k] # <<>> /\ ~Handling(h, k)
    /\ events' = [events EXCEPT ![h][k] = Tail(@)]
    /\ LET e == Head(events[h][k])
           New(pc, s, rec) == Goto(t, [NewTask(pc, e.type, s) EXCEPT
                                        !.host = h, !.conn = k, !.rec = rec])
       IN  IF e.type # "host.hello"
           THEN New("judge", e.s, record[e.s])
           ELSE \/ /\ e.s = lease[h]
                   /\ UNCHANGED task
                \/ /\ e.s # lease[h] /\ e.s # NoSession
                   /\ New("orphan", e.s, NoSessionRecord)
                \/ /\ e.s # lease[h] /\ e.s = NoSession
                   /\ New("loadLeased", lease[h], NoSessionRecord)
    /\ UNCHANGED <<storeVars, inbox, OnlyHosts, marketRest>>

(* The timers find an id of their sorted set due; when they come to load   *)
(* it, it may no longer be there.                                          *)
Scan(t, kind, s, h) ==
    /\ ~Running(t)
    /\ Goto(t, [NewTask("load", kind, s) EXCEPT !.host = h])
    /\ UNCHANGED <<storeVars, hostVars, marketRest>>

ScanPreparations(t) == \E s \in prepDL : Scan(t, "prepare_timeout", s, NoHost)
ScanSessions(t) == \E s \in sessDL : Scan(t, "duration_expired", s, NoHost)
ScanDisconnected(t) == \E h \in discDL : Scan(t, "host_disconnected", NoSession, h)

-----------------------------------------------------------------------------
(* Resuming a handler.                                                     *)
At(t, pc) == Running(t) /\ task[t].pc = pc

(* expireDisconnectedHosts goes on to forget the host's deadline.          *)
Finished(r) ==
    IF r.kind = "host_disconnected"
    THEN [NewTask("undisconnect", r.kind, NoSession) EXCEPT !.host = r.host]
    ELSE Done

(* The loops of expireSessions and expirePreparations load the record; the *)
(* one of expireDisconnectedHosts drops the deadline of a host that has    *)
(* come back, and otherwise reads its lease.                               *)
Load(t) ==
    LET r == task[t]
    IN  /\ At(t, "load")
        /\ IF r.kind # "host_disconnected"
           THEN Goto(t, [r EXCEPT !.pc = "judge", !.rec = record[r.s]]) /\ UNCHANGED discDL
           ELSE IF Connected(r.host)
           THEN Goto(t, Done) /\ discDL' = discDL \ {r.host}
           ELSE /\ Goto(t, IF Leased(r.host)
                           THEN [r EXCEPT !.pc = "loadLeased", !.s = lease[r.host]]
                           ELSE Finished(r))
                /\ UNCHANGED discDL
        /\ UNCHANGED <<storeVars, hostVars, playerLock, prepDL, sessDL, clients, asked>>

LoadLeased(t) ==
    /\ At(t, "loadLeased")
    /\ Goto(t, [task[t] EXCEPT !.pc = "judge", !.rec = record[task[t].s]])
    /\ UNCHANGED <<storeVars, hostVars, marketRest>>

(* A host that runs a session it holds no lease for is told to stop.       *)
StopOrphan(t) ==
    /\ At(t, "orphan")
    /\ Command(task[t].host, "session.stop", task[t].s)
    /\ Goto(t, Done)
    /\ UNCHANGED <<storeVars, events, OnlyHosts, marketRest>>

(* Mutant: a session that is over is handled like any other.               *)
StaleUnlessOver(r) ==
    \/ r.rec.state = "none"
    \/ r.kind = "prepare_timeout" /\ r.rec.state \notin Assigning
    \/ r.kind = "duration_expired" /\ r.rec.state # "active"
    \/ r.kind \in EventTypes \ {"host.hello"} /\ r.rec.host # r.host

(* The loaded record asks for nothing (any more).                          *)
Stale(r) ==
    \/ r.rec.state \in Terminal \cup {"none"}
    \/ r.kind = "prepare_timeout" /\ r.rec.state \notin Assigning
    \/ r.kind = "duration_expired" /\ r.rec.state # "active"
    \/ r.kind \in EventTypes \ {"host.hello"} /\ r.rec.host # r.host

Ignore(t) ==
    LET r == task[t]
    IN  /\ At(t, "judge") /\ Stale(r)
        /\ prepDL' = IF r.kind = "prepare_timeout" THEN prepDL \ {r.s} ELSE prepDL
        /\ sessDL' = IF r.kind = "duration_expired" THEN sessDL \ {r.s} ELSE sessDL
        /\ Goto(t, Finished(r))
        /\ UNCHANGED <<storeVars, hostVars, playerLock, discDL, clients, asked>>

Judged(t, kinds) == At(t, "judge") /\ ~Stale(task[t]) /\ task[t].kind \in kinds

(* session.launch_ack, session.game_ready and session.stream_connected:    *)
(* the record moves forward or is saved as it is.  A deadline command comes*)
(* before the save.                                                        *)
Acknowledge(t) ==
    LET r == task[t]
    IN  /\ Judged(t, {"session.launch_ack"})
        /\ SaveRecord(r.s, [r.rec EXCEPT !.state = IF @ \in Assigning THEN "preparing" ELSE @])
        /\ Goto(t, Done)
        /\ UNCHANGED <<hostVars, marketRest>>

BecomeReady(t) ==
    LET r == task[t]
    IN  /\ Judged(t, {"session.game_ready"})
        /\ IF r.rec.state \in Assigning
           THEN /\ prepDL' = prepDL \ {r.s}
                /\ Goto(t, [r EXCEPT !.pc = "save", !.rec.state = "ready"])
                /\ UNCHANGED storeVars
           ELSE SaveRecord(r.s, r.rec) /\ Goto(t, Done) /\ UNCHANGED prepDL
        /\ UNCHANGED <<hostVars, playerLock, sessDL, discDL, clients, asked>>

BecomeActive(t) ==
    LET r == task[t]
    IN  /\ Judged(t, {"session.stream_connected"})
        /\ IF r.rec.state \in Assigning \cup {"ready"}
           THEN /\ sessDL' = sessDL \cup {r.s}
                /\ Goto(t, [r EXCEPT !.pc = "save", !.rec.state = "active"])
                /\ UNCHANGED storeVars
           ELSE SaveRecord(r.s, r.rec) /\ Goto(t, Done) /\ UNCHANGED sessDL
        /\ UNCHANGED <<hostVars, playerLock, prepDL, discDL, clients, asked>>

(* session.ended: the host is released, then the deadlines, the player's   *)
(* key and the record follow.                                              *)
EndSession(t) ==
    LET r == task[t]
    IN  /\ Judged(t, {"session.ended"})
        /\ ReleaseScript(r.host, r.s)
        /\ Goto(t, [r EXCEPT !.pc = "unarm", !.rec.state = "ended"])
        /\ UNCHANGED <<hostVars, marketRest>>

(* failOrRetrySession, as far as its first command: the host is released   *)
(* at once, whatever it is doing.  expirePreparations sends a stop first.  *)
FailOrRetry(t) ==
    LET r == task[t]
    IN  /\ Judged(t, {"session.failed", "host.hello", "prepare_timeout", "host_disconnected"})
        /\ IF r.kind = "prepare_timeout"
           THEN Command(r.rec.host, "session.stop", r.s)
           ELSE UNCHANGED inbox
        /\ ReleaseScript(r.rec.host, r.s)
        /\ Goto(t, [r EXCEPT !.pc = "unarm",
                             !.rec.state = IF @ \in {"active", "ending"} THEN "failed"
                                           ELSE "allocating"])
        /\ UNCHANGED <<events, OnlyHosts, marketRest>>

(* The session leaves both deadline sets.  (Two ZREMs.)                    *)
Unarm(t) ==
    LET r == task[t]
    IN  /\ At(t, "unarm")
        /\ prepDL' = prepDL \ {r.s}
        /\ sessDL' = sessDL \ {r.s}
        /\ Goto(t, [r EXCEPT !.pc = IF r.rec.state = "allocating" THEN "find" ELSE "getLock"])
        /\ UNCHANGED <<storeVars, hostVars, playerLock, discDL, clients, asked>>

(* allocateSession: the candidates are the listed hosts not yet tried that *)
(* have a record and a control connection.  Their order, by latency, is    *)
(* left open, and SMEMBERS and the GETs are one step: CLAIM_SCRIPT checks  *)
(* again all they found.  With none left the session fails.                *)
TryNext(r) ==
    IF r.cands # {} THEN [r EXCEPT !.pc = "claim", !.cand = NoHost]
    ELSE [r EXCEPT !.pc = "getLock", !.cand = NoHost, !.rec.state = "failed"]

FindHosts(t) ==
    LET r == task[t]
    IN  /\ At(t, "find")
        /\ Goto(t, TryNext([r EXCEPT !.cands =
                {h \in idleHosts[GameOf[r.s]] \ r.rec.tried :
                    hostRec[h].state # "absent" /\ Connected(h)}]))
        /\ UNCHANGED <<storeVars, hostVars, marketRest>>

(* The copy of the record a claim or a sent prepare writes.                *)
Allocated(r, h, state) == [r.rec EXCEPT !.state = state, !.host = h]

Claim(t, h) ==
    /\ At(t, "claim")
    /\ h \in task[t].cands
    /\ LET r == [task[t] EXCEPT !.cands = @ \ {h}, !.cand = h, !.rec.tried = @ \cup {h}]
       IN  IF Claimable(h, r.s)
           THEN /\ ClaimScript(h, r.s, Allocated(r, h, "reserved"))
                /\ Goto(t, [r EXCEPT !.pc = "send"])
           ELSE UNCHANGED storeVars /\ Goto(t, TryNext(r))
    /\ UNCHANGED <<hostVars, marketRest>>

(* The prepare command is sent and the record saved, or the claim is undone*)
SendPrepare(t) ==
    LET r == task[t]
    IN  /\ At(t, "send")
        /\ IF Connected(r.cand)
           THEN /\ Command(r.cand, "session.prepare", r.s)
                /\ SaveRecord(r.s, Allocated(r, r.cand, "preparing"))
                /\ Goto(t, [r EXCEPT !.pc = "arm", !.cand = NoHost, !.cands = {}])
           ELSE /\ ReleaseScript(r.cand, r.s)
                /\ Goto(t, TryNext(r))
                /\ UNCHANGED inbox
        /\ UNCHANGED <<events, OnlyHosts, marketRest>>

Arm(t) ==
    /\ At(t, "arm")
    /\ prepDL' = prepDL \cup {task[t].s}
    /\ Goto(t, Finished(task[t]))
    /\ UNCHANGED <<storeVars, hostVars, playerLock, sessDL, discDL, clients, asked>>

(* DELETE: the host is told to stop, then as releasePlayer.                *)
Cancel(t) ==
    LET r == task[t]
    IN  /\ Judged(t, {"delete"})
        /\ Command(r.rec.host, "session.stop", r.s)
        /\ Goto(t, [r EXCEPT !.pc = "getLock", !.rec.state = "ending"])
        /\ UNCHANGED <<storeVars, events, OnlyHosts, marketRest>>

(* releasePlayer reads the key, then deletes it if it was the session's    *)
(* own.  What follows is the last save, except for a request that found no *)
(* host, which only answers.                                               *)
AfterLock(r) == IF r.kind = "create" THEN Done ELSE [r EXCEPT !.pc = "save"]

GetLock(t) ==
    LET r == task[t]
    IN  /\ At(t, "getLock")
        /\ Goto(t, IF playerLock[PlayerOf[r.s]] = r.s THEN [r EXCEPT !.pc = "delLock"]
                   ELSE AfterLock(r))
        /\ UNCHANGED <<storeVars, hostVars, marketRest>>

DelLock(t) ==
    LET r == task[t]
    IN  /\ At(t, "delLock")
        /\ playerLock' = [playerLock EXCEPT ![PlayerOf[r.s]] = NoSession]
        /\ Goto(t, AfterLock(r))
        /\ UNCHANGED <<storeVars, hostVars, prepDL, sessDL, discDL, clients, asked>>

Save(t) ==
    LET r == task[t]
    IN  /\ At(t, "save")
        /\ SaveRecord(r.s, r.rec)
        /\ Goto(t, Finished(r))
        /\ UNCHANGED <<hostVars, marketRest>>

(* expireSessions: an active session is told to stop and becomes ending;   *)
(* its deadline goes.                                                      *)
ExpireDuration(t) ==
    LET r == task[t]
    IN  /\ Judged(t, {"duration_expired"})
        /\ Command(r.rec.host, "session.stop", r.s)
        /\ SaveRecord(r.s, [r.rec EXCEPT !.state = "ending"])
        /\ Goto(t, [r EXCEPT !.pc = "unduration"])
        /\ UNCHANGED <<events, OnlyHosts, marketRest>>

Unduration(t) ==
    /\ At(t, "unduration")
    /\ sessDL' = sessDL \ {task[t].s}
    /\ Goto(t, Done)
    /\ UNCHANGED <<storeVars, hostVars, playerLock, prepDL, discDL, clients, asked>>

Undisconnect(t) ==
    /\ At(t, "undisconnect")
    /\ discDL' = discDL \ {task[t].host}
    /\ Goto(t, Done)
    /\ UNCHANGED <<storeVars, hostVars, playerLock, prepDL, sessDL, clients, asked>>

-----------------------------------------------------------------------------
(* The control connections, as the matchmaker sees them.                   *)

(* accept: the new connection replaces the one in clients, whose close     *)
(* event is then ignored; the host's deadline goes; control.ready is sent. *)
Accept(h) ==
    /\ h \in up /\ link[h] = 0
    /\ conns[h] < MaxConn
    /\ conns' = [conns EXCEPT ![h] = @ + 1]
    /\ link' = [link EXCEPT ![h] = conns[h] + 1]
    /\ clients' = [clients EXCEPT ![h] = conns[h] + 1]
    /\ discDL' = discDL \ {h}
    /\ inbox' = [inbox EXCEPT ![h] = Append(@, [type |-> "control.ready", s |-> NoSession])]
    /\ UNCHANGED <<storeVars, up, events, posts, active, phase,
                   playerLock, prepDL, sessDL, asked, task>>

(* The close event of the connection in clients starts the grace period.   *)
Closed(h) ==
    /\ Connected(h) /\ link[h] # clients[h]
    /\ clients' = [clients EXCEPT ![h] = 0]
    /\ discDL' = discDL \cup {h}
    /\ UNCHANGED <<storeVars, hostVars, playerLock, prepDL, sessDL, asked, task>>

(* POST /host/presence reaches PRESENCE_SCRIPT.                            *)
TakePresence(h, st) ==
    /\ st \in posts[h] \/ (h \in up /\ st = PresenceState(h))
    /\ PresenceScript(h, st, Offers[h])
    /\ posts' = [posts EXCEPT ![h] = @ \ {st}]
    /\ UNCHANGED <<up, link, conns, inbox, events, active, phase, marketVars>>

(* Redis forgets a host that sends no presence, and a lease durationSeconds*)
(* + 300 after its claim, whatever has become of the session.              *)
PresenceExpires(h) ==
    /\ h \notin up /\ posts[h] = {}
    /\ HostRecordExpires(h)
    /\ UNCHANGED <<hostVars, marketVars>>

LeaseLapses(h) ==
    /\ LeaseExpires(h)
    /\ UNCHANGED <<hostVars, marketVars>>

(* The matchmaker restarts: its handlers, its sockets and what was on them *)
(* are gone, Redis keeps its keys.  No close event is handled.             *)
Restart ==
    /\ "restart" \in Faults
    /\ task' = [t \in Slots |-> Done]
    /\ clients' = [h \in Hosts |-> 0]
    /\ link' = [h \in Hosts |-> 0]
    /\ events' = [h \in Hosts |-> [k \in Conns |-> <<>>]]
    /\ \E cut \in SUBSET Hosts :
          inbox' = [h \in Hosts |-> IF h \in cut THEN <<>> ELSE inbox[h]]
    /\ UNCHANGED <<storeVars, up, conns, posts, active, phase,
                   playerLock, prepDL, sessDL, discDL, asked>>

-----------------------------------------------------------------------------
Resume(t) ==
    \/ Load(t) \/ LoadLeased(t) \/ StopOrphan(t) \/ Ignore(t)
    \/ Acknowledge(t) \/ BecomeReady(t) \/ BecomeActive(t) \/ EndSession(t)
    \/ FailOrRetry(t) \/ Unarm(t)
    \/ FindHosts(t) \/ (\E h \in Hosts : Claim(t, h)) \/ SendPrepare(t) \/ Arm(t)
    \/ Cancel(t) \/ GetLock(t) \/ DelLock(t) \/ Save(t)
    \/ ExpireDuration(t) \/ Unduration(t) \/ Undisconnect(t)

TakeEvents(t) == \E h \in Hosts, k \in Conns : TakeEvent(t, h, k)

HostNext(h) == HostStep(h) /\ UNCHANGED <<storeVars, marketVars>>

Next ==
    \/ \E t \in Slots :
        \/ \E s \in Sessions : CreateSession(t, s) \/ DeleteSession(t, s)
        \/ TakeEvents(t)
        \/ ScanPreparations(t) \/ ScanSessions(t) \/ ScanDisconnected(t)
        \/ Resume(t)
    \/ \E h \in Hosts :
        \/ HostNext(h)
        \/ Accept(h) \/ Closed(h)
        \/ \E st \in HostStates : TakePresence(h, st)
        \/ PresenceExpires(h) \/ LeaseLapses(h)
    \/ Restart

Spec == Init /\ [][Next]_vars

(* What brings a host back without any handler of its session: the main    *)
(* loop of a running host takes its commands, finishes a cleanup, and      *)
(* reaches its two deadlines; its heartbeat thread posts; a lease lapses.  *)
(* Handlers in progress get their replies.  No event, timer, close of a    *)
(* socket or reconnection is relied on.                                    *)
Fairness ==
    /\ \A t \in Slots : WF_vars(Resume(t))
    /\ \A h \in Hosts :
        /\ WF_vars(HostObeys(h) /\ UNCHANGED <<storeVars, marketVars>>)
        /\ WF_vars(TakePresence(h, PresenceState(h)))
        /\ WF_vars(LeaseLapses(h))

LiveSpec == Spec /\ Fairness

(* Besides, events queued on a connection are handled and the one-second   *)
(* timers fire, whatever else occupies the slots, and a broken connection  *)
(* is noticed.                                                             *)
ServedSpec ==
    /\ LiveSpec
    /\ \A h \in Hosts, k \in Conns : SF_vars(\E t \in Slots : TakeEvent(t, h, k))
    /\ \A s \in Sessions :
        /\ SF_vars(\E t \in Slots : s \in prepDL /\ Scan(t, "prepare_timeout", s, NoHost))
        /\ SF_vars(\E t \in Slots : s \in sessDL /\ Scan(t, "duration_expired", s, NoHost))
    /\ \A h \in Hosts :
        /\ SF_vars(\E t \in Slots : h \in discDL /\ Scan(t, "host_disconnected", NoSession, h))
        /\ WF_vars(Closed(h))

-----------------------------------------------------------------------------
(* A host is let go by a handler of the session that holds it, or by its   *)
(* expiry: a handler of another session that had it before, and comes late *)
(* with a failure, an end or a prepare it could not send, takes it from    *)
(* nobody (RELEASE_SCRIPT compares the lease).                             *)
LetGoByItsOwn ==
    [][\A h \in Hosts : Leased(h) /\ lease'[h] # lease[h] =>
        \/ LeaseLapses(h)
        \/ \E t \in Slots : Running(t) /\ task[t].s = lease[h] /\ Resume(t)]_vars

(* A session is over for good once no handler has still to write a copy of *)
(* its record from before: no later event, timer, cancellation, hello of a *)
(* host or restart revives it or gives it a host again.  A handler with    *)
(* such a copy can; that a session in its ending is kept from one is       *)
(* EndingIsKept, which the code breaks.                                    *)
Settled(s) ==
    /\ record[s].state \in Terminal
    /\ \A t \in Slots : Running(t) /\ task[t].s = s =>
        \/ task[t].pc \in {"load", "loadLeased", "orphan", "arm", "unduration"}
        \/ task[t].rec.state \in Terminal

OverStaysOver == [][\A s \in Sessions : Settled(s) => Settled(s)']_vars

(* No host is lost to the pool: while its agent runs it is offered again   *)
(* and again, idle, without a lease and listed under all its games,        *)
(* whatever handlers overlap, die or lose a message on the way (the lease's*)
(* TTL, the agent's own deadlines, PRESENCE_SCRIPT).                       *)
Offered(h) ==
    /\ hostRec[h].state = "idle" /\ ~Leased(h)
    /\ \A g \in Offers[h] : h \in idleHosts[g]

HostsReturn == \A h \in Hosts : <>[](h \in up) => []<>Offered(h)

-----------------------------------------------------------------------------
(* What the documentation says and overlapping handlers break.             *)

(* README: the matchmaker atomically leases one of the compatible hosts.   *)
OneHostPerSession ==
    \A h, k \in Hosts : Leased(h) /\ lease[h] = lease[k] => h = k

(* A cancelled or expired session (DELETE, expireSessions) only goes on to *)
(* its end, as handleHostEvent and failOrRetrySession take it.             *)
EndingIsKept ==
    [][\A s \in Sessions :
        record[s].state = "ending" => record'[s].state \in {"ending"} \cup Terminal]_vars

(* "Player already has a session": while one is under way, and not being   *)
(* ended, its player's key is set, so that no other can be created.        *)
PlayerIsLocked ==
    \A s \in Sessions : record[s].state \in Live \ {"ending"} /\ ~Busy(s) =>
        playerLock[PlayerOf[s]] # NoSession

(* README: an active session whose host is disconnected has a grace period *)
(* and then fails visibly, rather than being left stuck.                   *)
LostHostFails ==
    \A s \in Sessions, h \in Hosts :
        record[s].state = "active" /\ lease[h] = s /\ ~Connected(h)
            ~> record[s].state \in Terminal \/ Connected(h)
=============================================================================
