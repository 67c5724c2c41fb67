----------------------------- MODULE HostAgent -----------------------------
(***************************************************************************)
(* The Windows host agents as the marketplace sees them: the main loop of  *)
(* Host/Runtime.cpp (Tick), the control socket of MarketplaceControl.cpp   *)
(* and the heartbeat thread that posts the presence.                       *)
(*                                                                         *)
(* Everything but the presence is done by one thread, so a session is      *)
(* prepared, reported and cleaned in the order of Tick.  Messages to the   *)
(* matchmaker travel on the connection they were sent on and are lost, from*)
(* some point on, when it breaks.                                          *)
(***************************************************************************)
EXTENDS MarketTypes, Sequences, Naturals, FiniteSets

CONSTANTS
    Offers,       \* Offers[h]: the enabled, installed games of h
    Faults,       \* the kinds of failure a model explores, a subset of FaultKinds
    Flaky,        \* the hosts that lose connections, crash, fail to launch or lose games
    MaxConn,      \* bound: control connections a host opens
    MaxEvents,    \* bound: events of a connection on the wire when a report is sent
    MaxPresence   \* bound: presence posts of one host in flight at a time

FaultKinds == {"drop", "crash", "launch", "exit", "restart", "late", "cancel"}

ASSUME HostAssumption ==
    /\ Offers \in [Hosts -> SUBSET Games]
    /\ Faults \subseteq FaultKinds
    /\ Flaky \subseteq Hosts
    /\ MaxConn \in Nat \ {0}
    /\ MaxEvents \in Nat \ {0}
    /\ MaxPresence \in Nat \ {0}

VARIABLES
    up,         \* the hosts whose agent process runs
    link,       \* link[h]: the control connection h has open, 0 if none
    conns,      \* conns[h]: control connections h has opened so far
    inbox,      \* inbox[h]: commands on the wire and in pendingMarketplaceCommands_
    events,     \* events[h][k]: events sent on connection k, not yet handled
    posts,      \* posts[h]: presence states posted over HTTP, not yet handled
    active,     \* active[h]: activeSessionId_
    phase       \* phase[h]: how far that session is

hostVars == <<up, link, conns, inbox, events, posts, active, phase>>

Conns == 1 .. MaxConn
(* preparing: launched, no window yet; ready: captured; streaming: captured*)
(* and sessionConnectedReported_; ending and failing: in CleanupSession,   *)
(* which will send session.ended or session.failed.                        *)
Phases == {"idle", "preparing", "ready", "streaming", "ending", "failing"}
TerminalEvents == {"session.ended", "session.failed"}
EventTypes == TerminalEvents \cup
    {"host.hello", "session.launch_ack", "session.game_ready", "session.stream_connected"}
Events == [type : EventTypes, s : SessionOrNone]
Commands == [type : {"control.ready", "session.prepare", "session.stop"}, s : SessionOrNone]

HostTypeOK ==
    /\ up \subseteq Hosts
    /\ link \in [Hosts -> 0 .. MaxConn]
    /\ conns \in [Hosts -> 0 .. MaxConn]
    /\ inbox \in [Hosts -> Seq(Commands)]
    /\ events \in [Hosts -> [Conns -> Seq(Events)]]
    /\ posts \in [Hosts -> SUBSET HostStates]
    /\ active \in [Hosts -> SessionOrNone]
    /\ phase \in [Hosts -> Phases]

HostInit ==
    /\ up = Hosts
    /\ link = [h \in Hosts |-> 0]
    /\ conns = [h \in Hosts |-> 0]
    /\ inbox = [h \in Hosts |-> <<>>]
    /\ events = [h \in Hosts |-> [k \in Conns |-> <<>>]]
    /\ posts = [h \in Hosts |-> {}]
    /\ active = [h \in Hosts |-> NoSession]
    /\ phase = [h \in Hosts |-> "idle"]

-----------------------------------------------------------------------------
Event(type, s) == [type |-> type, s |-> s]
Prefixes(seq) == {SubSeq(seq, 1, n) : n \in 0 .. Len(seq)}

(* MarketplaceControl::Send: dropped unless a connection is open.          *)
Sent(h, e) ==
    IF link[h] = 0 THEN events ELSE [events EXCEPT ![h][link[h]] = Append(@, e)]
Send(h, type, s) == events' = Sent(h, Event(type, s))

(* The main loop is free: it is not inside CleanupSession.                 *)
Free(h) == h \in up /\ phase[h] \notin {"ending", "failing"}

(* MarketplacePresence, posted by the heartbeat thread or on request.  The *)
(* matchmaker handles a post at once (Marketplace) or, when failures       *)
(* include it, at some later time.                                         *)
PresenceState(h) == IF phase[h] = "idle" THEN "idle" ELSE "busy"

PostPresence(h) ==
    /\ "late" \in Faults /\ h \in Flaky
    /\ h \in up
    /\ Cardinality(posts[h]) < MaxPresence
    /\ PresenceState(h) \notin posts[h]
    /\ posts' = [posts EXCEPT ![h] = @ \cup {PresenceState(h)}]
    /\ UNCHANGED <<up, link, conns, inbox, events, active, phase>>

(* ApplyMarketplaceCommand takes the oldest command.                       *)
Take(h, type) ==
    /\ Free(h)
    /\ inbox[h] # <<>>
    /\ Head(inbox[h]).type = type
    /\ inbox' = [inbox EXCEPT ![h] = Tail(@)]

Hello(h) ==
    /\ Take(h, "control.ready")
    /\ Send(h, "host.hello", active[h])
    /\ UNCHANGED <<up, link, conns, posts, active, phase>>

(* CleanupSession, up to the point where its terminal event is sent.       *)
BeginCleanup(h, outcome) ==
    /\ phase' = [phase EXCEPT ![h] = outcome]
    /\ UNCHANGED <<up, link, conns, events, posts, active>>

ObeyStop(h) ==
    /\ Take(h, "session.stop")
    /\ IF Head(inbox[h]).s = active[h]
       THEN BeginCleanup(h, "ending")
       ELSE UNCHANGED <<up, link, conns, events, posts, active, phase>>

(* session.prepare: acknowledged again for the session already running,    *)
(* refused when another one runs.                                          *)
RefusePrepare(h) ==
    /\ Take(h, "session.prepare")
    /\ active[h] # NoSession
    /\ LET s == Head(inbox[h]).s
       IN  Send(h, IF s = active[h] THEN "session.launch_ack" ELSE "session.failed", s)
    /\ UNCHANGED <<up, link, conns, posts, active, phase>>

Prepare(h) ==
    /\ Take(h, "session.prepare")
    /\ active[h] = NoSession
    /\ active' = [active EXCEPT ![h] = Head(inbox[h]).s]
    /\ phase' = [phase EXCEPT ![h] = "preparing"]
    /\ Send(h, "session.launch_ack", Head(inbox[h]).s)
    /\ UNCHANGED <<up, link, conns, posts>>

(* invalid_launch and launch_failed.                                       *)
LaunchFails(h) ==
    /\ "launch" \in Faults /\ h \in Flaky
    /\ Take(h, "session.prepare")
    /\ active[h] = NoSession
    /\ Send(h, "session.failed", Head(inbox[h]).s)
    /\ UNCHANGED <<up, link, conns, posts, active, phase>>

(* PollTarget finds the game's window and AttachTarget starts the capture. *)
AttachTarget(h) ==
    /\ Free(h)
    /\ phase[h] = "preparing"
    /\ phase' = [phase EXCEPT ![h] = "ready"]
    /\ UNCHANGED <<up, link, conns, inbox, events, posts, active>>

(* The periodic report of a captured session: game_ready while no player is*)
(* connected, stream_connected, once, when one is.  A report that cannot be*)
(* sent is tried again.                                                    *)
MayReport(h) ==
    /\ Free(h)
    /\ phase[h] = "ready" /\ link[h] # 0
    /\ Len(events[h][link[h]]) < MaxEvents

ReportReady(h) ==
    /\ MayReport(h)
    /\ Send(h, "session.game_ready", active[h])
    /\ UNCHANGED <<up, link, conns, inbox, posts, active, phase>>

ReportConnected(h) ==
    /\ MayReport(h)
    /\ Send(h, "session.stream_connected", active[h])
    /\ phase' = [phase EXCEPT ![h] = "streaming"]
    /\ UNCHANGED <<up, link, conns, inbox, posts, active>>

(* The host's own deadlines: launchDeadline_ while there is no window, then*)
(* sessionDeadline_.                                                       *)
LaunchTimesOut(h) ==
    /\ Free(h)
    /\ phase[h] = "preparing"
    /\ BeginCleanup(h, "failing")
    /\ UNCHANGED inbox

DurationExpires(h) ==
    /\ Free(h)
    /\ phase[h] \in {"ready", "streaming"}
    /\ BeginCleanup(h, "ending")
    /\ UNCHANGED inbox

GameExits(h) ==
    /\ "exit" \in Faults /\ h \in Flaky
    /\ Free(h)
    /\ phase[h] \in {"ready", "streaming"}
    /\ BeginCleanup(h, "failing")
    /\ UNCHANGED inbox

(* The rest of CleanupSession: the game is stopped, the terminal event     *)
(* sent, the session forgotten.                                            *)
FinishCleanup(h) ==
    /\ h \in up
    /\ phase[h] \in {"ending", "failing"}
    /\ Send(h, IF phase[h] = "ending" THEN "session.ended" ELSE "session.failed", active[h])
    /\ active' = [active EXCEPT ![h] = NoSession]
    /\ phase' = [phase EXCEPT ![h] = "idle"]
    /\ UNCHANGED <<up, link, conns, inbox, posts>>

-----------------------------------------------------------------------------
(* The connection breaks: what was on the wire is lost from some point on. *)
(* Commands already queued by HandleMarketplaceCommand stay.               *)
LinkDrops(h) ==
    /\ "drop" \in Faults /\ h \in Flaky
    /\ link[h] # 0
    /\ link' = [link EXCEPT ![h] = 0]
    /\ \E in \in Prefixes(inbox[h]), out \in Prefixes(events[h][link[h]]) :
          /\ inbox' = [inbox EXCEPT ![h] = in]
          /\ events' = [events EXCEPT ![h][link[h]] = out]
    /\ UNCHANGED <<up, conns, posts, active, phase>>

(* The agent stops.  Stop() cleans the session up and sends                *)
(* session.failed, a crash sends nothing; either way a suffix of what was  *)
(* sent may be lost, which makes a crash one of the cases.                 *)
AgentStops(h) ==
    /\ "crash" \in Faults /\ h \in Flaky
    /\ h \in up
    /\ up' = up \ {h}
    /\ link' = [link EXCEPT ![h] = 0]
    /\ LET out == IF active[h] = NoSession \/ ~Free(h) THEN events
                  ELSE Sent(h, Event("session.failed", active[h]))
       IN  IF link[h] = 0 THEN UNCHANGED events
           ELSE \E kept \in Prefixes(out[h][link[h]]) :
                   events' = [events EXCEPT ![h][link[h]] = kept]
    /\ inbox' = [inbox EXCEPT ![h] = <<>>]
    /\ active' = [active EXCEPT ![h] = NoSession]
    /\ phase' = [phase EXCEPT ![h] = "idle"]
    /\ UNCHANGED <<conns, posts>>

AgentStarts(h) ==
    /\ h \notin up
    /\ up' = up \cup {h}
    /\ UNCHANGED <<link, conns, inbox, events, posts, active, phase>>

(* What the main loop of a running host is bound to do in time.            *)
HostObeys(h) ==
    \/ Hello(h) \/ ObeyStop(h) \/ RefusePrepare(h) \/ Prepare(h) \/ LaunchFails(h)
    \/ LaunchTimesOut(h) \/ DurationExpires(h) \/ FinishCleanup(h)

(* Everything a host does by itself.                                       *)
HostStep(h) ==
    \/ PostPresence(h)
    \/ HostObeys(h)
    \/ AttachTarget(h) \/ ReportReady(h) \/ ReportConnected(h) \/ GameExits(h)
    \/ LinkDrops(h) \/ AgentStops(h) \/ AgentStarts(h)
=============================================================================
