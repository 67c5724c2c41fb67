---------------------------- MODULE MarketTypes ----------------------------
(***************************************************************************)
(* The vocabulary shared by the marketplace modules: who takes part, and   *)
(* the values that travel between the player's browser, the matchmaker     *)
(* (Server/mm_server/Matchmaker.js), Redis and the Windows host agent.     *)
(***************************************************************************)

CONSTANTS
    Hosts,      \* host agents, one UUID each
    Sessions,   \* the session ids newSession() draws
    Games,      \* catalogue ids (GameId)
    Players,    \* authenticated player ids
    GameOf,     \* the game a session id is requested for
    PlayerOf,   \* the player a session id is requested by
    NoSession,  \* an absent session id: no lease, no lock, empty activeSessionId_
    NoHost      \* an absent hostId in a session record

ASSUME ConstantsAssumption ==
    /\ GameOf \in [Sessions -> Games]
    /\ PlayerOf \in [Sessions -> Players]
    /\ NoSession \notin Sessions
    /\ NoHost \notin Hosts

SessionOrNone == Sessions \cup {NoSession}

(* HostState: "busy" stands for reserved, preparing, ready, streaming,     *)
(* cleaning and failed, which no script and no handler tells apart.        *)
HostStates == {"idle", "busy"}

(* The value of market:host:<id>; "absent" stands for an expired key.  The *)
(* games are those published with enabled = true: MarketplacePresence()    *)
(* publishes no others.                                                    *)
HostRecords == [state : HostStates \cup {"absent"}, games : SUBSET Games]
NoRecord == [state |-> "absent", games |-> {}]

(* The value of market:session:<id>; "none" stands for a missing key.      *)
SessionStates == {"allocating", "reserved", "preparing", "ready", "active",
                  "ending", "ended", "failed"}
Terminal == {"ended", "failed"}
Assigning == {"reserved", "preparing"}
SessionRecords == [state : SessionStates \cup {"none"},
                   host : Hosts \cup {NoHost},
                   tried : SUBSET Hosts]
NewSession == [state |-> "allocating", host |-> NoHost, tried |-> {}]
NoSessionRecord == [state |-> "none", host |-> NoHost, tried |-> {}]
=============================================================================
