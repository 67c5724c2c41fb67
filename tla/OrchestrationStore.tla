------------------------- MODULE OrchestrationStore -------------------------
(***************************************************************************)
(* The Redis side of the marketplace: the three Lua scripts of             *)
(* Server/orchestration.js and the key expiries they have to live with.    *)
(*                                                                         *)
(* Every script is one atomic action.  The scripts are written as actions  *)
(* with parameters, so that Marketplace can use them inside its handlers;  *)
(* here they are closed under arbitrary callers: any host may publish any  *)
(* presence, any session may try to claim or release any host, in any      *)
(* order, including callers whose view of the store is out of date.        *)
(***************************************************************************)
EXTENDS MarketTypes

VARIABLES
    hostRec,    \* hostRec[h]   market:host:<h>
    lease,      \* lease[h]     market:host-lease:<h>
    idleHosts,  \* idleHosts[g] market:idle-hosts:game:<g>
    record      \* record[s]    market:session:<s>

storeVars == <<hostRec, lease, idleHosts, record>>

StoreTypeOK ==
    /\ hostRec \in [Hosts -> HostRecords]
    /\ lease \in [Hosts -> SessionOrNone]
    /\ idleHosts \in [Games -> SUBSET Hosts]
    /\ record \in [Sessions -> SessionRecords]

StoreInit ==
    /\ hostRec = [h \in Hosts |-> NoRecord]
    /\ lease = [h \in Hosts |-> NoSession]
    /\ idleHosts = [g \in Games |-> {}]
    /\ record = [s \in Sessions |-> NoSessionRecord]

Leased(h) == lease[h] # NoSession

-----------------------------------------------------------------------------
(* Mutant: a host that was reserved or busy is not made idle by a presence.*)
PublishedKept(h, st) == IF hostRec[h].state = "busy" /\ st = "idle" THEN "busy" ELSE st

(* The state PRESENCE_SCRIPT stores: a leased host that calls itself idle  *)
(* is kept reserved.                                                       *)
PublishedState(h, st) == IF Leased(h) /\ st = "idle" THEN "busy" ELSE st

(* PRESENCE_SCRIPT: drop the memberships of the previous record, store the *)
(* new one, list the host again only if it is idle and not leased.         *)
PresenceScript(h, st, games) ==
    LET listed == IF Leased(h) \/ st # "idle" THEN {} ELSE games
    IN  /\ hostRec' = [hostRec EXCEPT ![h] = [state |-> PublishedState(h, st), games |-> games]]
        /\ idleHosts' = [g \in Games |->
                IF g \in listed THEN idleHosts[g] \cup {h}
                ELSE IF g \in hostRec[h].games THEN idleHosts[g] \ {h}
                ELSE idleHosts[g]]
        /\ UNCHANGED <<lease, record>>

(* The tests CLAIM_SCRIPT makes before it takes a host.                    *)
Claimable(h, s) ==
    /\ hostRec[h].state = "idle"
    /\ ~Leased(h)
    /\ GameOf[s] \in hostRec[h].games

(* Mutant: the host is leased but not recorded as reserved.                *)
ClaimUnreserved(h, s, rec) ==
    /\ Claimable(h, s)
    /\ lease' = [lease EXCEPT ![h] = s]
    /\ record' = [record EXCEPT ![s] = rec]
    /\ UNCHANGED <<hostRec, idleHosts>>

(* CLAIM_SCRIPT when the tests hold: the host is reserved, unlisted and    *)
(* leased, and the session record is written, in one step.                 *)
ClaimScript(h, s, rec) ==
    /\ Claimable(h, s)
    /\ hostRec' = [hostRec EXCEPT ![h].state = "busy"]
    /\ idleHosts' = [g \in Games |->
            IF g \in hostRec[h].games THEN idleHosts[g] \ {h} ELSE idleHosts[g]]
    /\ lease' = [lease EXCEPT ![h] = s]
    /\ record' = [record EXCEPT ![s] = rec]

(* Mutant: the lease is deleted whoever holds it.                          *)
ReleaseOfAnyone(h, s) ==
    /\ lease' = [lease EXCEPT ![h] = NoSession]
    /\ hostRec' = IF hostRec[h].state # "absent"
                  THEN [hostRec EXCEPT ![h].state = "idle"] ELSE hostRec
    /\ idleHosts' = [g \in Games |->
            IF g \in hostRec[h].games THEN idleHosts[g] \cup {h} ELSE idleHosts[g]]
    /\ UNCHANGED record

(* RELEASE_SCRIPT: nothing unless the caller's session holds the lease;    *)
(* the host becomes idle and listed again unless its record has expired.   *)
ReleaseScript(h, s) ==
    /\ UNCHANGED record
    /\ IF lease[h] # s
       THEN UNCHANGED <<hostRec, lease, idleHosts>>
       ELSE /\ lease' = [lease EXCEPT ![h] = NoSession]
            /\ IF hostRec[h].state = "absent"
               THEN UNCHANGED <<hostRec, idleHosts>>
               ELSE /\ hostRec' = [hostRec EXCEPT ![h].state = "idle"]
                    /\ idleHosts' = [g \in Games |->
                            IF g \in hostRec[h].games THEN idleHosts[g] \cup {h}
                            ELSE idleHosts[g]]

(* saveSession: the record is overwritten with the caller's copy.          *)
SaveRecord(s, rec) ==
    /\ record' = [record EXCEPT ![s] = rec]
    /\ UNCHANGED <<hostRec, lease, idleHosts>>

(* The two key expiries: no presence for hostTtlSeconds, and a lease older *)
(* than durationSeconds + 300.                                             *)
HostRecordExpires(h) ==
    /\ hostRec[h].state # "absent"
    /\ hostRec' = [hostRec EXCEPT ![h] = NoRecord]
    /\ UNCHANGED <<lease, idleHosts, record>>

LeaseExpires(h) ==
    /\ Leased(h)
    /\ lease' = [lease EXCEPT ![h] = NoSession]
    /\ UNCHANGED <<hostRec, idleHosts, record>>

-----------------------------------------------------------------------------
ClaimedRecord(h, s) == [state |-> "reserved", host |-> h, tried |-> record[s].tried \cup {h}]

StoreNext ==
    \/ \E h \in Hosts, st \in HostStates, games \in SUBSET Games : PresenceScript(h, st, games)
    \/ \E h \in Hosts, s \in Sessions : ClaimScript(h, s, ClaimedRecord(h, s))
    \/ \E h \in Hosts, s \in Sessions : ReleaseScript(h, s)
    \/ \E h \in Hosts : HostRecordExpires(h)
    \/ \E h \in Hosts : LeaseExpires(h)

StoreSpec == StoreInit /\ [][StoreNext]_storeVars

-----------------------------------------------------------------------------
(* A leased host is never recorded idle: CLAIM_SCRIPT, PRESENCE_SCRIPT and *)
(* RELEASE_SCRIPT keep two keys with independent expiries in step, so no   *)
(* late presence can make a leased host look free (orchestration.js:96).   *)
LeasedNeverIdle == \A h \in Hosts : Leased(h) => hostRec[h].state # "idle"

(* A host recorded idle can be found: it is listed under every game it     *)
(* offers, whichever script made it idle (orchestration.js:99-103,138-140).*)
IdleIsListed ==
    \A h \in Hosts : hostRec[h].state = "idle" =>
        \A g \in hostRec[h].games : h \in idleHosts[g]

-----------------------------------------------------------------------------
(* What the scripts promise together, seen through HostAllocation: a host  *)
(* is free while its record says idle, held while its lease key exists.    *)
Allocation == INSTANCE HostAllocation
    WITH holder <- lease, free <- {h \in Hosts : hostRec[h].state = "idle"}

(* The scripts implement the exclusive allocation of hosts.                *)
ImplementsAllocation == Allocation!Spec
=============================================================================
