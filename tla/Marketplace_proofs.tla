-------------------------- MODULE Marketplace_proofs ---------------------------
(***************************************************************************)
(* Proofs about the Redis scripts and the marketplace sessions, for any    *)
(* number of hosts, players, sessions and handlers in progress, handlers   *)
(* of one session included.  After the scripts comes the marketplace, with *)
(* the invariant Typed; then what no overlap of handlers breaks: who lets  *)
(* a host go, and which sessions stay over.                                *)
(* At the end, the pairing by code (Pairing), the other way to a host.     *)
(***************************************************************************)
EXTENDS Marketplace, Pairing, TLAPS

-----------------------------------------------------------------------------
(* The Redis scripts.  IInv, the conjunction of the type invariant of the  *)
(* store and of its two safety invariants, is inductive; the refinement    *)
(* needs it because a late presence would otherwise be an offer of a held  *)
(* host.                                                                   *)

IInv == StoreTypeOK /\ LeasedNeverIdle /\ IdleIsListed

(* The initial store satisfies the inductive invariant.                    *)
LEMMA InitInv == StoreInit => IInv
  BY ConstantsAssumption
  DEF StoreInit, IInv, StoreTypeOK, LeasedNeverIdle, IdleIsListed, Leased, HostRecords,
      NoRecord, SessionOrNone, SessionRecords, NoSessionRecord

(* PRESENCE_SCRIPT preserves it: the published state of a leased host is   *)
(* never idle, and an idle host is listed under every game it publishes.   *)
LEMMA PresenceInv ==
  ASSUME IInv, NEW h \in Hosts, NEW st \in HostStates, NEW games \in SUBSET Games,
         PresenceScript(h, st, games)
  PROVE  IInv'
<1>1. StoreTypeOK'
  BY DEF IInv, StoreTypeOK, PresenceScript, PublishedState, HostRecords, HostStates
<1>2. LeasedNeverIdle'
  BY DEF IInv, StoreTypeOK, LeasedNeverIdle, PresenceScript, PublishedState, Leased
<1>3. IdleIsListed'
  <2> SUFFICES ASSUME NEW k \in Hosts, hostRec'[k].state = "idle", NEW g \in hostRec'[k].games
               PROVE  k \in idleHosts'[g]
    BY DEF IdleIsListed
  <2>1. g \in Games
    BY <1>1 DEF StoreTypeOK, HostRecords
  <2>2. CASE k = h
    BY <2>1, <2>2 DEF IInv, StoreTypeOK, PresenceScript, PublishedState
  <2>3. CASE k # h
    BY <2>1, <2>3 DEF IInv, StoreTypeOK, IdleIsListed, PresenceScript
  <2> QED  BY <2>2, <2>3
<1> QED  BY <1>1, <1>2, <1>3 DEF IInv

(* CLAIM_SCRIPT preserves it: the claimed host stops being idle in the     *)
(* step that leases it.                                                    *)
LEMMA ClaimInv ==
  ASSUME IInv, NEW h \in Hosts, NEW s \in Sessions, NEW rec \in SessionRecords,
         ClaimScript(h, s, rec)
  PROVE  IInv'
<1>1. StoreTypeOK'
  BY DEF IInv, StoreTypeOK, ClaimScript, HostRecords, HostStates, SessionOrNone
<1>2. LeasedNeverIdle'
  BY DEF IInv, StoreTypeOK, LeasedNeverIdle, ClaimScript, Leased, HostRecords
<1>3. IdleIsListed'
  <2> SUFFICES ASSUME NEW k \in Hosts, hostRec'[k].state = "idle", NEW g \in hostRec'[k].games
               PROVE  k \in idleHosts'[g]
    BY DEF IdleIsListed
  <2>1. k # h /\ hostRec'[k] = hostRec[k]
    BY DEF IInv, StoreTypeOK, ClaimScript, HostRecords
  <2>2. g \in Games
    BY <2>1 DEF IInv, StoreTypeOK, HostRecords
  <2> QED  BY <2>1, <2>2 DEF IInv, StoreTypeOK, IdleIsListed, ClaimScript
<1> QED  BY <1>1, <1>2, <1>3 DEF IInv

(* RELEASE_SCRIPT preserves it: a host made idle loses its lease and is    *)
(* listed under all its games in the same step.                            *)
LEMMA ReleaseInv ==
  ASSUME IInv, NEW h \in Hosts, NEW s \in Sessions, ReleaseScript(h, s)
  PROVE  IInv'
<1>1. StoreTypeOK'
  <2>1. hostRec' \in [Hosts -> HostRecords]
    <3>1. [hostRec[h] EXCEPT !.state = "idle"] \in HostRecords
      BY DEF IInv, StoreTypeOK, HostRecords, HostStates
    <3>2. hostRec' = hostRec \/ hostRec' = [hostRec EXCEPT ![h] = [hostRec[h] EXCEPT !.state = "idle"]]
      BY DEF ReleaseScript
    <3> QED
      BY <3>1, <3>2 DEF IInv, StoreTypeOK
  <2>2. lease' \in [Hosts -> SessionOrNone]
    BY DEF IInv, StoreTypeOK, ReleaseScript, SessionOrNone
  <2>3. idleHosts' \in [Games -> SUBSET Hosts]
    BY DEF IInv, StoreTypeOK, ReleaseScript
  <2> QED
    BY <2>1, <2>2, <2>3 DEF IInv, StoreTypeOK, ReleaseScript
<1>2. LeasedNeverIdle'
  BY DEF IInv, StoreTypeOK, LeasedNeverIdle, ReleaseScript, Leased, HostRecords
<1>3. IdleIsListed'
  <2> SUFFICES ASSUME NEW k \in Hosts, hostRec'[k].state = "idle", NEW g \in hostRec'[k].games
               PROVE  k \in idleHosts'[g]
    BY DEF IdleIsListed
  <2>1. hostRec'[k].games = hostRec[k].games
    BY DEF IInv, StoreTypeOK, ReleaseScript, HostRecords
  <2>2. g \in Games
    BY <2>1 DEF IInv, StoreTypeOK, HostRecords
  <2>3. CASE lease[h] # s \/ hostRec[h].state = "absent"
    BY <2>1, <2>2, <2>3 DEF IInv, StoreTypeOK, IdleIsListed, ReleaseScript
  <2>4. CASE lease[h] = s /\ hostRec[h].state # "absent" /\ k = h
    BY <2>1, <2>2, <2>4 DEF IInv, StoreTypeOK, ReleaseScript
  <2>5. CASE lease[h] = s /\ hostRec[h].state # "absent" /\ k # h
    BY <2>1, <2>2, <2>5 DEF IInv, StoreTypeOK, IdleIsListed, ReleaseScript
  <2> QED  BY <2>3, <2>4, <2>5
<1> QED  BY <1>1, <1>2, <1>3 DEF IInv

(* The two expiries preserve it: an expired record is not idle, and an     *)
(* expired lease only makes the first invariant easier.                    *)
LEMMA ExpiryInv ==
  ASSUME IInv, NEW h \in Hosts, HostRecordExpires(h) \/ LeaseExpires(h)
  PROVE  IInv'
<1>1. CASE HostRecordExpires(h)
  <2>1. StoreTypeOK'
    BY <1>1 DEF IInv, StoreTypeOK, HostRecordExpires, HostRecords, NoRecord
  <2>2. \A k \in Hosts : hostRec'[k].state = "idle" => hostRec'[k] = hostRec[k]
    BY <1>1 DEF IInv, StoreTypeOK, HostRecordExpires, NoRecord
  <2>3. LeasedNeverIdle' /\ IdleIsListed'
    BY <1>1, <2>2 DEF IInv, LeasedNeverIdle, IdleIsListed, Leased, HostRecordExpires
  <2> QED  BY <2>1, <2>3 DEF IInv
<1>2. CASE LeaseExpires(h)
  <2>1. StoreTypeOK'
    BY <1>2 DEF IInv, StoreTypeOK, LeaseExpires, SessionOrNone
  <2>2. LeasedNeverIdle' /\ IdleIsListed'
    BY <1>2 DEF IInv, StoreTypeOK, LeasedNeverIdle, IdleIsListed, Leased, LeaseExpires
  <2> QED  BY <2>1, <2>2 DEF IInv
<1> QED  BY <1>1, <1>2

(* Every step of the store, and every stuttering step, preserves it.       *)
LEMMA StepInv == IInv /\ [StoreNext]_storeVars => IInv'
<1> SUFFICES ASSUME IInv, [StoreNext]_storeVars PROVE IInv'
  OBVIOUS
<1>1. ASSUME NEW h \in Hosts, NEW st \in HostStates, NEW games \in SUBSET Games,
             PresenceScript(h, st, games)
      PROVE  IInv'
  BY <1>1, PresenceInv
<1>2. ASSUME NEW h \in Hosts, NEW s \in Sessions, ClaimScript(h, s, ClaimedRecord(h, s))
      PROVE  IInv'
  <2>1. ClaimedRecord(h, s) \in SessionRecords
    BY DEF ClaimedRecord, SessionRecords, SessionStates, IInv, StoreTypeOK
  <2> QED  BY <1>2, <2>1, ClaimInv
<1>3. ASSUME NEW h \in Hosts, NEW s \in Sessions, ReleaseScript(h, s)
      PROVE  IInv'
  BY <1>3, ReleaseInv
<1>4. ASSUME NEW h \in Hosts, HostRecordExpires(h) \/ LeaseExpires(h)
      PROVE  IInv'
  BY <1>4, ExpiryInv
<1>5. CASE UNCHANGED storeVars
  BY <1>5 DEF storeVars, IInv, StoreTypeOK, LeasedNeverIdle, IdleIsListed, Leased
<1> QED  BY <1>1, <1>2, <1>3, <1>4, <1>5 DEF StoreNext

(* The inductive invariant holds in every reachable state of the store.    *)
LEMMA Inductive == StoreSpec => []IInv
  BY InitInv, StepInv, PTL DEF StoreSpec

(* Type correctness of the four kinds of Redis key.                        *)
THEOREM StoreTypeCorrect == StoreSpec => []StoreTypeOK
  BY Inductive, PTL DEF IInv

(* No interleaving of presence, claims, releases and expiries records a    *)
(* leased host as idle.                                                    *)
THEOREM LeasedHostsAreNotIdle == StoreSpec => []LeasedNeverIdle
  BY Inductive, PTL DEF IInv

(* Every idle host can be found under every game it offers.                *)
THEOREM IdleHostsAreListed == StoreSpec => []IdleIsListed
  BY Inductive, PTL DEF IInv

-----------------------------------------------------------------------------
(* Each script is a step of the abstract allocation or leaves it unchanged *)

LEMMA PresenceRefines ==
  ASSUME IInv, NEW h \in Hosts, NEW st \in HostStates, NEW games \in SUBSET Games,
         PresenceScript(h, st, games)
  PROVE  Allocation!Next
<1> DEFINE F == {k \in Hosts : hostRec[k].state = "idle"}
<1>1. UNCHANGED lease
  BY DEF PresenceScript
<1>2. \A k \in Hosts \ {h} : hostRec'[k] = hostRec[k]
  BY DEF IInv, StoreTypeOK, PresenceScript
<1>3. CASE hostRec'[h].state = "idle"
  <2>1. lease[h] = NoSession
    BY <1>3 DEF IInv, StoreTypeOK, PresenceScript, PublishedState, Leased
  <2>2. F' = F \cup {h}
    BY <1>2, <1>3
  <2> QED  BY <1>1, <2>1, <2>2 DEF Allocation!Next, Allocation!Offer
<1>4. CASE hostRec'[h].state # "idle"
  <2>1. F' = F \ {h}
    BY <1>2, <1>4
  <2> QED  BY <1>1, <2>1 DEF Allocation!Next, Allocation!Withdraw
<1> QED  BY <1>3, <1>4

LEMMA ClaimRefines ==
  ASSUME IInv, NEW h \in Hosts, NEW s \in Sessions, NEW rec, ClaimScript(h, s, rec)
  PROVE  Allocation!Next
<1> DEFINE F == {k \in Hosts : hostRec[k].state = "idle"}
<1>1. h \in F /\ lease' = [lease EXCEPT ![h] = s]
  BY DEF ClaimScript, Claimable
<1>2. F' = F \ {h}
  BY DEF IInv, StoreTypeOK, HostRecords, ClaimScript
<1> QED  BY <1>1, <1>2 DEF Allocation!Next, Allocation!Take

LEMMA ReleaseRefines ==
  ASSUME IInv, NEW h \in Hosts, NEW s \in Sessions, ReleaseScript(h, s)
  PROVE  Allocation!Next \/ UNCHANGED Allocation!vars
<1> DEFINE F == {k \in Hosts : hostRec[k].state = "idle"}
<1>1. CASE lease[h] # s
  BY <1>1 DEF ReleaseScript, Allocation!vars
<1>2. CASE lease[h] = s
  <2>1. lease[h] # NoSession /\ lease' = [lease EXCEPT ![h] = NoSession]
    BY <1>2, ConstantsAssumption DEF ReleaseScript
  <2>2. F' = F \/ F' = F \cup {h}
    BY <1>2 DEF IInv, StoreTypeOK, HostRecords, ReleaseScript
  <2> QED  BY <2>1, <2>2 DEF Allocation!Next, Allocation!LetGo
<1> QED  BY <1>1, <1>2

LEMMA ExpiryRefines ==
  ASSUME IInv, NEW h \in Hosts, HostRecordExpires(h) \/ LeaseExpires(h)
  PROVE  Allocation!Next
<1> DEFINE F == {k \in Hosts : hostRec[k].state = "idle"}
<1>1. CASE HostRecordExpires(h)
  <2>1. F' = F \ {h} /\ UNCHANGED lease
    BY <1>1 DEF IInv, StoreTypeOK, HostRecords, HostRecordExpires, NoRecord
  <2> QED  BY <2>1 DEF Allocation!Next, Allocation!Withdraw
<1>2. CASE LeaseExpires(h)
  BY <1>2 DEF LeaseExpires, Leased, Allocation!Next, Allocation!LetGo
<1> QED  BY <1>1, <1>2

(* The scripts and the expiries implement the exclusive allocation of      *)
(* hosts: each of their steps takes, lets go, offers or withdraws one host.*)
THEOREM ScriptsImplementAllocation == StoreSpec => ImplementsAllocation
<1>1. StoreInit => Allocation!Init
  BY DEF StoreInit, Allocation!Init, NoRecord
<1>2. IInv /\ [StoreNext]_storeVars => [Allocation!Next]_Allocation!vars
  <2> SUFFICES ASSUME IInv, [StoreNext]_storeVars
               PROVE  [Allocation!Next]_Allocation!vars
    OBVIOUS
  <2>1. CASE UNCHANGED storeVars
    BY <2>1 DEF storeVars, Allocation!vars
  <2>2. CASE StoreNext
    BY <2>2, PresenceRefines, ClaimRefines, ReleaseRefines, ExpiryRefines DEF StoreNext
  <2> QED  BY <2>1, <2>2
<1> QED  BY <1>1, <1>2, Inductive, PTL DEF StoreSpec, ImplementsAllocation, Allocation!Spec

-----------------------------------------------------------------------------
(* The marketplace.                                                        *)

(* What is on the wire, and what the hosts run, is about sessions of K.    *)
CommandsOf(K) == [type : {"control.ready"}, s : {NoSession}]
                     \cup [type : {"session.prepare", "session.stop"}, s : K]
EventsOf(K) == [type : {"host.hello"}, s : K \cup {NoSession}]
                   \cup [type : EventTypes \ {"host.hello"}, s : K]
AboutIn(K, in, ev, ac, ph) ==
    /\ in \in [Hosts -> Seq(CommandsOf(K))]
    /\ ev \in [Hosts -> [Conns -> Seq(EventsOf(K))]]
    /\ ac \in [Hosts -> K \cup {NoSession}]
    /\ \A h \in Hosts : ac[h] = NoSession <=> ph[h] = "idle"
About(K) == AboutIn(K, inbox, events, active, phase)

HostShape ==
    /\ up \subseteq Hosts
    /\ link \in [Hosts -> 0 .. MaxConn]
    /\ conns \in [Hosts -> 0 .. MaxConn]
    /\ posts \in [Hosts -> SUBSET HostStates]
    /\ phase \in [Hosts -> Phases]

(* What a handler carries, by the step it is at.                           *)
Ending == {"failed", "ended", "ending"}
TaskShape(r) ==
    /\ r \in Task
    /\ r.s = NoSession <=> r.pc = "undisconnect" \/ (r.pc = "load" /\ r.kind = "host_disconnected")
    /\ r.kind \in EventTypes \cup {"host_disconnected"} => r.host \in Hosts
    /\ r.pc \in {"load", "loadLeased", "judge", "orphan", "unarm", "save"} => r.kind # "create"
    /\ r.pc = "load" => r.kind \in Timers
    /\ r.pc = "orphan" => r.kind = "host.hello"
    /\ r.pc = "judge" /\ r.rec.state # "none" => r.rec.host \in Hosts /\ r.rec.state # "allocating"
    /\ r.pc \in {"unarm", "find", "claim", "send", "getLock", "delLock", "save"} /\ r.kind # "create"
         => r.rec.host \in Hosts
    /\ r.pc = "unarm" => r.rec.state \in {"allocating", "failed", "ended"}
    /\ r.pc \in {"find", "claim", "send"} => r.rec.state = "allocating"
    /\ r.pc = "send" => r.cand \in Hosts
    /\ r.pc \in {"getLock", "delLock"} =>
         r.rec.state \in (IF r.kind = "create" THEN {"failed"} ELSE Ending)
    /\ r.pc = "save" => r.rec.state \in Ending \cup {"ready", "active"}

(* A session with a record has been asked for, and its record names a host.*)
RecordShape(s, R, K) ==
    R.state # "none" => s \in K /\ R.host \in Hosts /\ R.state # "allocating"
StoredIn(K, L, R) ==
    /\ \A h \in Hosts : L[h] \in K \cup {NoSession}
    /\ \A s \in Sessions : RecordShape(s, R[s], K)

MarketShape ==
    /\ playerLock \in [Players -> SessionOrNone]
    /\ asked \subseteq Sessions
    /\ prepDL \subseteq asked
    /\ sessDL \subseteq asked
    /\ discDL \subseteq Hosts
    /\ clients \in [Hosts -> 0 .. MaxConn]
    /\ StoredIn(asked, lease, record)
    /\ task \in [Slots -> Task \cup {Done}]
    /\ \A t \in Slots : Running(t) => TaskShape(task[t]) /\ task[t].s \in asked \cup {NoSession}

Typed == IInv /\ HostShape /\ About(asked) /\ MarketShape

-----------------------------------------------------------------------------
(* The hosts and the wire.                                                 *)

LEMMA AboutMore ==
  ASSUME NEW K, NEW L, K \subseteq L, NEW in, NEW ev, NEW ac, NEW ph, AboutIn(K, in, ev, ac, ph)
  PROVE  AboutIn(L, in, ev, ac, ph)
<1>1. CommandsOf(K) \subseteq CommandsOf(L) /\ EventsOf(K) \subseteq EventsOf(L)
  BY DEF CommandsOf, EventsOf
<1>2. ASSUME NEW h \in Hosts PROVE in[h] \in Seq(CommandsOf(L))
  <2>1. in[h] \in Seq(CommandsOf(K))
    BY DEF AboutIn
  <2> QED  BY <1>1, <2>1
<1>3. ASSUME NEW h \in Hosts, NEW k \in Conns PROVE ev[h][k] \in Seq(EventsOf(L))
  <2>1. ev[h][k] \in Seq(EventsOf(K))
    BY DEF AboutIn
  <2> QED  BY <1>1, <2>1
<1>4. in \in [Hosts -> Seq(CommandsOf(L))]
  BY <1>2 DEF AboutIn
<1>5. ev \in [Hosts -> [Conns -> Seq(EventsOf(L))]]
  BY <1>3 DEF AboutIn
<1> QED  BY <1>4, <1>5 DEF AboutIn

(* A message put on an end of a sequence, or some taken off either end.    *)
LEMMA SeqKept ==
  ASSUME NEW S, NEW q \in Seq(S)
  PROVE  /\ \A e \in S : Append(q, e) \in Seq(S)
         /\ q # <<>> => Tail(q) \in Seq(S) /\ Head(q) \in S
         /\ \A p \in Prefixes(q) : p \in Seq(S)
<1>1. ASSUME NEW n \in 0 .. Len(q) PROVE SubSeq(q, 1, n) \in Seq(S)
  OBVIOUS
<1>2. \A p \in Prefixes(q) : p \in Seq(S)
  BY <1>1 DEF Prefixes
<1> QED  BY <1>2

LEMMA SendKeeps ==
  ASSUME NEW K, events \in [Hosts -> [Conns -> Seq(EventsOf(K))]], HostShape,
         NEW h \in Hosts, NEW e \in EventsOf(K)
  PROVE  Sent(h, e) \in [Hosts -> [Conns -> Seq(EventsOf(K))]]
<1>1. CASE link[h] = 0
  BY <1>1 DEF Sent
<1>2. CASE link[h] # 0
  <2>1. link[h] \in Conns
    BY <1>2, HostAssumption DEF HostShape, Conns
  <2>2. Append(events[h][link[h]], e) \in Seq(EventsOf(K))
    BY <2>1, SeqKept
  <2> QED  BY <1>2, <2>1, <2>2 DEF Sent
<1> QED  BY <1>1, <1>2

(* What a host does by itself is about the sessions it has been told of.   *)
LEMMA HostStepKeeps ==
  ASSUME NEW K \in SUBSET Sessions, About(K), HostShape, NEW h \in Hosts, HostStep(h)
  PROVE  HostShape' /\ AboutIn(K, inbox', events', active', phase')
<1> USE DEF About
<1>1. /\ inbox \in [Hosts -> Seq(CommandsOf(K))]
      /\ events \in [Hosts -> [Conns -> Seq(EventsOf(K))]]
      /\ active \in [Hosts -> K \cup {NoSession}]
      /\ \A x \in Hosts : active[x] = NoSession <=> phase[x] = "idle"
  BY DEF AboutIn
<1>2. inbox[h] # <<>> => /\ Tail(inbox[h]) \in Seq(CommandsOf(K))
                         /\ Head(inbox[h]) \in CommandsOf(K)
  <2>1. inbox[h] \in Seq(CommandsOf(K))
    BY <1>1
  <2> QED  BY <2>1, SeqKept
<1>3. ASSUME NEW type, Take(h, type)
      PROVE  /\ inbox' \in [Hosts -> Seq(CommandsOf(K))]
             /\ type # "control.ready" => Head(inbox[h]).s \in K
             /\ Head(inbox[h]).type = type
  BY <1>1, <1>2, <1>3 DEF Take, CommandsOf
<1>4. ASSUME NEW type \in EventTypes, NEW s \in K \cup {NoSession}, Send(h, type, s),
             type # "host.hello" => s \in K
      PROVE  events' \in [Hosts -> [Conns -> Seq(EventsOf(K))]]
  <2>1. Event(type, s) \in EventsOf(K)
    BY <1>4 DEF Event, EventsOf
  <2> QED  BY <1>1, <1>4, <2>1, SendKeeps DEF Send
<1>5. CASE PostPresence(h)
  BY <1>1, <1>5 DEF PostPresence, PresenceState, HostShape, AboutIn, HostStates
<1>6. CASE Hello(h)
  <2>1. active[h] \in K \cup {NoSession}
    BY <1>1
  <2>2. events' \in [Hosts -> [Conns -> Seq(EventsOf(K))]]
    BY <1>4, <1>6, <2>1 DEF Hello, EventTypes
  <2> QED  BY <1>1, <1>3, <1>6, <2>2 DEF Hello, HostShape, AboutIn
<1>7. CASE ObeyStop(h)
  <2>1. inbox' \in [Hosts -> Seq(CommandsOf(K))] /\ h \in up /\ phase[h] \notin {"ending", "failing"}
    BY <1>3, <1>7 DEF ObeyStop, Take, Free
  <2>2. Head(inbox[h]).s # NoSession
    BY <1>3, <1>7, ConstantsAssumption DEF ObeyStop
  <2>3. CASE Head(inbox[h]).s = active[h] /\ BeginCleanup(h, "ending")
    BY <1>1, <2>1, <2>2, <2>3 DEF BeginCleanup, HostShape, Phases, AboutIn
  <2>4. CASE UNCHANGED <<up, link, conns, events, posts, active, phase>>
    BY <1>1, <2>1, <2>4 DEF HostShape, AboutIn
  <2> QED  BY <1>7, <2>3, <2>4 DEF ObeyStop
<1>8. CASE RefusePrepare(h)
  <2>1. inbox' \in [Hosts -> Seq(CommandsOf(K))] /\ Head(inbox[h]).s \in K
    BY <1>3, <1>8 DEF RefusePrepare
  <2>2. events' \in [Hosts -> [Conns -> Seq(EventsOf(K))]]
    BY <1>4, <1>8, <2>1 DEF RefusePrepare, EventTypes, TerminalEvents
  <2> QED  BY <1>1, <1>8, <2>1, <2>2 DEF RefusePrepare, HostShape, AboutIn
<1>9. CASE Prepare(h)
  <2>1. inbox' \in [Hosts -> Seq(CommandsOf(K))] /\ Head(inbox[h]).s \in K
    BY <1>3, <1>9 DEF Prepare
  <2>2. events' \in [Hosts -> [Conns -> Seq(EventsOf(K))]]
    BY <1>4, <1>9, <2>1 DEF Prepare, EventTypes
  <2>3. HostShape' /\ active' \in [Hosts -> K \cup {NoSession}]
    BY <1>1, <1>9, <2>1 DEF Prepare, HostShape, Phases
  <2>4. \A x \in Hosts : active'[x] = NoSession <=> phase'[x] = "idle"
    BY <1>1, <1>9, <2>1, ConstantsAssumption DEF Prepare, HostShape
  <2> QED  BY <2>1, <2>2, <2>3, <2>4 DEF AboutIn
<1>10. CASE LaunchFails(h)
  <2>1. inbox' \in [Hosts -> Seq(CommandsOf(K))] /\ Head(inbox[h]).s \in K
    BY <1>3, <1>10 DEF LaunchFails
  <2>2. events' \in [Hosts -> [Conns -> Seq(EventsOf(K))]]
    BY <1>4, <1>10, <2>1 DEF LaunchFails, EventTypes, TerminalEvents
  <2> QED  BY <1>1, <1>10, <2>1, <2>2 DEF LaunchFails, HostShape, AboutIn
<1>11. CASE AttachTarget(h)
  BY <1>1, <1>11 DEF AttachTarget, HostShape, Phases, AboutIn
<1>12. CASE ReportReady(h) \/ ReportConnected(h)
  <2>1. active[h] \in K
    BY <1>1, <1>12 DEF ReportReady, ReportConnected, MayReport
  <2>2. events' \in [Hosts -> [Conns -> Seq(EventsOf(K))]]
    BY <1>4, <1>12, <2>1 DEF ReportReady, ReportConnected, EventTypes
  <2>3. UNCHANGED <<up, link, conns, inbox, posts, active>>
    BY <1>12 DEF ReportReady, ReportConnected
  <2>4. phase' \in [Hosts -> Phases] /\ \A x \in Hosts : phase'[x] = "idle" <=> phase[x] = "idle"
    BY <1>12 DEF ReportReady, ReportConnected, MayReport, HostShape, Phases
  <2> QED  BY <1>1, <2>2, <2>3, <2>4 DEF HostShape, AboutIn
<1>13. CASE LaunchTimesOut(h) \/ DurationExpires(h) \/ GameExits(h)
  <2>1. UNCHANGED <<up, link, conns, events, posts, active, inbox>>
    BY <1>13 DEF LaunchTimesOut, DurationExpires, GameExits, BeginCleanup
  <2>2. phase' \in [Hosts -> Phases] /\ \A x \in Hosts : phase'[x] = "idle" <=> phase[x] = "idle"
    BY <1>13 DEF LaunchTimesOut, DurationExpires, GameExits, BeginCleanup, HostShape, Phases
  <2> QED  BY <1>1, <2>1, <2>2 DEF HostShape, AboutIn
<1>14. CASE FinishCleanup(h)
  <2>1. active[h] \in K
    BY <1>1, <1>14 DEF FinishCleanup
  <2>2. events' \in [Hosts -> [Conns -> Seq(EventsOf(K))]]
    BY <1>4, <1>14, <2>1 DEF FinishCleanup, EventTypes, TerminalEvents
  <2> QED  BY <1>1, <1>14, <2>2 DEF FinishCleanup, HostShape, Phases, AboutIn
<1>15. CASE LinkDrops(h)
  <2>1. link[h] \in Conns
    BY <1>15, HostAssumption DEF LinkDrops, HostShape, Conns
  <2>2. inbox[h] \in Seq(CommandsOf(K)) /\ events[h][link[h]] \in Seq(EventsOf(K))
    BY <1>1, <2>1
  <2>3. /\ \A in \in Prefixes(inbox[h]) : in \in Seq(CommandsOf(K))
        /\ \A out \in Prefixes(events[h][link[h]]) : out \in Seq(EventsOf(K))
    BY <2>2, SeqKept
  <2>4. inbox' \in [Hosts -> Seq(CommandsOf(K))] /\ events' \in [Hosts -> [Conns -> Seq(EventsOf(K))]]
    BY <1>1, <1>15, <2>1, <2>3 DEF LinkDrops
  <2>5. HostShape' /\ UNCHANGED <<active, phase>>
    BY <1>15, HostAssumption DEF LinkDrops, HostShape
  <2> QED  BY <1>1, <2>4, <2>5 DEF AboutIn
<1>16. CASE AgentStops(h)
  <2> DEFINE out == IF active[h] = NoSession \/ ~Free(h) THEN events
                    ELSE Sent(h, Event("session.failed", active[h]))
  <2>1. out \in [Hosts -> [Conns -> Seq(EventsOf(K))]]
    <3>1. CASE active[h] = NoSession \/ ~Free(h)
      BY <1>1, <3>1
    <3>2. CASE ~(active[h] = NoSession \/ ~Free(h))
      <4>1. active[h] \in K
        BY <1>1, <3>2
      <4>2. Event("session.failed", active[h]) \in EventsOf(K)
        BY <4>1 DEF Event, EventsOf, EventTypes, TerminalEvents
      <4> QED  BY <1>1, <3>2, <4>2, SendKeeps
    <3> QED  BY <3>1, <3>2
  <2> HIDE DEF out
  <2>2. events' \in [Hosts -> [Conns -> Seq(EventsOf(K))]]
    <3>1. CASE link[h] = 0
      BY <1>1, <1>16, <3>1 DEF AgentStops
    <3>2. CASE link[h] # 0
      <4>1. link[h] \in Conns
        BY <3>2, HostAssumption DEF HostShape, Conns
      <4>2. \A p \in Prefixes(out[h][link[h]]) : p \in Seq(EventsOf(K))
        BY <2>1, <4>1, SeqKept
      <4>3. PICK p \in Prefixes(out[h][link[h]]) : events' = [events EXCEPT ![h][link[h]] = p]
        BY <1>16, <3>2 DEF AgentStops, out
      <4> QED  BY <1>1, <4>1, <4>2, <4>3
    <3> QED  BY <3>1, <3>2
  <2>3. inbox' \in [Hosts -> Seq(CommandsOf(K))]
    BY <1>1, <1>16 DEF AgentStops
  <2>4. HostShape' /\ active' \in [Hosts -> K \cup {NoSession}]
    BY <1>1, <1>16, HostAssumption DEF AgentStops, HostShape, Phases
  <2>5. \A x \in Hosts : active'[x] = NoSession <=> phase'[x] = "idle"
    BY <1>1, <1>16 DEF AgentStops, HostShape
  <2> QED  BY <2>2, <2>3, <2>4, <2>5 DEF AboutIn
<1>17. CASE AgentStarts(h)
  BY <1>1, <1>17 DEF AgentStarts, HostShape, AboutIn
<1> QED
  BY <1>5, <1>6, <1>7, <1>8, <1>9, <1>10, <1>11, <1>12, <1>13, <1>14, <1>15, <1>16, <1>17
  DEF HostStep, HostObeys

-----------------------------------------------------------------------------
(* The Redis commands of a handler.  Each keeps the store as the scripts   *)
(* promise, is a step of the allocation of hosts, and concerns a session   *)
(* that has been asked for.                                                *)
StoreKept ==
    /\ IInv'
    /\ [Allocation!Next]_Allocation!vars
    /\ StoredIn(asked, lease', record')

LEMMA UnmovedKept ==
  ASSUME Typed, UNCHANGED storeVars
  PROVE  StoreKept
  BY DEF Typed, MarketShape, StoreKept, storeVars, IInv, StoreTypeOK, LeasedNeverIdle,
         IdleIsListed, Leased, Allocation!vars

LEMMA SaveKept ==
  ASSUME Typed, NEW s \in asked, NEW rec \in SessionRecords, SaveRecord(s, rec),
         rec.host \in Hosts, rec.state # "allocating"
  PROVE  StoreKept
<1>1. s \in Sessions /\ record \in [Sessions -> SessionRecords]
  BY DEF Typed, MarketShape, IInv, StoreTypeOK
<1>2. UNCHANGED <<hostRec, lease, idleHosts>> /\ record' = [record EXCEPT ![s] = rec]
  BY DEF SaveRecord
<1>3. IInv'
  BY <1>1, <1>2 DEF Typed, IInv, StoreTypeOK, LeasedNeverIdle, IdleIsListed, Leased
<1>4. UNCHANGED Allocation!vars
  BY <1>2 DEF Allocation!vars
<1>5. StoredIn(asked, lease', record')
  BY <1>1, <1>2 DEF Typed, MarketShape, StoredIn, RecordShape
<1> QED  BY <1>3, <1>4, <1>5 DEF StoreKept

LEMMA ReleaseKept ==
  ASSUME Typed, NEW h \in Hosts, NEW s \in asked, ReleaseScript(h, s)
  PROVE  StoreKept
<1>1. s \in Sessions /\ IInv
  BY DEF Typed, MarketShape
<1>2. IInv' /\ [Allocation!Next]_Allocation!vars
  BY <1>1, ReleaseInv, ReleaseRefines
<1>3. UNCHANGED record /\ \A k \in Hosts : lease'[k] \in {lease[k], NoSession}
  BY <1>1 DEF ReleaseScript, IInv, StoreTypeOK
<1>4. StoredIn(asked, lease', record')
  BY <1>3 DEF Typed, MarketShape, StoredIn
<1> QED  BY <1>2, <1>4 DEF StoreKept

LEMMA ClaimKept ==
  ASSUME Typed, NEW h \in Hosts, NEW s \in asked, NEW rec \in SessionRecords,
         ClaimScript(h, s, rec), rec.host \in Hosts, rec.state # "allocating"
  PROVE  StoreKept
<1>1. s \in Sessions /\ IInv
  BY DEF Typed, MarketShape
<1>2. IInv' /\ [Allocation!Next]_Allocation!vars
  BY <1>1, ClaimInv, ClaimRefines
<1>3. StoredIn(asked, lease', record')
  BY <1>1 DEF Typed, MarketShape, StoredIn, RecordShape, ClaimScript, IInv, StoreTypeOK
<1> QED  BY <1>2, <1>3 DEF StoreKept

LEMMA CommandKeeps ==
  ASSUME NEW K, About(K), NEW h \in Hosts, NEW s \in K,
         NEW type \in {"session.prepare", "session.stop"}, Command(h, type, s),
         UNCHANGED <<events, active, phase>>
  PROVE  AboutIn(K, inbox', events', active', phase')
<1>1. inbox[h] \in Seq(CommandsOf(K)) /\ [type |-> type, s |-> s] \in CommandsOf(K)
  BY DEF About, AboutIn, CommandsOf
<1>2. Append(inbox[h], [type |-> type, s |-> s]) \in Seq(CommandsOf(K))
  BY <1>1, SeqKept
<1>3. inbox' \in [Hosts -> Seq(CommandsOf(K))]
  BY <1>2 DEF About, AboutIn, Command
<1> QED  BY <1>3 DEF About, AboutIn

-----------------------------------------------------------------------------
(* A step of the handler in slot t, to r.                                  *)
Carried(r) == r = Done \/ (TaskShape(r) /\ r.s \in asked \cup {NoSession})

Same(x, r) == x.kind = r.kind /\ x.s = r.s /\ x.host = r.host

LEMMA HandlerKeeps ==
  ASSUME Typed, NEW t \in Slots, NEW r, Goto(t, r), Carried(r),
         StoreKept, AboutIn(asked, inbox', events', active', phase'),
         UNCHANGED <<up, link, conns, posts, phase, clients, asked>>,
         playerLock' \in [Players -> SessionOrNone], prepDL' \subseteq asked,
         sessDL' \subseteq asked, discDL' \subseteq Hosts
  PROVE  Typed'
<1>1. HostShape' /\ About(asked)' /\ IInv'
  BY DEF Typed, HostShape, About, StoreKept
<1>2. task' \in [Slots -> Task \cup {Done}]
  BY DEF Typed, MarketShape, Goto, Carried, TaskShape
<1>3. ASSUME NEW u \in Slots, Running(u)'
      PROVE  TaskShape(task'[u]) /\ task'[u].s \in asked \cup {NoSession}
  <2>1. CASE u = t
    BY <1>3, <2>1 DEF Typed, MarketShape, Goto, Carried, Running
  <2>2. CASE u # t
    BY <1>3, <2>2 DEF Typed, MarketShape, Goto, Running
  <2> QED  BY <2>1, <2>2
<1>4. MarketShape'
  BY <1>2, <1>3 DEF Typed, MarketShape, StoreKept
<1> QED  BY <1>1, <1>4 DEF Typed

(* The same of a step that issues no command to Redis' records or leases   *)
(* and none to a host.                                                     *)
LEMMA QuietKeeps ==
  ASSUME Typed, NEW t \in Slots, NEW r, Goto(t, r), Carried(r),
         UNCHANGED <<storeVars, hostVars, clients, asked>>,
         playerLock' \in [Players -> SessionOrNone], prepDL' \subseteq asked,
         sessDL' \subseteq asked, discDL' \subseteq Hosts
  PROVE  Typed' /\ [Allocation!Next]_Allocation!vars
<1>1. StoreKept
  BY UnmovedKept
<1>2. UNCHANGED hostVars
  OBVIOUS
<1>3. AboutIn(asked, inbox', events', active', phase')
  BY <1>2 DEF Typed, About, hostVars
<1>4. Typed'
  BY <1>1, <1>2, <1>3, HandlerKeeps DEF hostVars
<1> QED  BY <1>1, <1>4 DEF StoreKept

LEMMA AtTask ==
  ASSUME Typed, NEW t \in Slots, NEW pc, At(t, pc)
  PROVE  /\ TaskShape(task[t]) /\ task[t] \in Task /\ task[t].pc = pc
         /\ task[t].s \in asked \cup {NoSession}
         /\ pc \notin {"load", "undisconnect"} => task[t].s \in asked
  BY DEF Typed, MarketShape, At, TaskShape

LEMMA FinishedCarried ==
  ASSUME Typed, NEW r, TaskShape(r)
  PROVE  Carried(Finished(r))
<1>1. CASE r.kind = "host_disconnected"
  <2>1. Finished(r) = [pc |-> "undisconnect", kind |-> "host_disconnected", s |-> NoSession,
                       rec |-> NoSessionRecord, host |-> r.host, conn |-> 0, cand |-> NoHost,
                       cands |-> {}]
    BY <1>1 DEF Finished, NewTask
  <2>2. NoSessionRecord \in SessionRecords /\ r.host \in Hosts /\ 0 \in 0 .. MaxConn
    BY <1>1, HostAssumption DEF TaskShape, NoSessionRecord, SessionRecords
  <2>3. Finished(r) \in Task
    BY <2>1, <2>2 DEF Task, Steps, Kinds, Timers, SessionOrNone
  <2> QED  BY <2>1, <2>2, <2>3 DEF Carried, TaskShape
<1>2. CASE r.kind # "host_disconnected"
  BY <1>2 DEF Finished, Carried
<1> QED  BY <1>1, <1>2

LEMMA LoadTyped ==
  ASSUME Typed, NEW t \in Slots, Load(t)
  PROVE  Typed' /\ [Allocation!Next]_Allocation!vars
<1> DEFINE r == task[t]
<1>1. TaskShape(r) /\ r \in Task /\ r.pc = "load" /\ r.s \in asked \cup {NoSession}
  BY AtTask DEF Load
<1>2. asked \subseteq Sessions /\ record \in [Sessions -> SessionRecords]
      /\ StoredIn(asked, lease, record) /\ discDL \subseteq Hosts
  BY DEF Typed, MarketShape, IInv, StoreTypeOK
<1>3. CASE r.kind # "host_disconnected"
  <2> DEFINE x == [r EXCEPT !.pc = "judge", !.rec = record[r.s]]
  <2>1. r.s \in asked /\ record[r.s] \in SessionRecords /\ RecordShape(r.s, record[r.s], asked)
    BY <1>1, <1>2, <1>3 DEF TaskShape, StoredIn
  <2>2. Carried(x)
    BY <1>1, <1>3, <2>1 DEF Carried, TaskShape, Task, Steps, RecordShape, Timers
  <2>3. Goto(t, x) /\ UNCHANGED <<storeVars, hostVars, playerLock, prepDL, sessDL, discDL, clients, asked>>
    BY <1>3 DEF Load
  <2> QED  BY <2>2, <2>3, QuietKeeps DEF Typed, MarketShape
<1>4. CASE r.kind = "host_disconnected" /\ Connected(r.host)
  <2>1. Goto(t, Done) /\ discDL' \subseteq Hosts /\ Carried(Done)
    BY <1>2, <1>4 DEF Load, Carried
  <2>2. UNCHANGED <<storeVars, hostVars, playerLock, prepDL, sessDL, clients, asked>>
    BY DEF Load
  <2> QED  BY <2>1, <2>2, QuietKeeps DEF Typed, MarketShape
<1>5. CASE r.kind = "host_disconnected" /\ ~Connected(r.host)
  <2> DEFINE x == IF Leased(r.host) THEN [r EXCEPT !.pc = "loadLeased", !.s = lease[r.host]]
                  ELSE Finished(r)
  <2>1. r.host \in Hosts /\ lease[r.host] \in asked \cup {NoSession}
    BY <1>1, <1>2, <1>5 DEF TaskShape, StoredIn
  <2>2. Carried(x)
    <3>1. CASE Leased(r.host)
      <4>1. x = [r EXCEPT !.pc = "loadLeased", !.s = lease[r.host]]
            /\ lease[r.host] \in asked /\ lease[r.host] # NoSession
        BY <2>1, <3>1 DEF Leased
      <4> QED  BY <1>1, <1>2, <1>5, <4>1 DEF Carried, TaskShape, Task, Steps, Timers, SessionOrNone
    <3>2. CASE ~Leased(r.host)
      BY <1>1, <3>2, FinishedCarried
    <3> QED  BY <3>1, <3>2
  <2>3. Goto(t, x) /\ UNCHANGED <<storeVars, hostVars, playerLock, prepDL, sessDL, discDL, clients, asked>>
    BY <1>5 DEF Load
  <2> HIDE DEF x
  <2> QED  BY <2>2, <2>3, QuietKeeps DEF Typed, MarketShape
<1> QED  BY <1>3, <1>4, <1>5

LEMMA JudgedTask ==
  ASSUME Typed, NEW t \in Slots, At(t, "judge"), ~Stale(task[t])
  PROVE  /\ TaskShape(task[t]) /\ task[t] \in Task /\ task[t].s \in asked
         /\ task[t].rec \in SessionRecords /\ task[t].rec.host \in Hosts
         /\ task[t].rec.state \notin Terminal \cup {"none", "allocating"}
         /\ task[t].kind # "create" /\ task[t].s # NoSession /\ task[t].s \in Sessions
<1>1. TaskShape(task[t]) /\ task[t] \in Task /\ task[t].pc = "judge" /\ task[t].s \in asked
  BY AtTask
<1>2. task[t].rec.state \notin Terminal \cup {"none"}
  BY DEF Stale
<1>3. asked \subseteq Sessions
  BY DEF Typed, MarketShape
<1> QED  BY <1>1, <1>2, <1>3, ConstantsAssumption DEF TaskShape, Task

(* A handler that looks for a host or has just given one back.             *)
LEMMA TryNextCarried ==
  ASSUME NEW r \in Task, TaskShape(r), r.s \in asked, r.pc \in {"find", "claim", "send"},
         NEW C \in SUBSET Hosts
  PROVE  Carried(TryNext([r EXCEPT !.cands = C]))
<1> DEFINE x == TryNext([r EXCEPT !.cands = C])
<1>1. CASE C # {}
  <2>1. x \in Task /\ Same(x, r) /\ x.rec = r.rec /\ x.pc = "claim"
    BY <1>1 DEF TryNext, Task, Same, Steps
  <2> HIDE DEF x
  <2>2. Carried(x)
    BY <2>1 DEF Carried, TaskShape, Same
  <2> QED  BY <2>2 DEF x
<1>2. CASE C = {}
  <2>1. x \in Task /\ Same(x, r) /\ x.pc = "getLock" /\ x.rec.state = "failed" /\ x.rec.host = r.rec.host
    BY <1>2 DEF TryNext, Task, Same, Steps, SessionRecords, SessionStates
  <2> HIDE DEF x
  <2>2. Carried(x)
    BY <2>1 DEF Carried, TaskShape, Same, Ending
  <2> QED  BY <2>2 DEF x
<1> QED  BY <1>1, <1>2

LEMMA LockCarried ==
  ASSUME NEW r \in Task, TaskShape(r), r.s \in asked, r.pc \in {"getLock", "delLock"}
  PROVE  Carried([r EXCEPT !.pc = "delLock"]) /\ Carried(AfterLock(r))
<1> DEFINE x == [r EXCEPT !.pc = "delLock"]
           y == [r EXCEPT !.pc = "save"]
<1>1. x \in Task /\ Same(x, r) /\ x.rec = r.rec /\ x.pc = "delLock"
  BY DEF Task, Same, Steps
<1>2. y \in Task /\ Same(y, r) /\ y.rec = r.rec /\ y.pc = "save"
  BY DEF Task, Same, Steps
<1> HIDE DEF x, y
<1>3. Carried(x)
  BY <1>1 DEF Carried, TaskShape, Same
<1>4. r.kind # "create" => Carried(y)
  BY <1>2 DEF Carried, TaskShape, Same
<1> QED  BY <1>3, <1>4 DEF AfterLock, Carried, x, y

(* The steps that leave the store and the hosts alone.                     *)
LEMMA QuietTyped ==
  ASSUME Typed, NEW t \in Slots,
         LoadLeased(t) \/ Ignore(t) \/ Unarm(t) \/ FindHosts(t) \/ Arm(t) \/ GetLock(t)
           \/ DelLock(t) \/ Unduration(t) \/ Undisconnect(t)
  PROVE  Typed' /\ [Allocation!Next]_Allocation!vars
<1> DEFINE r == task[t]
<1>1. /\ TaskShape(r) /\ r \in Task /\ r.s \in asked \cup {NoSession}
      /\ r.pc \in {"loadLeased", "judge", "unarm", "find", "arm", "getLock", "delLock", "unduration",
                   "undisconnect"}
      /\ r.pc # "undisconnect" => r.s \in asked
  BY AtTask DEF LoadLeased, Ignore, Unarm, FindHosts, Arm, GetLock, DelLock, Unduration, Undisconnect
<1>2. /\ asked \subseteq Sessions /\ prepDL \subseteq asked /\ sessDL \subseteq asked
      /\ discDL \subseteq Hosts /\ playerLock \in [Players -> SessionOrNone]
      /\ record \in [Sessions -> SessionRecords] /\ StoredIn(asked, lease, record)
      /\ idleHosts \in [Games -> SUBSET Hosts]
  BY DEF Typed, MarketShape, IInv, StoreTypeOK
<1>3. Carried(Done)
  BY DEF Carried
<1>4. CASE LoadLeased(t)
  <2> DEFINE x == [r EXCEPT !.pc = "judge", !.rec = record[r.s]]
  <2>1. r.pc = "loadLeased" /\ Goto(t, x) /\ UNCHANGED <<storeVars, hostVars, marketRest>>
    BY <1>4 DEF LoadLeased, At
  <2>2. r.s \in asked /\ r.s \in Sessions
    BY <1>1, <1>2, <2>1
  <2>3. record[r.s] \in SessionRecords /\ RecordShape(r.s, record[r.s], asked)
    BY <1>2, <2>2 DEF StoredIn
  <2>4. x \in Task /\ Same(x, r) /\ x.pc = "judge" /\ x.rec = record[r.s]
    BY <1>1, <2>3 DEF Task, Same, Steps
  <2> HIDE DEF x
  <2>5. Carried(x)
    BY <1>1, <2>1, <2>2, <2>3, <2>4 DEF Carried, TaskShape, Same, RecordShape
  <2> QED  BY <1>2, <2>1, <2>5, QuietKeeps DEF marketRest
<1>5. CASE Ignore(t)
  <2>1. Goto(t, Finished(r)) /\ UNCHANGED <<storeVars, hostVars, playerLock, discDL, clients, asked>>
        /\ prepDL' \subseteq prepDL /\ sessDL' \subseteq sessDL
    BY <1>5 DEF Ignore
  <2> QED  BY <1>1, <1>2, <2>1, FinishedCarried, QuietKeeps
<1>6. CASE Unarm(t)
  <2> DEFINE x == [r EXCEPT !.pc = IF r.rec.state = "allocating" THEN "find" ELSE "getLock"]
  <2>1. r.pc = "unarm" /\ Goto(t, x)
    BY <1>6 DEF Unarm, At
  <2>2. x \in Task /\ Same(x, r) /\ x.rec = r.rec
        /\ x.pc = IF r.rec.state = "allocating" THEN "find" ELSE "getLock"
    BY <1>1 DEF Task, Same, Steps
  <2> HIDE DEF x
  <2>3. Carried(x)
    BY <1>1, <2>1, <2>2 DEF Carried, TaskShape, Same, Ending
  <2>4. prepDL' \subseteq asked /\ sessDL' \subseteq asked
        /\ UNCHANGED <<storeVars, hostVars, playerLock, discDL, clients, asked>>
    BY <1>2, <1>6 DEF Unarm
  <2> QED  BY <1>2, <2>1, <2>3, <2>4, QuietKeeps
<1>7. CASE FindHosts(t)
  <2> DEFINE C == {h \in idleHosts[GameOf[r.s]] \ r.rec.tried :
                     hostRec[h].state # "absent" /\ Connected(h)}
             x == TryNext([r EXCEPT !.cands = C])
  <2>1. r.pc = "find" /\ Goto(t, x) /\ UNCHANGED <<storeVars, hostVars, marketRest>>
    BY <1>7 DEF FindHosts, At
  <2>2. r.s \in Sessions
    <3>1. r.s \in asked
      BY <1>1, <2>1
    <3> QED  BY <1>2, <3>1
  <2>3. C \subseteq Hosts
    BY <1>2, <2>2, ConstantsAssumption
  <2> HIDE DEF C
  <2>4. Carried(x)
    BY <1>1, <2>1, <2>3, TryNextCarried
  <2> HIDE DEF x
  <2> QED  BY <1>2, <2>1, <2>4, QuietKeeps DEF marketRest
<1>8. CASE Arm(t)
  <2>1. Goto(t, Finished(r)) /\ UNCHANGED <<storeVars, hostVars, playerLock, sessDL, discDL, clients, asked>>
        /\ prepDL' = prepDL \cup {r.s} /\ r.s \in asked
    BY <1>1, <1>8 DEF Arm, At
  <2> QED  BY <1>1, <1>2, <2>1, FinishedCarried, QuietKeeps
<1>9. CASE GetLock(t)
  <2> DEFINE x == IF playerLock[PlayerOf[r.s]] = r.s THEN [r EXCEPT !.pc = "delLock"] ELSE AfterLock(r)
  <2>1. r.pc = "getLock" /\ Goto(t, x) /\ UNCHANGED <<storeVars, hostVars, marketRest>>
    BY <1>9 DEF GetLock, At
  <2>2. Carried(x)
    BY <1>1, <2>1, LockCarried
  <2> HIDE DEF x
  <2> QED  BY <1>2, <2>1, <2>2, QuietKeeps DEF marketRest
<1>10. CASE DelLock(t)
  <2>1. r.pc = "delLock" /\ Goto(t, AfterLock(r))
    BY <1>10 DEF DelLock, At
  <2>2. Carried(AfterLock(r))
    BY <1>1, <2>1, LockCarried
  <2>3. playerLock' \in [Players -> SessionOrNone]
    BY <1>2, <1>10 DEF DelLock, SessionOrNone
  <2>4. UNCHANGED <<storeVars, hostVars, prepDL, sessDL, discDL, clients, asked>>
    BY <1>10 DEF DelLock
  <2> QED  BY <1>2, <2>1, <2>2, <2>3, <2>4, QuietKeeps
<1>11. CASE Unduration(t) \/ Undisconnect(t)
  <2>1. Goto(t, Done) /\ UNCHANGED <<storeVars, hostVars, playerLock, prepDL, clients, asked>>
    BY <1>11 DEF Unduration, Undisconnect
  <2>2. sessDL' \subseteq asked /\ discDL' \subseteq Hosts
    BY <1>2, <1>11 DEF Unduration, Undisconnect
  <2> QED  BY <1>2, <1>3, <2>1, <2>2, QuietKeeps
<1> QED  BY <1>4, <1>5, <1>6, <1>7, <1>8, <1>9, <1>10, <1>11

(* The end of a proof about a step of a handler.                           *)
LEMMA StepKeeps ==
  ASSUME Typed, NEW t \in Slots, NEW r, Goto(t, r), Carried(r), StoreKept,
         AboutIn(asked, inbox', events', active', phase'),
         UNCHANGED <<up, link, conns, posts, phase, clients, asked, playerLock, discDL>>,
         prepDL' \subseteq asked, sessDL' \subseteq asked
  PROVE  Typed' /\ [Allocation!Next]_Allocation!vars
  BY HandlerKeeps DEF StoreKept, Typed, MarketShape

(* The events that move a session forward.                                 *)
LEMMA ForwardTyped ==
  ASSUME Typed, NEW t \in Slots, Acknowledge(t) \/ BecomeReady(t) \/ BecomeActive(t)
  PROVE  Typed' /\ [Allocation!Next]_Allocation!vars
<1> DEFINE r == task[t]
<1>1. /\ TaskShape(r) /\ r \in Task /\ r.s \in asked
      /\ r.rec \in SessionRecords /\ r.rec.host \in Hosts
      /\ r.rec.state \notin Terminal \cup {"none", "allocating"} /\ r.kind # "create"
      /\ r.pc = "judge"
  BY JudgedTask DEF Acknowledge, BecomeReady, BecomeActive, Judged, At
<1>2. prepDL \subseteq asked /\ sessDL \subseteq asked
  BY DEF Typed, MarketShape
<1>3. UNCHANGED <<hostVars, playerLock, discDL, clients, asked>>
  BY DEF Acknowledge, BecomeReady, BecomeActive, marketRest
<1>4. AboutIn(asked, inbox', events', active', phase') /\ UNCHANGED <<up, link, conns, posts, phase>>
  BY <1>3 DEF Typed, About, hostVars
<1>5. prepDL' \subseteq asked /\ sessDL' \subseteq asked
  BY <1>1, <1>2 DEF Acknowledge, BecomeReady, BecomeActive, marketRest
<1>6. CASE Acknowledge(t)
  <2> DEFINE rec == [r.rec EXCEPT !.state = IF @ \in Assigning THEN "preparing" ELSE @]
  <2>1. rec \in SessionRecords /\ rec.host \in Hosts /\ rec.state # "allocating"
    BY <1>1 DEF SessionRecords, SessionStates
  <2>2. SaveRecord(r.s, rec) /\ Goto(t, Done)
    BY <1>6 DEF Acknowledge
  <2> HIDE DEF rec
  <2>3. StoreKept
    BY <1>1, <2>1, <2>2, SaveKept
  <2> QED  BY <1>3, <1>4, <1>5, <2>2, <2>3, StepKeeps DEF Carried
<1>7. ASSUME NEW state \in {"ready", "active"}, Goto(t, [r EXCEPT !.pc = "save", !.rec.state = state]),
             UNCHANGED storeVars
      PROVE  Typed' /\ [Allocation!Next]_Allocation!vars
  <2> DEFINE x == [r EXCEPT !.pc = "save", !.rec.state = state]
  <2>1. x \in Task /\ Same(x, r) /\ x.pc = "save" /\ x.rec.state = state /\ x.rec.host = r.rec.host
    BY <1>1 DEF Task, Same, Steps, SessionRecords, SessionStates
  <2>2. Goto(t, x)
    BY <1>7
  <2> HIDE DEF x
  <2>3. Carried(x)
    BY <1>1, <2>1 DEF Carried, TaskShape, Same
  <2> QED  BY <1>3, <1>4, <1>5, <1>7, <2>2, <2>3, UnmovedKept, StepKeeps
<1>8. ASSUME SaveRecord(r.s, r.rec), Goto(t, Done)
      PROVE  Typed' /\ [Allocation!Next]_Allocation!vars
  <2>1. StoreKept
    BY <1>1, <1>8, SaveKept
  <2> QED  BY <1>3, <1>4, <1>5, <1>8, <2>1, StepKeeps DEF Carried
<1>9. CASE BecomeReady(t)
  BY <1>7, <1>8, <1>9 DEF BecomeReady
<1>10. CASE BecomeActive(t)
  BY <1>7, <1>8, <1>10 DEF BecomeActive
<1> QED  BY <1>6, <1>9, <1>10

(* The steps that release a host.                                          *)
LEMMA LeaveTyped ==
  ASSUME Typed, NEW t \in Slots, EndSession(t) \/ FailOrRetry(t)
  PROVE  Typed' /\ [Allocation!Next]_Allocation!vars
<1> DEFINE r == task[t]
<1>1. /\ TaskShape(r) /\ r \in Task /\ r.s \in asked
      /\ r.rec \in SessionRecords /\ r.rec.host \in Hosts
      /\ r.rec.state \notin Terminal \cup {"none", "allocating"} /\ r.kind # "create"
      /\ r.pc = "judge"
  BY JudgedTask DEF EndSession, FailOrRetry, Judged, At
<1>2. prepDL \subseteq asked /\ sessDL \subseteq asked
  BY DEF Typed, MarketShape
<1>3. UNCHANGED <<up, link, conns, posts, phase, events, active, marketRest>>
  BY DEF EndSession, FailOrRetry, hostVars, OnlyHosts
<1>4. AboutIn(asked, inbox', events', active', phase')
  <2>1. CASE UNCHANGED inbox
    BY <1>3, <2>1 DEF Typed, About
  <2>2. CASE Command(r.rec.host, "session.stop", r.s)
    BY <1>1, <1>3, <2>2, CommandKeeps DEF Typed
  <2> QED  BY <2>1, <2>2 DEF EndSession, FailOrRetry, hostVars
<1>5. StoreKept
  <2>1. CASE EndSession(t)
    <3>1. r.host \in Hosts
      BY <1>1, <2>1 DEF EndSession, Judged, TaskShape, EventTypes, TerminalEvents
    <3>2. ReleaseScript(r.host, r.s)
      BY <2>1 DEF EndSession
    <3> QED  BY <1>1, <3>1, <3>2, ReleaseKept
  <2>2. CASE FailOrRetry(t)
    <3>1. ReleaseScript(r.rec.host, r.s)
      BY <2>2 DEF FailOrRetry
    <3> QED  BY <1>1, <3>1, ReleaseKept
  <2> QED  BY <2>1, <2>2
<1>6. ASSUME NEW state \in {"ended", "failed", "allocating"},
             Goto(t, [r EXCEPT !.pc = "unarm", !.rec.state = state])
      PROVE  Typed' /\ [Allocation!Next]_Allocation!vars
  <2> DEFINE x == [r EXCEPT !.pc = "unarm", !.rec.state = state]
  <2>1. x \in Task /\ Same(x, r) /\ x.pc = "unarm" /\ x.rec.state = state /\ x.rec.host = r.rec.host
    BY <1>1 DEF Task, Same, Steps, SessionRecords, SessionStates
  <2>2. Goto(t, x)
    BY <1>6
  <2> HIDE DEF x
  <2>3. Carried(x)
    BY <1>1, <2>1 DEF Carried, TaskShape, Same
  <2> QED  BY <1>2, <1>3, <1>4, <1>5, <2>2, <2>3, StepKeeps DEF marketRest
<1>7. CASE EndSession(t)
  BY <1>6, <1>7 DEF EndSession
<1>8. CASE FailOrRetry(t)
  <2>1. CASE r.rec.state \in {"active", "ending"}
    BY <1>6, <1>8, <2>1 DEF FailOrRetry
  <2>2. CASE r.rec.state \notin {"active", "ending"}
    BY <1>6, <1>8, <2>2 DEF FailOrRetry
  <2> QED  BY <2>1, <2>2
<1> QED  BY <1>7, <1>8

(* The steps of allocateSession that reserve a host and prepare it.        *)
LEMMA ClaimTyped ==
  ASSUME Typed, NEW t \in Slots, NEW h \in Hosts, Claim(t, h)
  PROVE  Typed' /\ [Allocation!Next]_Allocation!vars
<1> DEFINE r0 == task[t]
           r == [r0 EXCEPT !.cands = @ \ {h}, !.cand = h, !.rec.tried = @ \cup {h}]
           rec == Allocated(r, h, "reserved")
<1>1. /\ TaskShape(r0) /\ r0 \in Task /\ r0.s \in asked /\ r0.pc = "claim"
  BY AtTask DEF Claim
<1>2. /\ r \in Task /\ Same(r, r0) /\ r.pc = "claim" /\ r.rec.state = "allocating"
      /\ r.rec.host = r0.rec.host /\ r.cands \in SUBSET Hosts /\ r.cand = h
  BY <1>1 DEF Task, Same, Steps, SessionRecords, TaskShape
<1>3. rec \in SessionRecords /\ rec.host = h /\ rec.state = "reserved"
  BY <1>2 DEF Allocated, Task, SessionRecords, SessionStates
<1>4. /\ UNCHANGED <<hostVars, marketRest>>
      /\ IF Claimable(h, r.s) THEN ClaimScript(h, r.s, rec) /\ Goto(t, [r EXCEPT !.pc = "send"])
         ELSE UNCHANGED storeVars /\ Goto(t, TryNext(r))
  BY DEF Claim
<1>5. AboutIn(asked, inbox', events', active', phase') /\ UNCHANGED <<up, link, conns, posts, phase>>
  BY <1>4 DEF Typed, About, hostVars
<1>6. prepDL' \subseteq asked /\ sessDL' \subseteq asked
  BY <1>4 DEF Typed, MarketShape, marketRest
<1>7. TaskShape(r) /\ r.s \in asked
  <2> HIDE DEF r
  <2> QED  BY <1>1, <1>2 DEF TaskShape, Same
<1> HIDE DEF r, rec
<1>8. CASE Claimable(h, r.s)
  <2> DEFINE x == [r EXCEPT !.pc = "send"]
  <2>1. x \in Task /\ Same(x, r) /\ x.rec = r.rec /\ x.pc = "send" /\ x.cand = h
    BY <1>2 DEF Task, Same, Steps
  <2>2. Goto(t, x)
    BY <1>4, <1>8
  <2> HIDE DEF x
  <2>3. Carried(x)
    BY <1>2, <1>7, <2>1 DEF Carried, TaskShape, Same
  <2>4. StoreKept
    BY <1>3, <1>4, <1>7, <1>8, ClaimKept
  <2> QED  BY <1>4, <1>5, <1>6, <2>2, <2>3, <2>4, StepKeeps DEF marketRest
<1>9. CASE ~Claimable(h, r.s)
  <2>1. r = [r EXCEPT !.cands = r.cands]
    BY <1>2 DEF Task
  <2>2. Carried(TryNext(r))
    BY <1>2, <1>7, <2>1, TryNextCarried
  <2>3. StoreKept /\ Goto(t, TryNext(r))
    BY <1>4, <1>9, UnmovedKept
  <2> QED  BY <1>4, <1>5, <1>6, <2>2, <2>3, StepKeeps DEF marketRest
<1> QED  BY <1>8, <1>9

LEMMA SendTyped ==
  ASSUME Typed, NEW t \in Slots, SendPrepare(t)
  PROVE  Typed' /\ [Allocation!Next]_Allocation!vars
<1> DEFINE r == task[t]
           rec == Allocated(r, r.cand, "preparing")
           x == [r EXCEPT !.pc = "arm", !.cand = NoHost, !.cands = {}]
<1>1. /\ TaskShape(r) /\ r \in Task /\ r.s \in asked /\ r.pc = "send" /\ r.cand \in Hosts
  BY AtTask DEF SendPrepare, TaskShape
<1>2. rec \in SessionRecords /\ rec.host \in Hosts /\ rec.state = "preparing"
  BY <1>1 DEF Allocated, Task, SessionRecords, SessionStates
<1>3. x \in Task /\ Same(x, r) /\ x.rec = r.rec /\ x.pc = "arm"
  BY <1>1 DEF Task, Same, Steps
<1>4. /\ UNCHANGED <<events, OnlyHosts, marketRest>>
      /\ IF Connected(r.cand)
         THEN Command(r.cand, "session.prepare", r.s) /\ SaveRecord(r.s, rec) /\ Goto(t, x)
         ELSE ReleaseScript(r.cand, r.s) /\ Goto(t, TryNext(r)) /\ UNCHANGED inbox
  BY DEF SendPrepare
<1> HIDE DEF rec, x
<1>5. prepDL' \subseteq asked /\ sessDL' \subseteq asked
  BY <1>4 DEF Typed, MarketShape, marketRest
<1>6. CASE Connected(r.cand)
  <2>1. StoreKept
    BY <1>1, <1>2, <1>4, <1>6, SaveKept
  <2>2. AboutIn(asked, inbox', events', active', phase')
    BY <1>1, <1>4, <1>6, CommandKeeps DEF Typed, OnlyHosts
  <2>3. Carried(x)
    BY <1>1, <1>3 DEF Carried, TaskShape, Same
  <2> QED  BY <1>4, <1>5, <1>6, <2>1, <2>2, <2>3, StepKeeps DEF marketRest, OnlyHosts
<1>7. CASE ~Connected(r.cand)
  <2>1. r = [r EXCEPT !.cands = r.cands] /\ r.cands \in SUBSET Hosts
    BY <1>1 DEF Task
  <2>2. Carried(TryNext(r))
    BY <1>1, <2>1, TryNextCarried
  <2>3. StoreKept
    BY <1>1, <1>4, <1>7, ReleaseKept
  <2>4. AboutIn(asked, inbox', events', active', phase')
    BY <1>4, <1>7 DEF Typed, About, OnlyHosts
  <2> QED  BY <1>4, <1>5, <1>7, <2>2, <2>3, <2>4, StepKeeps DEF marketRest, OnlyHosts
<1> QED  BY <1>6, <1>7

(* The steps that end a session, or note that it is over.                  *)
LEMMA EndTyped ==
  ASSUME Typed, NEW t \in Slots, StopOrphan(t) \/ Cancel(t) \/ Save(t) \/ ExpireDuration(t)
  PROVE  Typed' /\ [Allocation!Next]_Allocation!vars
<1> DEFINE r == task[t]
<1>1. prepDL' \subseteq asked /\ sessDL' \subseteq asked
      /\ UNCHANGED <<up, link, conns, posts, active, phase, events, marketRest>>
  BY DEF StopOrphan, Cancel, Save, ExpireDuration, OnlyHosts, hostVars, marketRest, Typed, MarketShape
<1>2. Carried(Done)
  BY DEF Carried
<1>3. CASE StopOrphan(t)
  <2>1. TaskShape(r) /\ r.s \in asked /\ r.pc = "orphan"
    BY <1>3, AtTask DEF StopOrphan
  <2>2. r.host \in Hosts
    BY <2>1 DEF TaskShape, EventTypes
  <2>3. AboutIn(asked, inbox', events', active', phase')
    BY <1>1, <1>3, <2>1, <2>2, CommandKeeps DEF Typed, StopOrphan
  <2>4. StoreKept /\ Goto(t, Done)
    BY <1>3, UnmovedKept DEF StopOrphan
  <2> QED  BY <1>1, <1>2, <2>3, <2>4, StepKeeps DEF marketRest
<1>4. CASE Cancel(t) \/ ExpireDuration(t)
  <2>1. /\ TaskShape(r) /\ r \in Task /\ r.s \in asked
        /\ r.rec \in SessionRecords /\ r.rec.host \in Hosts /\ r.kind # "create"
        /\ r.s # NoSession
    BY <1>4, JudgedTask DEF Cancel, ExpireDuration, Judged
  <2>2. AboutIn(asked, inbox', events', active', phase')
    <3>1. Command(r.rec.host, "session.stop", r.s)
      BY <1>4 DEF Cancel, ExpireDuration
    <3> QED  BY <1>1, <2>1, <3>1, CommandKeeps DEF Typed
  <2>3. CASE Cancel(t)
    <3> DEFINE x == [r EXCEPT !.pc = "getLock", !.rec.state = "ending"]
    <3>1. /\ x \in Task /\ Same(x, r) /\ x.pc = "getLock" /\ x.rec.state = "ending"
          /\ x.rec.host = r.rec.host
      BY <2>1 DEF Task, Same, Steps, SessionRecords, SessionStates
    <3>2. Goto(t, x) /\ StoreKept
      BY <2>3, UnmovedKept DEF Cancel
    <3> HIDE DEF x
    <3>3. Carried(x)
      BY <2>1, <3>1 DEF Carried, TaskShape, Same, Ending
    <3> QED  BY <1>1, <2>2, <3>2, <3>3, StepKeeps DEF marketRest
  <2>4. CASE ExpireDuration(t)
    <3> DEFINE x == [r EXCEPT !.pc = "unduration"]
               rec == [r.rec EXCEPT !.state = "ending"]
    <3>1. /\ x \in Task /\ Same(x, r) /\ x.pc = "unduration"
          /\ rec \in SessionRecords /\ rec.host = r.rec.host /\ rec.state = "ending"
      BY <2>1 DEF Task, Same, Steps, SessionRecords, SessionStates
    <3>2. Goto(t, x) /\ SaveRecord(r.s, rec)
      BY <2>4 DEF ExpireDuration
    <3> HIDE DEF x, rec
    <3>3. Carried(x) /\ StoreKept
      BY <2>1, <3>1, <3>2, SaveKept DEF Carried, TaskShape, Same
    <3> QED  BY <1>1, <2>2, <3>2, <3>3, StepKeeps DEF marketRest
  <2> QED  BY <1>4, <2>3, <2>4
<1>5. CASE Save(t)
  <2>1. TaskShape(r) /\ r \in Task /\ r.s \in asked /\ r.pc = "save"
    BY <1>5, AtTask DEF Save
  <2>2. r.rec \in SessionRecords /\ r.rec.host \in Hosts /\ r.rec.state # "allocating"
    BY <2>1 DEF TaskShape, Task, Ending
  <2>3. SaveRecord(r.s, r.rec) /\ Goto(t, Finished(r)) /\ UNCHANGED hostVars
    BY <1>5 DEF Save
  <2>4. StoreKept
    BY <2>1, <2>2, <2>3, SaveKept
  <2>5. AboutIn(asked, inbox', events', active', phase')
    BY <2>3 DEF Typed, About, hostVars
  <2> QED  BY <1>1, <2>1, <2>3, <2>4, <2>5, FinishedCarried, StepKeeps DEF marketRest
<1> QED  BY <1>3, <1>4, <1>5

(* Every step of a handler that has been started.                          *)
LEMMA ResumeTyped ==
  ASSUME Typed, NEW t \in Slots, Resume(t)
  PROVE  Typed' /\ [Allocation!Next]_Allocation!vars
  BY LoadTyped, QuietTyped, ForwardTyped, LeaveTyped, ClaimTyped, SendTyped, EndTyped DEF Resume

-----------------------------------------------------------------------------
(* Starting a handler.                                                     *)
LEMMA CreateTyped ==
  ASSUME Typed, NEW t \in Slots, NEW s \in Sessions, CreateSession(t, s)
  PROVE  Typed' /\ [Allocation!Next]_Allocation!vars
<1> DEFINE x == [NewTask("find", "create", s) EXCEPT !.rec = NewSession]
<1>1. /\ x \in Task /\ x.pc = "find" /\ x.kind = "create" /\ x.s = s /\ x.rec = NewSession
      /\ x.host = NoHost
  BY HostAssumption DEF NewTask, Task, NewSession, SessionRecords, SessionStates, Steps, Kinds,
     SessionOrNone
<1>2. TaskShape(x)
  <2> HIDE DEF x
  <2> QED  BY <1>1, ConstantsAssumption DEF TaskShape, NewSession, EventTypes, TerminalEvents
<1>3. /\ asked' = asked \cup {s} /\ asked \subseteq asked' /\ asked' \subseteq Sessions
      /\ UNCHANGED <<storeVars, hostVars, prepDL, sessDL, discDL, clients>>
      /\ Goto(t, x) \/ UNCHANGED task
  BY DEF CreateSession, Typed, MarketShape
<1> HIDE DEF x
<1>4. StoreKept
  BY <1>3, UnmovedKept
<1>5. HostShape' /\ About(asked)'
  BY <1>3, AboutMore DEF Typed, About, hostVars, HostShape
<1>6. playerLock' \in [Players -> SessionOrNone]
  BY DEF CreateSession, Typed, MarketShape, SessionOrNone
<1>7. task' \in [Slots -> Task \cup {Done}]
  BY <1>1, <1>3 DEF Typed, MarketShape, Goto
<1>8. ASSUME NEW u \in Slots, Running(u)'
      PROVE  TaskShape(task'[u]) /\ task'[u].s \in asked' \cup {NoSession}
  <2>1. CASE task'[u] = task[u]
    BY <1>3, <1>8, <2>1 DEF Typed, MarketShape, Running
  <2>2. CASE task'[u] = x
    BY <1>1, <1>2, <1>3, <2>2
  <2>3. task'[u] = task[u] \/ task'[u] = x
    BY <1>3 DEF Typed, MarketShape, Goto
  <2> QED  BY <2>1, <2>2, <2>3
<1>9. StoredIn(asked', lease', record')
  BY <1>3, <1>4 DEF StoreKept, StoredIn, RecordShape
<1>10. MarketShape'
  BY <1>3, <1>6, <1>7, <1>8, <1>9 DEF Typed, MarketShape
<1> QED  BY <1>4, <1>5, <1>10 DEF StoreKept, Typed

LEMMA StartTyped ==
  ASSUME Typed, NEW t \in Slots,
         \/ \E s \in Sessions : DeleteSession(t, s)
         \/ ScanPreparations(t) \/ ScanSessions(t) \/ ScanDisconnected(t)
  PROVE  Typed' /\ [Allocation!Next]_Allocation!vars
<1>1. /\ asked \subseteq Sessions /\ prepDL \subseteq asked /\ sessDL \subseteq asked
      /\ discDL \subseteq Hosts /\ playerLock \in [Players -> SessionOrNone]
      /\ record \in [Sessions -> SessionRecords] /\ StoredIn(asked, lease, record)
  BY DEF Typed, MarketShape, IInv, StoreTypeOK
<1>2. NoSessionRecord \in SessionRecords /\ 0 \in 0 .. MaxConn
  BY HostAssumption DEF NoSessionRecord, SessionRecords
<1>3. ASSUME NEW s \in Sessions, DeleteSession(t, s)
      PROVE  Typed' /\ [Allocation!Next]_Allocation!vars
  <2> DEFINE x == [NewTask("judge", "delete", s) EXCEPT !.rec = record[s]]
  <2>1. x \in Task /\ x.pc = "judge" /\ x.kind = "delete" /\ x.s = s /\ x.rec = record[s]
    BY <1>1, <1>2 DEF NewTask, Task, Steps, Kinds, SessionOrNone
  <2>2. Goto(t, x) /\ UNCHANGED <<storeVars, hostVars, marketRest>> /\ record[s].state \in Live
    BY <1>3 DEF DeleteSession
  <2>3. RecordShape(s, record[s], asked)
    BY <1>1 DEF StoredIn
  <2> HIDE DEF x
  <2>4. Carried(x)
    BY <2>1, <2>2, <2>3, ConstantsAssumption
    DEF Carried, TaskShape, RecordShape, EventTypes, TerminalEvents, Live, SessionStates
  <2> QED  BY <1>1, <2>2, <2>4, QuietKeeps DEF marketRest
<1>4. ASSUME NEW kind \in Timers, NEW s \in SessionOrNone, NEW h \in Hosts \cup {NoHost},
             kind = "host_disconnected" => s = NoSession /\ h \in Hosts,
             kind # "host_disconnected" => s \in asked, Scan(t, kind, s, h)
      PROVE  Typed' /\ [Allocation!Next]_Allocation!vars
  <2> DEFINE x == [NewTask("load", kind, s) EXCEPT !.host = h]
  <2>1. x \in Task /\ x.pc = "load" /\ x.kind = kind /\ x.s = s /\ x.host = h
    BY <1>2 DEF NewTask, Task, Steps, Kinds
  <2>2. Goto(t, x) /\ UNCHANGED <<storeVars, hostVars, marketRest>>
    BY <1>4 DEF Scan
  <2> HIDE DEF x
  <2>3. kind \notin EventTypes /\ kind # "create"
    BY DEF Timers, EventTypes, TerminalEvents
  <2>4. Carried(x)
    BY <1>1, <1>4, <2>1, <2>3, ConstantsAssumption DEF Carried, TaskShape
  <2> QED  BY <1>1, <2>2, <2>4, QuietKeeps DEF marketRest
<1>5. CASE ScanPreparations(t)
  BY <1>1, <1>4, <1>5 DEF ScanPreparations, Timers, SessionOrNone
<1>6. CASE ScanSessions(t)
  BY <1>1, <1>4, <1>6 DEF ScanSessions, Timers, SessionOrNone
<1>7. CASE ScanDisconnected(t)
  BY <1>1, <1>4, <1>7 DEF ScanDisconnected, Timers, SessionOrNone
<1> QED  BY <1>3, <1>5, <1>6, <1>7

LEMMA TakeTyped ==
  ASSUME Typed, NEW t \in Slots, NEW h \in Hosts, NEW k \in Conns, TakeEvent(t, h, k)
  PROVE  Typed' /\ [Allocation!Next]_Allocation!vars
<1> DEFINE e == Head(events[h][k])
           New(pc, s, rec) == [NewTask(pc, e.type, s) EXCEPT !.host = h, !.conn = k, !.rec = rec]
<1>1. /\ asked \subseteq Sessions /\ prepDL \subseteq asked /\ sessDL \subseteq asked
      /\ record \in [Sessions -> SessionRecords] /\ StoredIn(asked, lease, record)
      /\ inbox \in [Hosts -> Seq(CommandsOf(asked))]
      /\ events \in [Hosts -> [Conns -> Seq(EventsOf(asked))]]
  BY DEF Typed, MarketShape, IInv, StoreTypeOK, About, AboutIn
<1>2. e \in EventsOf(asked) /\ Tail(events[h][k]) \in Seq(EventsOf(asked))
  <2>1. events[h][k] \in Seq(EventsOf(asked)) /\ events[h][k] # <<>>
    BY <1>1 DEF TakeEvent
  <2> QED  BY <2>1, SeqKept
<1>3. /\ events' = [events EXCEPT ![h][k] = Tail(@)]
      /\ UNCHANGED <<storeVars, inbox, OnlyHosts, marketRest>>
  BY DEF TakeEvent
<1>4. StoreKept
  BY <1>3, UnmovedKept
<1>5. AboutIn(asked, inbox', events', active', phase')
  <2>1. events' \in [Hosts -> [Conns -> Seq(EventsOf(asked))]]
    BY <1>1, <1>2, <1>3
  <2> QED  BY <1>3, <2>1 DEF Typed, About, AboutIn, OnlyHosts
<1>6. e.type \in EventTypes /\ e.s \in asked \cup {NoSession}
      /\ (e.type # "host.hello" => e.s \in asked)
  BY <1>2 DEF EventsOf, EventTypes
<1>7. NoSessionRecord \in SessionRecords /\ k \in 0 .. MaxConn
  BY HostAssumption DEF NoSessionRecord, SessionRecords, Conns
<1> HIDE DEF e
<1>8. ASSUME NEW pc \in {"judge", "orphan", "loadLeased"}, NEW s \in asked, NEW rec \in SessionRecords,
             pc = "judge" => RecordShape(s, rec, asked), pc = "orphan" => e.type = "host.hello",
             Goto(t, New(pc, s, rec))
      PROVE  Typed' /\ [Allocation!Next]_Allocation!vars
  <2> DEFINE x == New(pc, s, rec)
  <2>1. x \in Task /\ x.pc = pc /\ x.kind = e.type /\ x.s = s /\ x.rec = rec /\ x.host = h
    BY <1>1, <1>6, <1>7 DEF NewTask, Task, Steps, Kinds, SessionOrNone
  <2>2. Goto(t, x)
    BY <1>8
  <2> HIDE DEF x
  <2>3. e.type # "create" /\ e.type # "host_disconnected" /\ s # NoSession
    BY <1>1, <1>6, ConstantsAssumption DEF EventTypes, TerminalEvents
  <2>4. Carried(x)
    BY <1>8, <2>1, <2>3 DEF Carried, TaskShape, RecordShape
  <2> QED  BY <1>1, <1>3, <1>4, <1>5, <2>2, <2>4, StepKeeps DEF OnlyHosts, marketRest
<1>9. CASE e.type # "host.hello"
  <2>1. Goto(t, New("judge", e.s, record[e.s]))
    BY <1>9 DEF TakeEvent, e
  <2>2. e.s \in asked /\ record[e.s] \in SessionRecords /\ RecordShape(e.s, record[e.s], asked)
    BY <1>1, <1>6, <1>9 DEF StoredIn
  <2> HIDE DEF New
  <2> QED  BY <1>8, <1>9, <2>1, <2>2
<1>10. CASE e.type = "host.hello"
  <2>1. \/ e.s = lease[h] /\ UNCHANGED task
        \/ e.s # lease[h] /\ e.s # NoSession /\ Goto(t, New("orphan", e.s, NoSessionRecord))
        \/ e.s # lease[h] /\ e.s = NoSession /\ Goto(t, New("loadLeased", lease[h], NoSessionRecord))
    BY <1>10 DEF TakeEvent, e
  <2>2. CASE e.s = lease[h] /\ UNCHANGED task
    <3>1. task = [u \in Slots |-> task[u]] /\ (task[t] = Done \/ TaskShape(task[t]))
      BY DEF Typed, MarketShape, Running
    <3>2. Goto(t, task[t]) /\ Carried(task[t])
      BY <2>2, <3>1 DEF Typed, MarketShape, Running, Goto, Carried
    <3> QED  BY <1>1, <1>3, <1>4, <1>5, <3>2, StepKeeps DEF OnlyHosts, marketRest
  <2>3. CASE e.s # lease[h] /\ e.s # NoSession /\ Goto(t, New("orphan", e.s, NoSessionRecord))
    <3> HIDE DEF New
    <3> QED  BY <1>6, <1>7, <1>8, <1>10, <2>3
  <2>4. CASE e.s # lease[h] /\ e.s = NoSession /\ Goto(t, New("loadLeased", lease[h], NoSessionRecord))
    <3>1. lease[h] \in asked
      BY <1>1, <2>4 DEF StoredIn
    <3> HIDE DEF New
    <3> QED  BY <1>7, <1>8, <2>4, <3>1
  <2> QED  BY <2>1, <2>2, <2>3, <2>4
<1> QED  BY <1>9, <1>10

-----------------------------------------------------------------------------
(* The steps of the hosts and of the control connections.                  *)
LEMMA EnvironmentTyped ==
  ASSUME Typed, NEW h \in Hosts,
         HostNext(h) \/ Accept(h) \/ Closed(h) \/ (\E st \in HostStates : TakePresence(h, st))
           \/ PresenceExpires(h) \/ LeaseLapses(h)
  PROVE  Typed' /\ [Allocation!Next]_Allocation!vars
<1>1. /\ IInv /\ HostShape /\ About(asked) /\ MarketShape /\ asked \subseteq Sessions
  BY DEF Typed, MarketShape
<1>2. CASE HostNext(h)
  <2>1. UNCHANGED <<storeVars, marketVars>> /\ HostStep(h)
    BY <1>2 DEF HostNext
  <2>2. HostShape' /\ AboutIn(asked, inbox', events', active', phase')
    BY <1>1, <2>1, HostStepKeeps
  <2>3. StoreKept
    BY <2>1, UnmovedKept
  <2>4. UNCHANGED marketVars
    BY <2>1
  <2>5. MarketShape'
    BY <1>1, <2>3, <2>4 DEF MarketShape, marketVars, StoreKept, Running
  <2> QED  BY <2>2, <2>3, <2>4, <2>5 DEF Typed, About, StoreKept, marketVars
<1>3. CASE Accept(h)
  <2>1. conns[h] + 1 \in 0 .. MaxConn
    BY <1>1, <1>3, HostAssumption DEF Accept, HostShape
  <2>2. HostShape'
    BY <1>1, <1>3, <2>1 DEF Accept, HostShape
  <2>3. About(asked)'
    <3>1. inbox[h] \in Seq(CommandsOf(asked))
          /\ [type |-> "control.ready", s |-> NoSession] \in CommandsOf(asked)
      BY <1>1 DEF About, AboutIn, CommandsOf
    <3>2. Append(inbox[h], [type |-> "control.ready", s |-> NoSession]) \in Seq(CommandsOf(asked))
      BY <3>1, SeqKept
    <3> QED  BY <1>1, <1>3, <3>2 DEF Accept, About, AboutIn
  <2>4. StoreKept
    BY <1>3, UnmovedKept DEF Accept
  <2>5. MarketShape'
    BY <1>1, <1>3, <2>1, <2>4 DEF Accept, MarketShape, StoreKept, Running
  <2> QED  BY <2>2, <2>3, <2>4, <2>5 DEF Typed, StoreKept
<1>4. CASE Closed(h)
  <2>1. StoreKept
    BY <1>4, UnmovedKept DEF Closed
  <2>2. MarketShape'
    BY <1>1, <1>4, <2>1, HostAssumption DEF Closed, MarketShape, StoreKept, Running
  <2>3. HostShape' /\ About(asked)'
    BY <1>1, <1>4 DEF Closed, hostVars, HostShape, About
  <2> QED  BY <2>1, <2>2, <2>3 DEF Typed, StoreKept
<1>5. ASSUME NEW st \in HostStates, TakePresence(h, st)
      PROVE  Typed' /\ [Allocation!Next]_Allocation!vars
  <2>1. /\ PresenceScript(h, st, Offers[h])
        /\ posts' = [posts EXCEPT ![h] = @ \ {st}]
    BY <1>5 DEF TakePresence
  <2>2. Offers[h] \in SUBSET Games
    BY HostAssumption
  <2>3. IInv' /\ Allocation!Next
    BY <1>1, <2>1, <2>2, PresenceInv, PresenceRefines
  <2>4. UNCHANGED <<up, link, conns, inbox, events, active, phase, marketVars>>
    BY <1>5 DEF TakePresence
  <2>5. UNCHANGED <<lease, record>>
    BY <2>1 DEF PresenceScript
  <2>6. UNCHANGED marketVars
    BY <2>4
  <2>7. HostShape' /\ About(asked)'
    BY <1>1, <2>1, <2>4, <2>6 DEF HostShape, About, marketVars
  <2>8. MarketShape'
    BY <1>1, <2>5, <2>6 DEF MarketShape, marketVars, Running
  <2> QED  BY <2>3, <2>7, <2>8 DEF Typed
<1>6. CASE PresenceExpires(h) \/ LeaseLapses(h)
  <2>1. HostRecordExpires(h) \/ LeaseExpires(h)
    BY <1>6 DEF PresenceExpires, LeaseLapses
  <2>2. IInv' /\ Allocation!Next
    BY <1>1, <2>1, ExpiryInv, ExpiryRefines
  <2>3. UNCHANGED hostVars /\ UNCHANGED marketVars /\ UNCHANGED record
    BY <1>6, <2>1 DEF PresenceExpires, LeaseLapses, HostRecordExpires, LeaseExpires
  <2>4. \A x \in Hosts : lease'[x] \in {lease[x], NoSession}
    BY <1>1, <2>1 DEF HostRecordExpires, LeaseExpires, IInv, StoreTypeOK
  <2>5. HostShape' /\ About(asked)'
    BY <1>1, <2>3 DEF HostShape, About, hostVars, marketVars
  <2>6. StoredIn(asked', lease', record')
    BY <1>1, <2>3, <2>4 DEF MarketShape, StoredIn, marketVars
  <2>7. MarketShape'
    BY <1>1, <2>3, <2>6 DEF MarketShape, marketVars, Running
  <2> QED  BY <2>2, <2>5, <2>7 DEF Typed
<1> QED  BY <1>2, <1>3, <1>4, <1>5, <1>6

LEMMA RestartTyped ==
  ASSUME Typed, Restart
  PROVE  Typed' /\ [Allocation!Next]_Allocation!vars
<1>1. StoreKept
  BY UnmovedKept DEF Restart
<1>2. HostShape'
  BY HostAssumption DEF Restart, Typed, HostShape
<1>3. <<>> \in Seq(CommandsOf(asked)) /\ <<>> \in Seq(EventsOf(asked))
  OBVIOUS
<1>4. About(asked)'
  BY <1>3 DEF Restart, Typed, About, AboutIn
<1>5. MarketShape'
  BY <1>1, HostAssumption DEF Restart, Typed, MarketShape, StoreKept, Running
<1> QED  BY <1>1, <1>2, <1>4, <1>5 DEF Typed, StoreKept

LEMMA StepTyped ==
  ASSUME Typed, [Next]_vars
  PROVE  Typed' /\ [Allocation!Next]_Allocation!vars
<1>1. CASE UNCHANGED vars
  <2>1. UNCHANGED storeVars /\ UNCHANGED hostVars /\ UNCHANGED marketVars
    BY <1>1 DEF vars
  <2>2. StoreKept
    BY <2>1, UnmovedKept
  <2>3. HostShape' /\ About(asked)'
    BY <2>1 DEF Typed, HostShape, About, hostVars, marketVars
  <2>4. MarketShape'
    BY <2>1, <2>2 DEF Typed, MarketShape, marketVars, StoreKept, Running
  <2> QED  BY <2>2, <2>3, <2>4 DEF Typed, StoreKept
<1>2. CASE Next
  BY <1>2, CreateTyped, StartTyped, TakeTyped, ResumeTyped, EnvironmentTyped, RestartTyped
  DEF Next, TakeEvents
<1> QED  BY <1>1, <1>2

LEMMA InitTyped == Init => Typed
<1> SUFFICES ASSUME Init PROVE Typed
  OBVIOUS
<1>1. IInv
  BY InitInv DEF Init
<1>2. HostShape
  BY HostAssumption DEF Init, HostInit, HostShape, Phases
<1>3. About(asked)
  BY DEF Init, HostInit, About, AboutIn
<1>4. MarketShape
  BY HostAssumption DEF Init, StoreInit, MarketShape, StoredIn, RecordShape, SessionOrNone, Running,
     NoSessionRecord
<1> QED  BY <1>1, <1>2, <1>3, <1>4 DEF Typed

LEMMA TypedHolds == Spec => []Typed
  BY InitTyped, StepTyped, PTL DEF Spec

(* Every key, every message on the wire and every handler in progress has  *)
(* its type: in particular no event, deadline or lease names a session that*)
(* was never requested.                                                    *)
THEOREM MarketTypeCorrect == Spec => []TypeOK
<1>1. Typed => TypeOK
  <2> SUFFICES ASSUME Typed PROVE TypeOK
    OBVIOUS
  <2>1. CommandsOf(asked) \subseteq Commands /\ EventsOf(asked) \subseteq Events
        /\ asked \subseteq Sessions
    BY DEF CommandsOf, EventsOf, Commands, Events, SessionOrNone, Typed, MarketShape, EventTypes
  <2>2. /\ inbox \in [Hosts -> Seq(CommandsOf(asked))]
        /\ events \in [Hosts -> [Conns -> Seq(EventsOf(asked))]]
        /\ active \in [Hosts -> asked \cup {NoSession}]
    BY DEF Typed, About, AboutIn
  <2>3. inbox \in [Hosts -> Seq(Commands)]
    <3> SUFFICES ASSUME NEW h \in Hosts PROVE inbox[h] \in Seq(Commands)
      BY <2>2
    <3>1. inbox[h] \in Seq(CommandsOf(asked))
      BY <2>2
    <3> QED  BY <2>1, <3>1
  <2>4. events \in [Hosts -> [Conns -> Seq(Events)]]
    <3> SUFFICES ASSUME NEW h \in Hosts, NEW k \in Conns PROVE events[h][k] \in Seq(Events)
      BY <2>2
    <3>1. events[h][k] \in Seq(EventsOf(asked))
      BY <2>2
    <3> QED  BY <2>1, <3>1
  <2>5. HostTypeOK
    BY <2>1, <2>2, <2>3, <2>4 DEF Typed, HostShape, HostTypeOK, SessionOrNone
  <2> QED  BY <2>5 DEF Typed, IInv, MarketShape, TypeOK, Running, TaskShape
<1> QED  BY <1>1, TypedHolds, PTL

(* A leased host is never recorded idle, whichever handlers, presence posts*)
(* and expiries fall between a claim and its release.                      *)
THEOREM MarketLeasedNeverIdle == Spec => []LeasedNeverIdle
  BY TypedHolds, PTL DEF Typed, IInv

(* Handlers interleaved in any way, lost hosts, lapsed leases and restarts *)
(* of the matchmaker included, do to the pool of hosts only what the       *)
(* scripts allow: a host is taken by one session at a time, and only when  *)
(* free.                                                                   *)
THEOREM MarketImplementsAllocation == Spec => ImplementsAllocation
<1>1. Init => Allocation!Init
  BY DEF Init, StoreInit, Allocation!Init, NoRecord
<1> QED  BY <1>1, StepTyped, TypedHolds, PTL DEF Spec, ImplementsAllocation, Allocation!Spec

-----------------------------------------------------------------------------
(* Who lets a host go.                                                     *)

(* RELEASE_SCRIPT changes the lease of its session only.                   *)
LEMMA ReleasesItsOwn ==
  ASSUME Typed, NEW h \in Hosts, NEW k, NEW s, ReleaseScript(k, s), lease'[h] # lease[h]
  PROVE  lease[h] = s
  BY DEF ReleaseScript, Typed, IInv, StoreTypeOK

(* CLAIM_SCRIPT changes no lease there is.                                 *)
LEMMA ClaimsTheFree ==
  ASSUME Typed, NEW h \in Hosts, NEW k, NEW s, NEW rec, ClaimScript(k, s, rec), lease'[h] # lease[h]
  PROVE  ~Leased(h)
  BY DEF ClaimScript, Claimable, Leased, Typed, IInv, StoreTypeOK

(* Whatever overlaps, a host leaves its session by a step of a handler of  *)
(* that very session or by the expiry of the lease.                        *)
THEOREM HostsAreLetGoByTheirOwn == Spec => LetGoByItsOwn
<1> DEFINE Lets(h) == \E t \in Slots : Running(t) /\ task[t].s = lease[h] /\ Resume(t)
           Own == \A h \in Hosts : Leased(h) /\ lease'[h] # lease[h] =>
                    \/ LeaseLapses(h)
                    \/ Lets(h)
<1>1. ASSUME Typed, Next PROVE Own
  <2> SUFFICES ASSUME NEW h \in Hosts, Leased(h), lease'[h] # lease[h]
               PROVE  LeaseLapses(h) \/ Lets(h)
    OBVIOUS
  <2>1. ASSUME NEW t \in Slots, Resume(t) PROVE Lets(h)
    <3> SUFFICES Running(t) /\ task[t].s = lease[h]
      BY <2>1
    <3>1. CASE EndSession(t) \/ FailOrRetry(t)
      BY <1>1, <3>1, ReleasesItsOwn DEF EndSession, FailOrRetry, Judged, At
    <3>2. CASE SendPrepare(t)
      BY <1>1, <3>2, ReleasesItsOwn DEF SendPrepare, SaveRecord, At
    <3>3. ASSUME NEW k \in Hosts, Claim(t, k) PROVE FALSE
      BY <1>1, <3>3, ClaimsTheFree DEF Claim, storeVars
    <3>4. ASSUME \/ Load(t) \/ LoadLeased(t) \/ StopOrphan(t) \/ Ignore(t) \/ Unarm(t) \/ FindHosts(t)
                 \/ Arm(t) \/ Cancel(t) \/ GetLock(t) \/ DelLock(t) \/ Unduration(t) \/ Undisconnect(t)
          PROVE FALSE
      BY <3>4 DEF storeVars, Load, LoadLeased, StopOrphan, Ignore, Unarm, FindHosts, Arm, Cancel,
                  GetLock, DelLock, Unduration, Undisconnect
    <3>5. ASSUME \/ Acknowledge(t) \/ BecomeReady(t) \/ BecomeActive(t) \/ Save(t) \/ ExpireDuration(t)
          PROVE FALSE
      BY <3>5 DEF storeVars, SaveRecord, Acknowledge, BecomeReady, BecomeActive, Save, ExpireDuration
    <3> QED  BY <2>1, <3>1, <3>2, <3>3, <3>4, <3>5 DEF Resume
  <2>2. ASSUME NEW t \in Slots,
               \/ \E s \in Sessions : CreateSession(t, s) \/ DeleteSession(t, s)
               \/ TakeEvents(t) \/ ScanPreparations(t) \/ ScanSessions(t) \/ ScanDisconnected(t)
        PROVE FALSE
    BY <2>2 DEF storeVars, CreateSession, DeleteSession, TakeEvents, TakeEvent, ScanPreparations,
                ScanSessions, ScanDisconnected, Scan
  <2>3. ASSUME NEW k \in Hosts,
               \/ HostNext(k) \/ Accept(k) \/ Closed(k) \/ PresenceExpires(k)
               \/ \E st \in HostStates : TakePresence(k, st)
        PROVE FALSE
    BY <2>3 DEF storeVars, HostNext, Accept, Closed, PresenceExpires, TakePresence, PresenceScript,
                HostRecordExpires
  <2>4. ASSUME NEW k \in Hosts, LeaseLapses(k) PROVE LeaseLapses(h)
    <3>1. k = h
      BY <1>1, <2>4 DEF LeaseLapses, LeaseExpires, Typed, IInv, StoreTypeOK
    <3> QED  BY <2>4, <3>1
  <2>5. CASE Restart
    BY <2>5 DEF Restart, storeVars
  <2> QED  BY <1>1, <2>1, <2>2, <2>3, <2>4, <2>5 DEF Next
<1>2. Typed /\ [Next]_vars => [Own]_vars
  BY <1>1
<1> QED  BY <1>2, TypedHolds, PTL DEF Spec, LetGoByItsOwn

-----------------------------------------------------------------------------
(* Sessions that are over.                                                 *)

(* What a handler of s may be without a copy of s it could write.          *)
Harmless(s, r) ==
    \/ r = Done \/ r.s # s
    \/ r.pc \in {"load", "loadLeased", "orphan", "arm", "unduration"} \/ r.rec.state \in Terminal

LEMMA SettledStep ==
  ASSUME Typed, NEW s \in Sessions, Settled(s), NEW t \in Slots, NEW r, Goto(t, r), Harmless(s, r),
         record'[s].state \in Terminal
  PROVE  Settled(s)'
<1> SUFFICES ASSUME NEW u \in Slots, task'[u] # Done, task'[u].s = s
             PROVE  \/ task'[u].pc \in {"load", "loadLeased", "orphan", "arm", "unduration"}
                    \/ task'[u].rec.state \in Terminal
  BY DEF Settled, Running
<1>1. task'[u] = IF u = t THEN r ELSE task[u]
  BY DEF Goto, Typed, MarketShape
<1> QED  BY <1>1 DEF Settled, Harmless, Running

(* The steps of handlers other than those that follow a record: a handler  *)
(* of the session itself reads it again, or has nothing to write but its   *)
(* end.                                                                    *)
LEMMA ResumeSettled ==
  ASSUME Typed, NEW s \in Sessions, Settled(s), NEW t \in Slots, Resume(t)
  PROVE  Settled(s)'
<1> DEFINE r == task[t]
<1>0. ASSUME NEW x, Goto(t, x) PROVE task'[t] = x
  BY <1>0 DEF Goto, Typed, MarketShape
<1>1. /\ record[s].state \in Terminal /\ s # NoSession
      /\ record \in [Sessions -> SessionRecords] /\ asked \subseteq Sessions
  BY ConstantsAssumption DEF Typed, MarketShape, IInv, StoreTypeOK, Settled
<1>2. Running(t) => TaskShape(r) /\ r \in Task /\ Harmless(s, r)
  BY DEF Typed, MarketShape, Running, Settled, Harmless, TaskShape
<1>3. Harmless(s, Done) /\ Harmless(s, Finished(r))
  BY <1>1 DEF Harmless, Finished, NewTask
(* What a step of another session, or one that does not save, leaves.      *)
<1>4. ASSUME NEW x, Goto(t, x), Harmless(s, x), UNCHANGED record \/ record'[s] = record[s]
      PROVE  Settled(s)'
  BY <1>1, <1>4, SettledStep
<1>5. ASSUME NEW x \in Sessions, NEW rec, SaveRecord(x, rec), x # s \/ rec.state \in Terminal
      PROVE  record'[s].state \in Terminal
  BY <1>1, <1>5 DEF SaveRecord
<1>6. CASE Load(t) \/ LoadLeased(t)
  <2>1. Running(t) /\ UNCHANGED storeVars
    BY <1>6 DEF Load, LoadLeased, At
  <2> DEFINE x == [r EXCEPT !.pc = "judge", !.rec = record[r.s]]
             y == [r EXCEPT !.pc = "loadLeased", !.s = lease[r.host]]
  <2>2. Harmless(s, x) /\ Harmless(s, y)
    BY <1>1, <1>2, <2>1 DEF Harmless, Task
  <2>3. Goto(t, x) \/ Goto(t, y) \/ Goto(t, Done) \/ Goto(t, Finished(r))
    BY <1>6 DEF Load, LoadLeased
  <2> QED  BY <1>3, <1>4, <2>1, <2>2, <2>3 DEF storeVars
<1>7. CASE StopOrphan(t) \/ Ignore(t) \/ Arm(t) \/ Unduration(t) \/ Undisconnect(t)
  <2>1. UNCHANGED storeVars /\ (Goto(t, Done) \/ Goto(t, Finished(r)))
    BY <1>7 DEF StopOrphan, Ignore, Arm, Unduration, Undisconnect
  <2> QED  BY <1>3, <1>4, <2>1 DEF storeVars
(* A record that is over is stale: the events, timers and cancellations    *)
(* that go on have loaded another one.                                     *)
<1>8. ASSUME At(t, "judge"), ~Stale(r)
      PROVE  r.s # s /\ r \in Task /\ r.s \in Sessions
  <2>1. r.rec.state \notin Terminal /\ r.pc = "judge" /\ Running(t)
    BY <1>8 DEF Stale, At
  <2>2. r.s # s
    BY <1>2, <2>1 DEF Harmless, Running
  <2> QED  BY <1>8, <2>2, JudgedTask
<1>9. ASSUME At(t, "judge"), ~Stale(r), NEW x, Goto(t, x), x = Done \/ x.s = r.s,
             UNCHANGED record \/ \E rec : SaveRecord(r.s, rec)
      PROVE  Settled(s)'
  <2>1. Harmless(s, x)
    BY <1>8, <1>9 DEF Harmless
  <2>2. record'[s] = record[s]
    BY <1>1, <1>8, <1>9 DEF SaveRecord
  <2> QED  BY <1>4, <1>9, <2>1, <2>2
<1>10. CASE Acknowledge(t) \/ BecomeReady(t) \/ BecomeActive(t)
  <2>1. At(t, "judge") /\ ~Stale(r)
    BY <1>10 DEF Acknowledge, BecomeReady, BecomeActive, Judged
  <2>2. r \in Task
    BY <1>8, <2>1
  <2>3. PICK x : Goto(t, x)
    BY <1>10 DEF Acknowledge, BecomeReady, BecomeActive
  <2>5. x = Done \/ x.s = r.s
    BY <1>10, <2>2, <2>3, <1>0 DEF Acknowledge, BecomeReady, BecomeActive, Task
  <2>4. UNCHANGED record \/ \E rec : SaveRecord(r.s, rec)
    BY <1>10 DEF Acknowledge, BecomeReady, BecomeActive, storeVars
  <2> QED  BY <1>9, <2>1, <2>3, <2>4, <2>5
<1>11. CASE EndSession(t) \/ FailOrRetry(t) \/ Cancel(t) \/ ExpireDuration(t)
  <2>1. At(t, "judge") /\ ~Stale(r)
    BY <1>11 DEF EndSession, FailOrRetry, Cancel, ExpireDuration, Judged
  <2>2. r \in Task
    BY <1>8, <2>1
  <2>3. PICK x : Goto(t, x)
    BY <1>11 DEF EndSession, FailOrRetry, Cancel, ExpireDuration
  <2>5. x = Done \/ x.s = r.s
    BY <1>11, <2>2, <2>3, <1>0 DEF EndSession, FailOrRetry, Cancel, ExpireDuration, Task
  <2>4. UNCHANGED record \/ \E rec : SaveRecord(r.s, rec)
    BY <1>11 DEF EndSession, FailOrRetry, Cancel, ExpireDuration, ReleaseScript, storeVars
  <2> QED  BY <1>9, <2>1, <2>3, <2>4, <2>5
(* A handler that looks for a host has an allocating copy, so it works for *)
(* another session.                                                        *)
<1>12. ASSUME Running(t), r.pc \in {"find", "claim", "send"}
       PROVE  r.s # s /\ r \in Task /\ r.s \in Sessions
  <2>1. TaskShape(r) /\ r \in Task /\ r.rec.state = "allocating"
    BY <1>2, <1>12 DEF TaskShape
  <2>2. r.s # s
    BY <1>2, <1>12, <2>1 DEF Harmless, Running, Terminal
  <2>3. r.s \in asked
    BY <1>12, AtTask DEF At
  <2> QED  BY <1>1, <2>1, <2>2, <2>3
<1>13. CASE FindHosts(t) \/ SendPrepare(t) \/ \E h \in Hosts : Claim(t, h)
  <2>1. Running(t) /\ r.pc \in {"find", "claim", "send"}
    BY <1>13 DEF FindHosts, SendPrepare, Claim, At
  <2>2. r.s # s /\ r \in Task
    BY <1>12, <2>1
  <2>3. CASE FindHosts(t) \/ SendPrepare(t)
    <3>1. ASSUME NEW C PROVE TryNext([r EXCEPT !.cands = C]).s = r.s
      BY <2>2 DEF TryNext, Task
    <3>2. TryNext(r).s = r.s /\ [r EXCEPT !.pc = "arm", !.cand = NoHost, !.cands = {}].s = r.s
      BY <2>2 DEF TryNext, Task
    <3>3. \E x : Goto(t, x) /\ x.s = r.s
      BY <2>3, <3>1, <3>2 DEF FindHosts, SendPrepare
    <3>4. record'[s] = record[s]
      BY <1>1, <2>2, <2>3 DEF FindHosts, SendPrepare, storeVars, SaveRecord, ReleaseScript
    <3> QED  BY <1>4, <2>2, <3>3, <3>4 DEF Harmless
  <2>4. ASSUME NEW h \in Hosts, Claim(t, h) PROVE Settled(s)'
    <3> DEFINE y == [r EXCEPT !.cands = @ \ {h}, !.cand = h, !.rec.tried = @ \cup {h}]
    <3>1. Goto(t, TryNext(y)) \/ Goto(t, [y EXCEPT !.pc = "send"])
      BY <2>4 DEF Claim
    <3>2. TryNext(y).s = r.s /\ [y EXCEPT !.pc = "send"].s = r.s /\ y.s = r.s
      BY <2>2 DEF TryNext, Task
    <3>3. UNCHANGED storeVars \/ ClaimScript(h, r.s, Allocated(y, h, "reserved"))
      BY <2>4, <3>2 DEF Claim
    <3>4. record'[s] = record[s]
      BY <1>1, <2>2, <3>3 DEF storeVars, ClaimScript
    <3> HIDE DEF y
    <3> QED  BY <1>4, <2>2, <3>1, <3>2, <3>4 DEF Harmless
  <2> QED  BY <1>13, <2>3, <2>4
<1>14. CASE Unarm(t) \/ GetLock(t) \/ DelLock(t)
  <2>1. Running(t) /\ UNCHANGED storeVars /\ r.pc \in {"unarm", "getLock", "delLock"}
    BY <1>14 DEF Unarm, GetLock, DelLock, At
  <2>2. PICK x : Goto(t, x)
    BY <1>14 DEF Unarm, GetLock, DelLock
  <2>3. x = Done \/ (x.s = r.s /\ x.rec = r.rec)
    BY <1>0, <1>2, <1>14, <2>1, <2>2 DEF Unarm, GetLock, DelLock, AfterLock, Task
  <2>4. Harmless(s, x)
    BY <1>2, <2>1, <2>3 DEF Harmless, Running
  <2> QED  BY <1>4, <2>1, <2>2, <2>4 DEF storeVars
<1>15. CASE Save(t)
  <2>1. Running(t) /\ r.pc = "save" /\ SaveRecord(r.s, r.rec) /\ Goto(t, Finished(r))
    BY <1>15 DEF Save, At
  <2>2. r.s \in Sessions
    BY <1>1, <2>1, AtTask DEF At
  <2>3. r.s # s \/ r.rec.state \in Terminal
    BY <1>2, <2>1 DEF Harmless, Running
  <2> QED  BY <1>3, <1>5, <2>1, <2>2, <2>3, SettledStep
<1> QED  BY <1>6, <1>7, <1>10, <1>11, <1>13, <1>14, <1>15 DEF Resume

(* The steps that start a handler give it a record that is over, or none.  *)
LEMMA StartSettled ==
  ASSUME Typed, NEW s \in Sessions, Settled(s), NEW t \in Slots,
         \/ \E x \in Sessions : CreateSession(t, x) \/ DeleteSession(t, x)
         \/ TakeEvents(t) \/ ScanPreparations(t) \/ ScanSessions(t) \/ ScanDisconnected(t)
  PROVE  Settled(s)'
<1>1. record[s].state \in Terminal /\ UNCHANGED record /\ s \in asked /\ 0 \in 0 .. MaxConn
  <2>1. UNCHANGED record
    BY DEF CreateSession, DeleteSession, TakeEvents, TakeEvent, ScanPreparations, ScanSessions,
           ScanDisconnected, Scan, storeVars
  <2>2. s \in asked
    BY DEF Settled, Typed, MarketShape, StoredIn, RecordShape, Terminal
  <2> QED  BY <2>1, <2>2, HostAssumption DEF Settled
<1>2. ASSUME NEW x, Goto(t, x), Harmless(s, x)
      PROVE  Settled(s)'
  BY <1>1, <1>2, SettledStep
<1>3. CASE UNCHANGED task
  BY <1>1, <1>3 DEF Settled, Running
<1>4. ASSUME NEW x \in Sessions, CreateSession(t, x) PROVE Settled(s)'
  <2>1. x # s
    BY <1>1, <1>4 DEF CreateSession
  <2> QED  BY <1>2, <1>3, <1>4, <2>1 DEF CreateSession, Harmless, NewTask
<1>5. ASSUME NEW x \in Sessions, DeleteSession(t, x) PROVE Settled(s)'
  <2>1. x # s
    BY <1>1, <1>5 DEF DeleteSession, Live
  <2> QED  BY <1>2, <1>5, <2>1 DEF DeleteSession, Harmless, NewTask
<1>6. ASSUME NEW h \in Hosts, NEW k \in Conns, TakeEvent(t, h, k) PROVE Settled(s)'
  <2> DEFINE e == Head(events[h][k])
             New(pc, x, rec) == [NewTask(pc, e.type, x) EXCEPT !.host = h, !.conn = k, !.rec = rec]
  <2>1. /\ Harmless(s, New("judge", e.s, record[e.s]))
        /\ Harmless(s, New("orphan", e.s, NoSessionRecord))
        /\ Harmless(s, New("loadLeased", lease[h], NoSessionRecord))
    BY <1>1 DEF Harmless, NewTask
  <2>2. \/ UNCHANGED task \/ Goto(t, New("judge", e.s, record[e.s]))
        \/ Goto(t, New("orphan", e.s, NoSessionRecord))
        \/ Goto(t, New("loadLeased", lease[h], NoSessionRecord))
    BY <1>6 DEF TakeEvent
  <2> HIDE DEF New
  <2> QED  BY <1>2, <1>3, <2>1, <2>2
<1>7. ASSUME NEW kind, NEW x, NEW h, Scan(t, kind, x, h) PROVE Settled(s)'
  BY <1>2, <1>7 DEF Scan, Harmless, NewTask
<1> QED
  BY <1>4, <1>5, <1>6, <1>7 DEF TakeEvents, ScanPreparations, ScanSessions, ScanDisconnected

(* Once every handler that loaded it before is through, the end of a       *)
(* session is the end.                                                     *)
THEOREM OverIsOver == Spec => OverStaysOver
<1> DEFINE Stays == \A s \in Sessions : Settled(s) => Settled(s)'
<1>1. ASSUME Typed, [Next]_vars PROVE Stays
  <2> SUFFICES ASSUME NEW s \in Sessions, Settled(s) PROVE Settled(s)'
    OBVIOUS
  <2>1. ASSUME UNCHANGED <<record, task>> PROVE Settled(s)'
    BY <2>1 DEF Settled, Running
  <2>2. CASE UNCHANGED vars
    BY <2>1, <2>2 DEF vars, storeVars, marketVars
  <2>3. CASE Restart
    BY <2>3 DEF Restart, Settled, Running, storeVars
  <2>4. ASSUME NEW h \in Hosts,
               \/ HostNext(h) \/ Accept(h) \/ Closed(h) \/ PresenceExpires(h) \/ LeaseLapses(h)
               \/ \E st \in HostStates : TakePresence(h, st)
        PROVE  Settled(s)'
    BY <2>1, <2>4 DEF HostNext, Accept, Closed, PresenceExpires, LeaseLapses, TakePresence, PresenceScript,
                      HostRecordExpires, LeaseExpires, storeVars, marketVars
  <2> QED  BY <1>1, <2>2, <2>3, <2>4, ResumeSettled, StartSettled DEF Next
<1>2. Typed /\ [Next]_vars => [Stays]_vars
  BY <1>1
<1> QED  BY <1>2, TypedHolds, PTL DEF Spec, OverStaysOver

-----------------------------------------------------------------------------
(***************************************************************************)
(* The pairing by code, the other way to a host (Pairing).  A host is      *)
(* reserved once at a time, always; a code is good for one claim unless    *)
(* the host is cut off for longer than a key lives, or a heartbeat         *)
(* overtakes another, or the host is started again while a code of its     *)
(* last run is still published.                                            *)
(***************************************************************************)

(* What keeps the slot of a reserved host taken.                           *)
ReservedIsTaken ==
    /\ reserved \in Nat
    /\ reserved <= 1
    /\ pairRec # None => /\ pairRec = [free |-> pairRec.free, room |-> pairRec.room]
                         /\ pairRec.free \in BOOLEAN
    /\ reserved > 0 => ~HostIsFree

(* The codes a heartbeat can still publish, or has published.              *)
LiveCode(c) == c = host.code \/ (\E i \in DOMAIN late : late[i].code = c) \/ c \in offered

(* There is one at a time; what is under way carries it.                   *)
OneLiveCode ==
    /\ \A c, d \in Codes : LiveCode(c) /\ LiveCode(d) => c = d
    /\ post # None => post.req.code = host.code
    /\ Answered => late = <<>>
    /\ post # None /\ post.answer = "rotate" => offered = {}

UsedIsMarked == \A c \in Codes : LiveCode(c) /\ uses[c] > 0 => consumed = c

UsedIsWithdrawn == \A c \in offered : uses[c] = 0

(* A claim under way for a code that was used meanwhile, or that would take*)
(* the mark of the live one, meets a host that is reserved.                *)
ClaimsMeetReservation ==
    \A p \in Guests, c \in Codes :
        find[p].pc = "claim" /\ uses[c] > 0 /\ (LiveCode(c) \/ c = find[p].code) => reserved > 0

CodeTypes ==
    /\ pairRec # None => pairRec.room \in Rooms
    /\ None \notin Codes
    /\ offered \subseteq Codes
    /\ consumed \in CodeOrNone
    /\ host.code \in CodeOrNone
    /\ host.pc # "off" => host.code \in Codes /\ host.room \in Rooms
    /\ post # None => host.pc # "off"
    /\ host = [pc |-> host.pc, code |-> host.code, room |-> host.room]
    /\ late \in Seq(Heartbeats)
    /\ post # None
         => post.req \in Heartbeats /\ post = [req |-> post.req, answer |-> post.answer]
    /\ find \in [Guests -> [pc : {"idle", "claim", "turn", "token"}, code : CodeOrNone,
         room : RoomOrNone]]
    /\ \A p \in Guests : find[p].pc = "claim" => find[p].code \in Codes
    /\ uses \in [Codes -> Nat]

CodeInv ==
    /\ CodeTypes
    /\ ReservedIsTaken
    /\ OneLiveCode
    /\ UsedIsMarked
    /\ UsedIsWithdrawn
    /\ ClaimsMeetReservation
    /\ CodeUsedOnce
-----------------------------------------------------------------------------
(* The reservation.                                                        *)

LEMMA SlotInit == PairInit => ReservedIsTaken
  BY DEF PairInit, ReservedIsTaken, HostIsFree

LEMMA SlotStep == ReservedIsTaken /\ [PairNext]_pairVars => ReservedIsTaken'
<1> SUFFICES ASSUME ReservedIsTaken, [PairNext]_pairVars PROVE ReservedIsTaken'
  OBVIOUS
<1> USE DEF ReservedIsTaken, HostIsFree
<1>1. ASSUME NEW r, HeartbeatScript(r), UNCHANGED reserved PROVE ReservedIsTaken'
  <2>1. pairRec' = [free |-> Available(r.slots) > 0, room |-> r.room]
    BY <1>1 DEF HeartbeatScript
  <2>2. reserved > 0 => pairRec'.free = FALSE
    <3> SUFFICES ASSUME reserved > 0 PROVE pairRec'.free = FALSE
      OBVIOUS
    <3>1. ~(Available(r.slots) > 0)
      BY DEF Available
    <3>2. (Available(r.slots) > 0) = FALSE
      BY <3>1
    <3> QED
      BY <2>1, <3>2
  <2>3. pairRec'.free \in BOOLEAN /\ pairRec' = [free |-> pairRec'.free, room |-> pairRec'.room]
    BY <2>1
  <2> QED
    BY <1>1, <2>2, <2>3
<1>2. CASE HandleHeartbeat
  BY <1>1, <1>2 DEF HandleHeartbeat
<1>3. CASE HandleLate
  BY <1>1, <1>3 DEF HandleLate
<1>4. ASSUME NEW p \in Guests, ClaimCode(p) PROVE ReservedIsTaken'
  <2>1. pairRec # None /\ reserved = 0
    BY <1>4 DEF ClaimCode
  <2>2. pairRec' = [pairRec EXCEPT !.free = FALSE] /\ reserved' = reserved + 1
    BY <1>4 DEF ClaimCode, ClaimHostScript
  <2>3. pairRec'.free = FALSE /\ pairRec' = [free |-> pairRec'.free, room |-> pairRec'.room]
    BY <2>1, <2>2
  <2> QED
    BY <2>1, <2>2, <2>3
<1>5. CASE PublicationExpires
  BY <1>5 DEF PublicationExpires
<1>6. CASE RecordExpires
  BY <1>6 DEF RecordExpires
<1>7. CASE ReservationExpires
  BY <1>7 DEF ReservationExpires
<1>8. CASE UNCHANGED <<pairRec, reserved>>
  BY <1>8
<1> QED
  BY <1>2, <1>3, <1>4, <1>5, <1>6, <1>7, <1>8
     DEF PairNext, pairVars, redisVars, StartHost, Beat, HostAccepts,
     HostRotates, PostFails, HostGivesUp,
         StopHost, Look, ClaimRefused, Grant, GrantFails,
         Connect, Disconnect, OldCodeExpires, MarkExpires

(* Two players never hold a reservation of the host at a time, whatever    *)
(* fails or expires: a claim needs a free slot, and a heartbeat offers none*)
(* while there is a reservation (HEARTBEAT_SCRIPT, Matchmaker.js:306-310). *)
THEOREM HostIsReservedOnce == PairSpec => []ReservedOnce
<1>1. ReservedIsTaken => ReservedOnce
  BY DEF ReservedIsTaken, ReservedOnce
<1> QED
  BY SlotInit, SlotStep, <1>1, PTL DEF PairSpec

-----------------------------------------------------------------------------
(* The codes.                                                              *)

InTurn == PairFaults \cap {"overtaken", "outage", "quick"} = {}

LEMMA CodeInit == PairInit => CodeInv
  BY PairingAssumption DEF PairInit, CodeInv, CodeTypes, ReservedIsTaken, HostIsFree, OneLiveCode,
     LiveCode, Answered,
         UsedIsMarked, UsedIsWithdrawn, ClaimsMeetReservation, CodeUsedOnce,
         CodeOrNone, RoomOrNone,
         NoFind

(* A draw takes a code that is not live and that no claim carries.         *)
LEMMA FreshIsNotLive ==
  ASSUME NEW c \in FreshCodes
  PROVE  c \in Codes /\ ~LiveCode(c) /\ consumed # c /\ \A p \in Guests : find[p].code # c
  BY DEF FreshCodes, CodesAround, LiveCode, LateOnes

(* The host sends a heartbeat, with a fresh code.                          *)
LEMMA SendsFresh ==
  ASSUME CodeInv, NEW c \in FreshCodes, NEW r \in Rooms, NEW pc, pc # "off", SendHeartbeat(pc,
           c, r), late = <<>>, offered = {},
         uses' = [uses EXCEPT ![c] = 0], UNCHANGED <<pairRec, reserved, offered, consumed, late,
           find>>
  PROVE  CodeInv'
<1>1. c \in Codes /\ ~LiveCode(c) /\ \A p \in Guests : find[p].code # c
  BY FreshIsNotLive
<1>2. host' = [pc |-> pc, code |-> c, room |-> r]
        /\ post' = [req |-> Heartbeat(c, r), answer |-> "none"]
  BY DEF SendHeartbeat
<1>3. Heartbeat(c, r) \in Heartbeats /\ Heartbeat(c, r).code = c
  BY <1>1 DEF Heartbeat, Heartbeats
<1>4. \A d \in Codes : LiveCode(d)' <=> d = c
  BY <1>2 DEF LiveCode, CodeInv, CodeTypes
<1>5. CodeTypes'
  BY <1>1, <1>2, <1>3 DEF CodeInv, CodeTypes, CodeOrNone
<1>6. ReservedIsTaken'
  BY DEF CodeInv, ReservedIsTaken, HostIsFree
<1>7. OneLiveCode'
  BY <1>1, <1>2, <1>3, <1>4 DEF OneLiveCode, Answered
<1>8. UsedIsMarked' /\ UsedIsWithdrawn' /\ CodeUsedOnce'
  BY <1>1, <1>4 DEF CodeInv, CodeTypes, UsedIsMarked, UsedIsWithdrawn, CodeUsedOnce
<1>9. ClaimsMeetReservation'
  BY <1>1, <1>4 DEF CodeInv, CodeTypes, ClaimsMeetReservation
<1> QED
  BY <1>5, <1>6, <1>7, <1>8, <1>9 DEF CodeInv

LEMMA StepStartHost == ASSUME CodeInv, InTurn, StartHost PROVE CodeInv'
<1>1. offered = {} /\ late = <<>>
  BY DEF StartHost, InTurn
<1> QED
  BY <1>1, SendsFresh DEF StartHost, redisVars, FreshRooms

LEMMA StepHostRotates == ASSUME CodeInv, HostRotates PROVE CodeInv'
<1>1. offered = {} /\ late = <<>> /\ host.room \in Rooms
  BY DEF HostRotates, CodeInv, CodeTypes, OneLiveCode, Answered
<1>2. PICK c \in FreshCodes :
        /\ SendHeartbeat(IF host.pc = "boot" THEN "reboot" ELSE "again", c, host.room)
                             /\ uses' = [uses EXCEPT ![c] = 0]
  BY DEF HostRotates
<1>3. (IF host.pc = "boot" THEN "reboot" ELSE "again") # "off"
  OBVIOUS
<1> QED
  BY <1>1, <1>2, <1>3, SendsFresh DEF HostRotates, redisVars

LEMMA StepBeat == ASSUME CodeInv, Beat PROVE CodeInv'
<1>1. host' = [pc |-> "beat", code |-> host.code, room |-> host.room]
      /\ post' = [req |-> Heartbeat(host.code, host.room), answer |-> "none"]
  BY DEF Beat, SendHeartbeat
<1>2. host.code \in Codes /\ host.room \in Rooms
  BY DEF CodeInv, CodeTypes, Beat
<1>3. Heartbeat(host.code, host.room) \in Heartbeats
        /\ Heartbeat(host.code, host.room).code = host.code
  BY <1>2 DEF Heartbeat, Heartbeats
<1>4. \A d \in Codes : LiveCode(d)' <=> LiveCode(d)
  BY <1>1 DEF LiveCode, Beat, redisVars
<1> USE DEF Beat, redisVars
<1>5. CodeTypes'
  BY <1>1, <1>2, <1>3 DEF CodeInv, CodeTypes, CodeOrNone
<1>6. ReservedIsTaken'
  BY DEF CodeInv, ReservedIsTaken, HostIsFree
<1>7. OneLiveCode'
  BY <1>1, <1>3, <1>4 DEF CodeInv, OneLiveCode, Answered
<1>8. UsedIsMarked' /\ UsedIsWithdrawn' /\ CodeUsedOnce' /\ ClaimsMeetReservation'
  BY <1>4 DEF CodeInv, UsedIsMarked, UsedIsWithdrawn, CodeUsedOnce, ClaimsMeetReservation
<1> QED
  BY <1>5, <1>6, <1>7, <1>8 DEF CodeInv

(* A live code is handled: it is published only if it was not used.        *)
LEMMA ScriptKeeps ==
  ASSUME CodeInv, NEW r \in Heartbeats, LiveCode(r.code), HeartbeatScript(r)
  PROVE  /\ offered' \subseteq Codes /\ consumed' \in CodeOrNone
         /\ pairRec' # None => pairRec'.room \in Rooms
         /\ \A c \in offered' : LiveCode(c) /\ uses[c] = 0
         /\ \A c \in Codes : LiveCode(c) /\ uses[c] > 0 => consumed' = c
         /\ consumed = r.code => offered' = {}
<1>1. r.code \in Codes
  BY DEF Heartbeats
<1>2. \A c \in Codes : LiveCode(c) => c = r.code
  BY <1>1 DEF CodeInv, OneLiveCode
<1>3. uses[r.code] > 0 => consumed = r.code
  BY <1>1 DEF CodeInv, UsedIsMarked
<1>4. uses[r.code] \in Nat
  BY <1>1 DEF CodeInv, CodeTypes
<1>5. offered \subseteq {r.code}
  BY <1>2 DEF CodeInv, CodeTypes, LiveCode
<1>6. pairRec' # None => pairRec'.room \in Rooms
  BY DEF HeartbeatScript, Heartbeats
<1> QED
  BY <1>1, <1>2, <1>3, <1>4, <1>5, <1>6
     DEF HeartbeatScript, CodeInv, CodeTypes, UsedIsWithdrawn, CodeOrNone

LEMMA StepHandleHeartbeat == ASSUME CodeInv, InTurn, HandleHeartbeat PROVE CodeInv'
<1>1. post.req \in Heartbeats /\ post.req.code = host.code /\ LiveCode(post.req.code)
        /\ late = <<>>
  BY DEF HandleHeartbeat, CodeInv, CodeTypes, OneLiveCode, LiveCode, InTurn
<1>2. HeartbeatScript(post.req)
  BY DEF HandleHeartbeat
<1>3. post' = [req |-> post.req,
        answer |-> IF consumed = post.req.code THEN "rotate" ELSE "accepted"]
  BY DEF HandleHeartbeat, CodeInv, CodeTypes
<1>4. \A d \in Codes : LiveCode(d)' => LiveCode(d)
  BY <1>1, <1>2, ScriptKeeps DEF LiveCode, HandleHeartbeat
<1>5. CodeTypes'
  BY <1>1, <1>2, <1>3, ScriptKeeps DEF CodeInv, CodeTypes, HandleHeartbeat
<1>6. ReservedIsTaken'
  BY SlotStep DEF CodeInv, PairNext
<1>7. OneLiveCode'
  BY <1>1, <1>2, <1>3, <1>4, ScriptKeeps
     DEF CodeInv, OneLiveCode, Answered, HandleHeartbeat
<1>8. UsedIsMarked' /\ UsedIsWithdrawn'
  BY <1>1, <1>2, <1>4, ScriptKeeps DEF UsedIsMarked, UsedIsWithdrawn, HandleHeartbeat
<1>9. ClaimsMeetReservation' /\ CodeUsedOnce'
  BY <1>4 DEF CodeInv, ClaimsMeetReservation, CodeUsedOnce, HandleHeartbeat
<1> QED
  BY <1>5, <1>6, <1>7, <1>8, <1>9 DEF CodeInv

LEMMA StepHostAccepts == ASSUME CodeInv, HostAccepts PROVE CodeInv'
<1> USE DEF HostAccepts, redisVars, CodeInv
<1>1. host' = [pc |-> "wait", code |-> host.code, room |-> host.room] /\ post' = None
  BY DEF CodeTypes
<1>2. \A d : LiveCode(d)' <=> LiveCode(d)
  BY <1>1 DEF LiveCode
<1>3. host.code \in Codes /\ host.room \in Rooms
  BY DEF CodeTypes, Answered
<1>4. CodeTypes'
  BY <1>1, <1>3 DEF CodeTypes
<1>5. ReservedIsTaken'
  BY DEF ReservedIsTaken, HostIsFree
<1>6. OneLiveCode'
  BY <1>1, <1>2 DEF OneLiveCode, Answered
<1> QED
  BY <1>2, <1>4, <1>5, <1>6
     DEF UsedIsMarked, UsedIsWithdrawn, CodeUsedOnce, ClaimsMeetReservation

(* A heartbeat that is given up may still be handled: it carries the code  *)
(* that is live already.                                                   *)
LEMMA GivenUp ==
  ASSUME CodeInv, NEW h, NEW q, UNCHANGED <<redisVars, find, uses>>, post' = None,
         host' = [pc |-> h, code |-> q, room |-> host'.room],
         h = "off" => q = None /\ host'.room = None,
         h # "off" => q = host.code /\ q \in Codes /\ host'.room \in Rooms,
         late' = late \/ (post # None /\ late' = Append(late, post.req)),
         None \notin Codes
  PROVE  CodeInv'
<1> USE DEF redisVars, CodeInv
<1>1. late' \in Seq(Heartbeats)
  BY DEF CodeTypes
<1>2. \A i \in DOMAIN late' : \/ late'[i].code = host.code
                              \/ \E j \in DOMAIN late : late'[i].code = late[j].code
  <2>1. late \in Seq(Heartbeats)
    BY DEF CodeTypes
  <2>2. CASE late' = late
    BY <2>2
  <2>3. ASSUME post # None, late' = Append(late, post.req),
               NEW i \in DOMAIN late'
        PROVE  late'[i].code = host.code \/ \E j \in DOMAIN late : late'[i].code = late[j].code
    <3>1. post.req \in Heartbeats /\ post.req.code = host.code
      BY <2>3 DEF CodeTypes, OneLiveCode
    <3>2. i = Len(late) + 1 \/ i \in DOMAIN late
      BY <2>1, <2>3, <3>1
    <3>3. CASE i = Len(late) + 1
      BY <2>1, <2>3, <3>1, <3>3
    <3>4. CASE i \in DOMAIN late
      BY <2>1, <2>3, <3>1, <3>4
    <3> QED
      BY <3>2, <3>3, <3>4
  <2> QED
    BY <2>2, <2>3
<1>3. \A d \in Codes : LiveCode(d)' => LiveCode(d)
  BY <1>2 DEF LiveCode
<1>4. CodeTypes'
  BY <1>1 DEF CodeTypes, CodeOrNone
<1>5. ReservedIsTaken'
  BY DEF ReservedIsTaken, HostIsFree
<1>6. OneLiveCode'
  BY <1>3 DEF OneLiveCode, Answered
<1> QED
  BY <1>3, <1>4, <1>5, <1>6
     DEF UsedIsMarked, UsedIsWithdrawn, CodeUsedOnce, ClaimsMeetReservation

LEMMA StepPostFails == ASSUME CodeInv, PostFails PROVE CodeInv'
<1>1. None \notin Codes
  BY DEF CodeInv, CodeTypes
<1>2. UNCHANGED <<redisVars, find, uses>> /\ post' = None /\ post # None
      /\ (late' = late \/ late' = Append(late, post.req))
  BY DEF PostFails, HostGivesUp
<1>3. CASE host.pc \in Booting
  <2>1. host' = [pc |-> "off", code |-> None, room |-> host'.room] /\ host'.room = None
    BY <1>3 DEF PostFails, HostGivesUp
  <2> QED
    BY <1>1, <1>2, <2>1, GivenUp
<1>4. CASE host.pc \notin Booting
  <2>1. host' = [pc |-> "wait", code |-> host.code, room |-> host'.room]
          /\ host'.room = host.room
    BY <1>4 DEF PostFails, HostGivesUp, CodeInv, CodeTypes
  <2>2. host.code \in Codes /\ host.room \in Rooms
    BY <1>2 DEF CodeInv, CodeTypes
  <2> QED
    BY <1>1, <1>2, <2>1, <2>2, GivenUp
<1> QED
  BY <1>3, <1>4

LEMMA StepStopHost == ASSUME CodeInv, StopHost PROVE CodeInv'
<1>1. None \notin Codes
  BY DEF CodeInv, CodeTypes
<1>2. host' = [pc |-> "off", code |-> None, room |-> host'.room] /\ host'.room = None
      /\ UNCHANGED <<redisVars, find, uses>> /\ post' = None
  BY DEF StopHost
<1>3. late' = late \/ (post # None /\ late' = Append(late, post.req))
  BY DEF StopHost
<1> QED
  BY <1>1, <1>2, <1>3, GivenUp

LEMMA StepHandleLate == ASSUME CodeInv, InTurn, HandleLate PROVE CodeInv'
<1>1. PICK i \in DOMAIN late : /\ i = 1
                              /\ HeartbeatScript(late[i])
                              /\ late' = SubSeq(late, 1, i - 1) \o SubSeq(late, i + 1,
                                   Len(late))
  BY DEF HandleLate, InTurn
<1>2. late[1] \in Heartbeats /\ LiveCode(late[1].code) /\ late # <<>>
  BY <1>1 DEF CodeInv, CodeTypes, LiveCode
<1>3. late' = Tail(late)
  BY <1>1, <1>2 DEF CodeInv, CodeTypes
<1>4. late' \in Seq(Heartbeats) /\ \A j \in DOMAIN late' : j + 1 \in DOMAIN late
        /\ late'[j] = late[j + 1]
  BY <1>2, <1>3 DEF CodeInv, CodeTypes
<1>5. HeartbeatScript(late[1])
  BY <1>1
<1>6. UNCHANGED <<reserved, host, peer, post, find, uses, faults>>
  BY DEF HandleLate
<1>7. \A d \in Codes : LiveCode(d)' => LiveCode(d)
  BY <1>2, <1>4, <1>5, <1>6, ScriptKeeps DEF LiveCode
<1>8. CodeTypes'
  BY <1>2, <1>4, <1>5, <1>6, ScriptKeeps DEF CodeInv, CodeTypes
<1>9. ReservedIsTaken'
  BY SlotStep DEF CodeInv, PairNext
<1>10. OneLiveCode'
  BY <1>2, <1>6, <1>7 DEF CodeInv, OneLiveCode, Answered
<1>11. UsedIsMarked' /\ UsedIsWithdrawn'
  BY <1>2, <1>5, <1>6, <1>7, ScriptKeeps DEF UsedIsMarked, UsedIsWithdrawn
<1>12. ClaimsMeetReservation' /\ CodeUsedOnce'
  BY <1>6, <1>7 DEF CodeInv, ClaimsMeetReservation, CodeUsedOnce
<1> QED
  BY <1>8, <1>9, <1>10, <1>11, <1>12 DEF CodeInv

-----------------------------------------------------------------------------
(* The players.                                                            *)

LEMMA StepLook ==
  ASSUME CodeInv, NEW p \in Guests, NEW c \in Codes, Look(p, c) PROVE CodeInv'
<1> USE DEF Look, redisVars, CodeInv
<1>1. find' = [find EXCEPT ![p] = [pc |-> "claim", code |-> c, room |-> None]]
      /\ c \in offered
  OBVIOUS
<1>2. uses[c] = 0 /\ \A d \in Codes : LiveCode(d) => d = c
  BY <1>1 DEF UsedIsWithdrawn, OneLiveCode, LiveCode
<1>3. \A d : LiveCode(d)' <=> LiveCode(d)
  BY DEF LiveCode
<1>4. CodeTypes'
  BY <1>1 DEF CodeTypes, CodeOrNone, RoomOrNone
<1>5. ReservedIsTaken'
  BY DEF ReservedIsTaken, HostIsFree
<1>6. OneLiveCode'
  BY <1>3 DEF OneLiveCode, Answered
<1>7. ClaimsMeetReservation'
  <2> SUFFICES ASSUME NEW q \in Guests, NEW d \in Codes, find'[q].pc = "claim", uses[d] > 0,
                      LiveCode(d) \/ d = find'[q].code
               PROVE  reserved > 0
    BY <1>3 DEF ClaimsMeetReservation
  <2>1. CASE q = p
    <3>1. d = c
      BY <1>1, <1>2, <2>1 DEF CodeTypes
    <3> QED
      BY <1>2, <3>1
  <2>2. CASE q # p
    BY <1>1, <2>2 DEF ClaimsMeetReservation, CodeTypes
  <2> QED
    BY <2>1, <2>2
<1> QED
  BY <1>3, <1>4, <1>5, <1>6, <1>7 DEF UsedIsMarked, UsedIsWithdrawn, CodeUsedOnce

LEMMA StepClaim == ASSUME CodeInv, NEW p \in Guests, ClaimCode(p) PROVE CodeInv'
<1> DEFINE c == find[p].code
<1> USE DEF CodeInv
<1>1. /\ find[p].pc = "claim" /\ HostIsFree
      /\ reserved' = reserved + 1 /\ offered' = offered \ {c} /\ consumed' = c
      /\ uses' = [uses EXCEPT ![c] = @ + 1]
      /\ find' = [find EXCEPT ![p] = [pc |-> "turn", code |-> None, room |-> pairRec.room]]
      /\ UNCHANGED <<room, host, peer, post, late, faults>>
  BY DEF ClaimCode, ClaimHostScript
<1>2. c \in Codes /\ reserved = 0
  BY <1>1 DEF CodeTypes, ReservedIsTaken
<1>3. uses[c] = 0 /\ \A d \in Codes : LiveCode(d) => uses[d] = 0
  BY <1>1, <1>2 DEF ClaimsMeetReservation, CodeTypes
<1>4. \A d : LiveCode(d)' => LiveCode(d)
  BY <1>1 DEF LiveCode
<1>5. CodeTypes'
  <2>1. pairRec.room \in Rooms /\ pairRec # None
    BY <1>1 DEF HostIsFree, CodeTypes
  <2>2. pairRec' = [free |-> FALSE, room |-> pairRec.room]
    BY <2>1 DEF ClaimCode, ClaimHostScript, ReservedIsTaken
  <2>3. offered' \subseteq Codes /\ consumed' \in CodeOrNone
    BY <1>1, <1>2 DEF CodeTypes, CodeOrNone
  <2>4. uses' \in [Codes -> Nat]
    BY <1>1, <1>2 DEF CodeTypes
  <2>5. find' \in [Guests -> [pc : {"idle", "claim", "turn", "token"}, code : CodeOrNone,
          room : RoomOrNone]]
        /\ \A q \in Guests : find'[q].pc = "claim" => find'[q].code \in Codes
    BY <1>1, <2>1 DEF CodeTypes, CodeOrNone, RoomOrNone
  <2> QED
    BY <1>1, <2>1, <2>2, <2>3, <2>4, <2>5 DEF CodeTypes
<1>6. ReservedIsTaken'
  BY SlotStep DEF PairNext
<1>7. OneLiveCode'
  BY <1>1, <1>4 DEF OneLiveCode, Answered
<1>8. UsedIsMarked' /\ UsedIsWithdrawn' /\ CodeUsedOnce'
  BY <1>1, <1>2, <1>3, <1>4
     DEF UsedIsMarked, UsedIsWithdrawn, CodeUsedOnce, CodeTypes, LiveCode
<1>9. ClaimsMeetReservation'
  BY <1>1, <1>2 DEF ClaimsMeetReservation
<1> QED
  BY <1>5, <1>6, <1>7, <1>8, <1>9

(* A player's request or visit goes on without a claim.                    *)
LEMMA StepFind ==
  ASSUME CodeInv, NEW p \in Guests, ClaimRefused(p) \/ Grant(p)
           \/ GrantFails(p) \/ Connect(p)
  PROVE  CodeInv'
<1> USE DEF CodeInv
<1>1. UNCHANGED <<redisVars, host, post, late, uses>>
  BY DEF ClaimRefused, Grant, GrantFails, Connect
<1>2. find' \in [Guests -> [pc : {"idle", "claim", "turn", "token"}, code : CodeOrNone,
        room : RoomOrNone]]
      /\ \A q \in Guests : find'[q].pc = "claim" => find[q].pc = "claim" /\ find'[q] = find[q]
  <2>1. \/ find' = [find EXCEPT ![p] = NoFind]
        \/ find[p].pc = "turn" /\ find' = [find EXCEPT ![p].pc = "token"]
    BY DEF ClaimRefused, Grant, GrantFails, Connect
  <2>2. CASE find' = [find EXCEPT ![p] = NoFind]
    BY <2>2 DEF NoFind, CodeTypes, CodeOrNone, RoomOrNone
  <2>3. CASE find' = [find EXCEPT ![p].pc = "token"]
    BY <2>3 DEF CodeTypes, CodeOrNone, RoomOrNone
  <2> QED
    BY <2>1, <2>2, <2>3
<1>3. \A d : LiveCode(d)' <=> LiveCode(d)
  BY <1>1 DEF LiveCode, redisVars
<1>4. CodeTypes'
  BY <1>1, <1>2 DEF CodeTypes, redisVars
<1>5. ReservedIsTaken'
  BY <1>1 DEF ReservedIsTaken, HostIsFree, redisVars
<1>6. OneLiveCode'
  BY <1>1, <1>3 DEF OneLiveCode, Answered, redisVars
<1>7. ClaimsMeetReservation'
  BY <1>1, <1>2, <1>3 DEF ClaimsMeetReservation, redisVars
<1> QED
  BY <1>1, <1>3, <1>4, <1>5, <1>6, <1>7
     DEF UsedIsMarked, UsedIsWithdrawn, CodeUsedOnce, redisVars

-----------------------------------------------------------------------------
(* The expiries.                                                           *)

LEMMA StepExpires ==
  ASSUME CodeInv, PublicationExpires \/ RecordExpires
           \/ \E c \in Codes : OldCodeExpires(c)
  PROVE  CodeInv'
<1> USE DEF CodeInv
<1>1. offered' \subseteq offered /\ pairRec' \in {pairRec, None}
      /\ UNCHANGED <<reserved, consumed, host, post, late, find, uses>>
  BY DEF PublicationExpires, RecordExpires, OldCodeExpires
<1>2. \A d : LiveCode(d)' => LiveCode(d)
  BY <1>1 DEF LiveCode
<1>3. CodeTypes'
  BY <1>1 DEF CodeTypes
<1>4. ReservedIsTaken'
  BY <1>1 DEF ReservedIsTaken, HostIsFree
<1>5. OneLiveCode'
  BY <1>1, <1>2 DEF OneLiveCode, Answered
<1> QED
  BY <1>1, <1>2, <1>3, <1>4, <1>5
     DEF UsedIsMarked, UsedIsWithdrawn, CodeUsedOnce, ClaimsMeetReservation

LEMMA StepMarkExpires == ASSUME CodeInv, InTurn, MarkExpires PROVE CodeInv'
<1> USE DEF CodeInv, MarkExpires
<1>1. consumed # host.code /\ \A i \in DOMAIN late : late[i].code # consumed
  BY DEF InTurn, LateOnes
<1>2. \A d \in Codes : LiveCode(d) => uses[d] = 0
  BY <1>1 DEF UsedIsMarked, UsedIsWithdrawn, LiveCode, CodeTypes
<1>3. \A d : LiveCode(d)' <=> LiveCode(d)
  BY DEF LiveCode
<1>4. CodeTypes'
  BY DEF CodeTypes, CodeOrNone
<1>5. ReservedIsTaken'
  BY DEF ReservedIsTaken, HostIsFree
<1>6. OneLiveCode'
  BY <1>3 DEF OneLiveCode, Answered
<1> QED
  BY <1>2, <1>3, <1>4, <1>5, <1>6
     DEF UsedIsMarked, UsedIsWithdrawn, CodeUsedOnce, ClaimsMeetReservation, CodeTypes

LEMMA StepReservationExpires == ASSUME CodeInv, ReservationExpires PROVE CodeInv'
<1> USE DEF CodeInv, ReservationExpires
<1>1. \A d : LiveCode(d)' <=> LiveCode(d)
  BY DEF LiveCode
<1>2. CodeTypes'
  BY DEF CodeTypes
<1>3. ReservedIsTaken'
  BY DEF ReservedIsTaken, HostIsFree
<1>4. OneLiveCode'
  BY <1>1 DEF OneLiveCode, Answered
<1> QED
  BY <1>1, <1>2, <1>3, <1>4
     DEF UsedIsMarked, UsedIsWithdrawn, CodeUsedOnce, ClaimsMeetReservation

LEMMA StepUnchanged ==
  ASSUME CodeInv, UNCHANGED <<redisVars, host, post, late, find, uses>> PROVE CodeInv'
<1> USE DEF redisVars
<1>1. \A d : LiveCode(d)' <=> LiveCode(d)
  BY DEF LiveCode
<1> QED
  BY <1>1 DEF CodeInv, CodeTypes, ReservedIsTaken, HostIsFree, OneLiveCode, Answered,
              UsedIsMarked, UsedIsWithdrawn, CodeUsedOnce, ClaimsMeetReservation

LEMMA CodeStep == ASSUME InTurn, CodeInv, [PairNext]_pairVars PROVE CodeInv'
<1>1. CASE UNCHANGED pairVars
  BY <1>1, StepUnchanged DEF pairVars
<1>2. CASE Disconnect
  BY <1>2, StepUnchanged DEF Disconnect
<1> QED
  BY <1>1, <1>2, StepStartHost, StepBeat, StepHandleHeartbeat, StepHostAccepts, StepHostRotates,
     StepPostFails, StepHandleLate, StepStopHost, StepLook, StepClaim, StepFind, StepExpires,
     StepMarkExpires, StepReservationExpires
  DEF PairNext

(* A code is good for one claim, whatever is claimed, lost, given up or    *)
(* expires meanwhile, as long as the host hears an answer within the life  *)
(* of a key, requests are handled in order, and a run of the host begins   *)
(* after the codes of the last one have expired: the mark that             *)
(* CLAIM_HOST_SCRIPT sets outlives every heartbeat that carries the code   *)
(* (Matchmaker.js:311-321, 347).                                       *)
THEOREM CodesAreUsedOnce ==
  ASSUME InTurn PROVE PairSpec => []CodeUsedOnce
<1>1. CodeInv /\ [PairNext]_pairVars => CodeInv'
  BY CodeStep
<1>2. CodeInv => CodeUsedOnce
  BY DEF CodeInv
<1> QED
  BY CodeInit, <1>1, <1>2, PTL DEF PairSpec

=============================================================================
