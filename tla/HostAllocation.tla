--------------------------- MODULE HostAllocation ---------------------------
(***************************************************************************)
(* What the marketplace needs of its host pool, whatever stores it: a host *)
(* is free, held by one session, or neither (busy, or unknown).  A session *)
(* can only take a free host, takes it alone, and a host passes from one   *)
(* session to the next only through having been let go.                    *)
(***************************************************************************)
EXTENDS MarketTypes

VARIABLES
    holder,  \* holder[h]: the session holding h, or NoSession
    free     \* the hosts a session may take

vars == <<holder, free>>

Init ==
    /\ holder = [h \in Hosts |-> NoSession]
    /\ free = {}

(* A free host is taken by a session.                                      *)
Take(h, s) ==
    /\ h \in free
    /\ holder' = [holder EXCEPT ![h] = s]
    /\ free' = free \ {h}

(* A held host is let go, and may be free at once.                         *)
LetGo(h) ==
    /\ holder[h] # NoSession
    /\ holder' = [holder EXCEPT ![h] = NoSession]
    /\ free' \in {free, free \cup {h}}

(* A host nobody holds offers itself; any host withdraws.                  *)
Offer(h) ==
    /\ holder[h] = NoSession
    /\ free' = free \cup {h}
    /\ UNCHANGED holder

Withdraw(h) ==
    /\ free' = free \ {h}
    /\ UNCHANGED holder

Next ==
    \E h \in Hosts :
        \/ \E s \in Sessions : Take(h, s)
        \/ LetGo(h)
        \/ Offer(h)
        \/ Withdraw(h)

Spec == Init /\ [][Next]_vars

(* A held host is never free: the invariant a second Take would need to    *)
(* break.                                                                  *)
Exclusive == \A h \in Hosts : holder[h] # NoSession => h \notin free
=============================================================================
