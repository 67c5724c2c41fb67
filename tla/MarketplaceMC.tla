--------------------------- MODULE MarketplaceMC ---------------------------
(* One game, offered by every host; all sessions belong to one player,     *)
(* which is when they get in each other's way through more than a host.    *)
EXTENDS Marketplace, TLC

CONSTANT g1

MCGameOf == [s \in Sessions |-> g1]
MCPlayerOf == [s \in Sessions |-> CHOOSE p \in Players : TRUE]
MCOffers == [h \in Hosts |-> {g1}]

(* All sessions are of one player and one game, and a slot is as good as   *)
(* another.  Sound in a run that checks no liveness.                       *)
Symmetry == Permutations(Sessions) \cup Permutations(Slots)
=============================================================================
