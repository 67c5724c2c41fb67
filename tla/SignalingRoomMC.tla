--------------------------- MODULE SignalingRoomMC ---------------------------
(* A host on one instance, a player of the first session on the other, and one client     *)
(* more: the player reconnecting to either instance, or the player of the next session.   *)
EXTENDS SignalingRoom

MCOpenings == <<{[at |-> "a", owner |-> Host]},
                {[at |-> "b", owner |-> "s1"]},
                {[at |-> "a", owner |-> "s1"], [at |-> "b", owner |-> "s1"],
                 [at |-> "b", owner |-> "s2"]}>>
=============================================================================
