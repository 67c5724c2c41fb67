---------------------------- MODULE HostInputMC ----------------------------
(* Two keys with virtual keys of their own that must not be held together. *)
EXTENDS HostInput, TLC

CONSTANTS alt, tab

MCVk == [k \in Keys |-> k]
MCForbidden == {{alt, tab}}
MCSymmetry == Permutations({alt, tab})
=============================================================================
