-------------------------- MODULE StreamProfilesMC --------------------------
(* The instance of StreamProfiles that TLC checks: a change of the resolution
   alone, of the bitrate alone, and of both can be asked for. *)
EXTENDS StreamProfiles

MCDefault == [size |-> "720", bitrate |-> 2]
MCProfiles == {[size |-> "720", bitrate |-> 1], [size |-> "1080", bitrate |-> 3]}
=============================================================================
