--------------------------- MODULE StreamProfiles ---------------------------
(***************************************************************************)
(* How the stream follows what the client asks for and the network bears   *)
(* (src/Host/StreamProfileManager.cpp, the encoding thread in              *)
(* CaptureHelpers.cpp, Encoder.cpp).  The signaling thread requests        *)
(* profiles; the encoding thread takes one at a frame, limits the bitrate  *)
(* to it, reopens the encoder and reports it applied or rejected; RTCP     *)
(* reports, on a thread of Go, move the bitrate; PLI asks for keyframes.   *)
(*                                                                         *)
(* g_currentBitrate, the ceiling and the two generations are atomics and   *)
(* no lock covers two of them: each access that another thread can come    *)
(* between is a step.  Of the generations, counters of 64 bits, only two   *)
(* comparisons matter: whether the announced one is the applied one, and   *)
(* whether it is still the one that InitializeEncoder read.  A profile is  *)
(* its resolution and its bitrate; the resolution only decides whether the *)
(* encoder is reopened, for the stream has the captured window's size.     *)
(***************************************************************************)
EXTENDS Naturals

CONSTANTS
    Profiles,       \* profiles that are supported and asked for: [size, bitrate]
    Default,        \* operatorDefault_
    Sessions,
    Windows,        \* sizes of the captured window
    MinBitrate, MaxBitrate,
    MaxRequests,    \* bound on requests and on clearings of a session
    MaxFeedbacks,   \* bound on RTCP reports that move the bitrate
    MaxCaptures     \* bound on captures

Bitrates == MinBitrate..MaxBitrate

ASSUME ProfileAssumption ==
    /\ {MinBitrate, MaxBitrate, MaxRequests, MaxFeedbacks, MaxCaptures} \subseteq Nat
    /\ MinBitrate <= MaxBitrate
    /\ Profiles \cup {Default} \subseteq [size: Windows, bitrate: Bitrates]

VARIABLES
    manager,   \* [state, requested, pending, active, by]: the StreamProfileManager
    rate,      \* [current, ceiling, pending]: the atomics of the bitrate; pending if
               \* g_bitrateGeneration is not g_appliedBitrateGeneration
    rtcp,      \* [pc, target]: the thread of the RTCP reports, in AdjustBitrate
    consumer,  \* [pc, frame, taken, target, awaiting, last, recent, unchanged, bitrate];
               \* unchanged while the generation is the one that was read
    encoder,   \* [open, size, bitrate, fresh]
    idr,       \* g_forceIdrRequested
    capturing,
    past       \* [requests, feedbacks, captures, orphaned]: bounds, and whether a capture
               \* stopped with a profile it had taken and not applied

vars == <<manager, rate, rtcp, consumer, encoder, idr, capturing, past>>

None == "none"
NoProfile == [size |-> None, bitrate |-> 0]
Closed == [open |-> FALSE, size |-> None, bitrate |-> MinBitrate, fresh |-> FALSE]

TypeOK ==
    /\ manager \in [state: {"Pending", "Active", "Rejected"}, requested: Profiles \cup {Default},
                    pending: Profiles \cup {Default, NoProfile}, active: Profiles \cup {Default, NoProfile},
                    by: Sessions \cup {None}]
    /\ rate \in [current: Bitrates, ceiling: Bitrates, pending: BOOLEAN]
    /\ rtcp \in [pc: {"idle", "exchange", "bump"}, target: Bitrates]
    /\ consumer \in [pc: {"idle", "take", "ceiling", "lower", "lowerBump", "raise", "raiseBump",
                          "decide", "check", "generation", "bitrate", "open", "submit"},
                     frame: Windows \cup {None}, taken: Profiles \cup {Default, NoProfile}, target: Bitrates,
                     awaiting: Profiles \cup {Default, NoProfile}, last: Windows \cup {None},
                     recent: BOOLEAN, unchanged: BOOLEAN, bitrate: Bitrates]
    /\ encoder \in [open: BOOLEAN, size: Windows \cup {None}, bitrate: Bitrates, fresh: BOOLEAN]
    /\ {idr, capturing} \subseteq BOOLEAN
    /\ past \in [requests: 0..MaxRequests, feedbacks: 0..MaxFeedbacks, captures: 0..MaxCaptures,
                 orphaned: BOOLEAN]

\* After Configure; SetBitrateLimits has clamped the bitrate.
Init ==
    /\ manager = [state |-> "Pending", requested |-> Default, pending |-> Default,
                  active |-> NoProfile, by |-> None]
    /\ rate = [current |-> MinBitrate, ceiling |-> MaxBitrate, pending |-> FALSE]
    /\ rtcp = [pc |-> "idle", target |-> MinBitrate]
    /\ consumer = [pc |-> "idle", frame |-> None, taken |-> NoProfile, target |-> MinBitrate,
                   awaiting |-> NoProfile, last |-> None, recent |-> FALSE, unchanged |-> FALSE,
                   bitrate |-> MinBitrate]
    /\ encoder = Closed
    /\ idr = FALSE /\ capturing = FALSE
    /\ past = [requests |-> 0, feedbacks |-> 0, captures |-> 0, orphaned |-> FALSE]

----------------------------------------------------------------------------
(* The signaling thread. *)

SignalingOnly == UNCHANGED <<rate, rtcp, consumer, encoder, idr, capturing>>
Counted == past.requests < MaxRequests /\ past' = [past EXCEPT !.requests = @ + 1]

\* A profile that is supported and within the capabilities of the client.
Request(s, p) ==
    /\ Counted
    /\ manager' = [manager EXCEPT !.state = "Pending", !.requested = p, !.pending = p, !.by = s]
    /\ SignalingOnly

\* One that exceeds them: it is recorded, and a pending profile is forgotten.
RequestRefused(s, p) ==
    /\ Counted
    /\ manager' = [manager EXCEPT !.state = "Rejected", !.requested = p, !.pending = NoProfile, !.by = s]
    /\ SignalingOnly

\* The session ends: the operator's profile is wanted again.
ClearSession(s) ==
    /\ manager.by = s
    /\ Counted
    /\ manager' = [manager EXCEPT !.state = "Pending", !.requested = Default,
                                  !.pending = Default, !.by = None]
    /\ SignalingOnly

----------------------------------------------------------------------------
(* The bitrate.  AdjustBitrate reads the ceiling, exchanges the value and, if it
   has changed, announces that in the generation. *)

AtMost(x, y) == IF x <= y THEN x ELSE y
Clamped(r) == AtMost(r, AtMost(MaxBitrate, rate.ceiling))
HasPendingBitrateChange == rate.pending

\* OnRtcpFeedback: less after a loss, a step more after clean reports.
OnRtcpFeedback ==
    /\ rtcp.pc = "idle" /\ past.feedbacks < MaxFeedbacks
    /\ \E r \in Bitrates :
        /\ r < rate.current \/ (r = rate.current + 1 /\ r = Clamped(r))
        /\ rtcp' = [pc |-> "exchange", target |-> Clamped(r)]
    /\ past' = [past EXCEPT !.feedbacks = @ + 1]
    /\ UNCHANGED <<manager, rate, consumer, encoder, idr, capturing>>

RtcpExchange ==
    /\ rtcp.pc = "exchange"
    /\ rate' = [rate EXCEPT !.current = rtcp.target]
    /\ rtcp' = [pc |-> IF rtcp.target # rate.current THEN "bump" ELSE "idle", target |-> MinBitrate]
    /\ UNCHANGED <<manager, consumer, encoder, idr, capturing, past>>

RtcpAnnounce ==
    /\ rtcp.pc = "bump"
    /\ rate' = [rate EXCEPT !.pending = TRUE]
    /\ consumer' = [consumer EXCEPT !.unchanged = FALSE]
    /\ rtcp' = [rtcp EXCEPT !.pc = "idle"]
    /\ UNCHANGED <<manager, encoder, idr, capturing, past>>

\* Keyframes are asked for by PLI, by a new target and by a new peer.
RequestIDR ==
    /\ ~idr
    /\ idr' = TRUE
    /\ UNCHANGED <<manager, rate, rtcp, consumer, encoder, capturing, past>>

----------------------------------------------------------------------------
(* The encoding thread. *)

Go(pc) == consumer' = [consumer EXCEPT !.pc = pc]
NextFrame == consumer' = [consumer EXCEPT !.pc = "idle", !.frame = None]

TakeFrame(w) ==
    /\ capturing /\ consumer.pc = "idle"
    /\ consumer' = [consumer EXCEPT !.pc = "take", !.frame = w]
    /\ UNCHANGED <<manager, rate, rtcp, encoder, idr, capturing, past>>

TakePending ==
    /\ consumer.pc = "take"
    /\ manager' = [manager EXCEPT !.pending = NoProfile]
    /\ consumer' = [consumer EXCEPT !.taken = manager.pending,
                                    !.pc = IF manager.pending = NoProfile THEN "check" ELSE "ceiling"]
    /\ UNCHANGED <<rate, rtcp, encoder, idr, capturing, past>>

\* SetProfileBitrateCeiling, which adjusts the bitrate to the new ceiling.
SetCeiling ==
    /\ consumer.pc = "ceiling"
    /\ rate' = [rate EXCEPT !.ceiling = consumer.taken.bitrate]
    /\ consumer' = [consumer EXCEPT !.pc = "lower",
                                    !.target = AtMost(rate.current, consumer.taken.bitrate)]
    /\ UNCHANGED <<manager, rtcp, encoder, idr, capturing, past>>

\* After it, the profile's bitrate is set unless it is the active one's.
AfterCeiling ==
    IF manager.active = NoProfile \/ manager.active.bitrate # consumer.taken.bitrate THEN "raise" ELSE "decide"

Exchange(at, bump, next) ==
    /\ consumer.pc = at
    /\ LET target == IF at = "lower" THEN consumer.target ELSE Clamped(consumer.taken.bitrate) IN
        /\ rate' = [rate EXCEPT !.current = target]
        /\ consumer' = [consumer EXCEPT !.target = MinBitrate,
                                        !.pc = IF target # rate.current THEN bump ELSE next]
    /\ UNCHANGED <<manager, rtcp, encoder, idr, capturing, past>>

Announce(at, next) ==
    /\ consumer.pc = at
    /\ rate' = [rate EXCEPT !.pending = TRUE]
    /\ Go(next)
    /\ UNCHANGED <<manager, rtcp, encoder, idr, capturing, past>>

AdjustBitrate ==
    \/ Exchange("lower", "lowerBump", AfterCeiling) \/ Announce("lowerBump", AfterCeiling)
    \/ Exchange("raise", "raiseBump", "decide") \/ Announce("raiseBump", "decide")

\* MarkApplied and MarkRejected answer only the latest request.
AppliedAlways(p) == [manager EXCEPT !.active = p, !.state = "Active"]

Applied(p) ==
    IF manager.requested # p THEN manager
    ELSE [manager EXCEPT !.active = p, !.state = "Active"]
RejectedUnreported(p) == manager
Rejected(p) == IF manager.requested # p THEN manager ELSE [manager EXCEPT !.state = "Rejected"]

\* A profile that needs no other encoder is applied at once.
Decide ==
    /\ consumer.pc = "decide"
    /\ IF /\ manager.active # NoProfile /\ manager.active.size = consumer.taken.size
          /\ ~HasPendingBitrateChange
       THEN /\ manager' = Applied(consumer.taken)
            /\ idr' = TRUE
            /\ consumer' = [consumer EXCEPT !.pc = "check", !.taken = NoProfile, !.awaiting = NoProfile]
       ELSE /\ consumer' = [consumer EXCEPT !.pc = "check", !.taken = NoProfile, !.awaiting = consumer.taken]
            /\ UNCHANGED <<manager, idr>>
    /\ UNCHANGED <<rate, rtcp, encoder, capturing, past>>

\* A frame older than a tenth of a second is skipped.
SkipFrame ==
    /\ consumer.pc = "check"
    /\ NextFrame
    /\ UNCHANGED <<manager, rate, rtcp, encoder, idr, capturing, past>>

NeedsInit == consumer.last # consumer.frame \/ consumer.awaiting # NoProfile

\* The encoder is closed to be opened again, for a new size or a profile at most
\* once a second and for a new bitrate at any frame.
CheckEncoder ==
    /\ consumer.pc = "check"
    /\ IF NeedsInit /\ consumer.recent
       THEN NextFrame /\ UNCHANGED encoder
       ELSE IF NeedsInit \/ HasPendingBitrateChange
       THEN /\ consumer' = [consumer EXCEPT !.pc = "generation", !.recent = TRUE]
            /\ encoder' = Closed
       ELSE Go("submit") /\ UNCHANGED encoder
    /\ UNCHANGED <<manager, rate, rtcp, idr, capturing, past>>

\* InitializeEncoder reads the generation before the bitrate.
ReadGeneration ==
    /\ consumer.pc = "generation"
    /\ consumer' = [consumer EXCEPT !.pc = "bitrate", !.unchanged = TRUE]
    /\ UNCHANGED <<manager, rate, rtcp, encoder, idr, capturing, past>>

ReadBitrate ==
    /\ consumer.pc = "bitrate"
    /\ consumer' = [consumer EXCEPT !.pc = "open", !.bitrate = rate.current]
    /\ idr' = TRUE
    /\ UNCHANGED <<manager, rate, rtcp, encoder, capturing, past>>

\* The generation that was read is the applied one; another may have come.
NothingPending == FALSE

StillPending == rate.pending /\ ~consumer.unchanged

InitializeEncoder ==
    /\ consumer.pc = "open"
    /\ encoder' = [open |-> TRUE, size |-> consumer.frame, bitrate |-> consumer.bitrate, fresh |-> TRUE]
    /\ rate' = [rate EXCEPT !.pending = StillPending]
    /\ manager' = IF consumer.awaiting = NoProfile THEN manager ELSE Applied(consumer.awaiting)
    /\ consumer' = [consumer EXCEPT !.pc = "submit", !.last = consumer.frame, !.awaiting = NoProfile,
                                    !.unchanged = FALSE, !.bitrate = MinBitrate]
    /\ UNCHANGED <<rtcp, idr, capturing, past>>

\* It fails: the profile is rejected, and the encoder stays closed.
InitializeFails ==
    /\ consumer.pc = "open"
    /\ manager' = IF consumer.awaiting = NoProfile THEN manager ELSE Rejected(consumer.awaiting)
    /\ consumer' = [consumer EXCEPT !.pc = "idle", !.frame = None, !.awaiting = NoProfile,
                                    !.unchanged = FALSE, !.bitrate = MinBitrate]
    /\ UNCHANGED <<rate, rtcp, encoder, idr, capturing, past>>

\* The frame is dropped for the network's sake, or offered to the codec, which may
\* refuse it; a keyframe request goes with it either way.  A closed encoder has no
\* surface to offer.
SubmitHwFrame ==
    /\ consumer.pc = "submit"
    /\ NextFrame
    /\ \/ UNCHANGED <<encoder, idr>>
       \/ encoder.open /\ idr' = FALSE /\ encoder' \in {encoder, [encoder EXCEPT !.fresh = FALSE]}
    /\ UNCHANGED <<manager, rate, rtcp, capturing, past>>

\* A second passes since the last attempt.
Tick ==
    /\ consumer.recent
    /\ consumer' = [consumer EXCEPT !.recent = FALSE]
    /\ UNCHANGED <<manager, rate, rtcp, encoder, idr, capturing, past>>

Consumer ==
    \/ TakePending \/ SetCeiling \/ AdjustBitrate \/ Decide \/ SkipFrame \/ CheckEncoder
    \/ ReadGeneration \/ ReadBitrate \/ InitializeEncoder \/ InitializeFails \/ SubmitHwFrame

----------------------------------------------------------------------------
(* The runtime thread starts and joins the encoding thread. *)

StartCapture ==
    /\ ~capturing /\ past.captures < MaxCaptures
    /\ capturing' = TRUE
    /\ past' = [past EXCEPT !.captures = @ + 1]
    /\ UNCHANGED <<manager, rate, rtcp, consumer, encoder, idr>>

StopCapture ==
    /\ capturing /\ consumer.pc = "idle"
    /\ capturing' = FALSE
    /\ encoder' = Closed
    /\ consumer' = [consumer EXCEPT !.awaiting = NoProfile, !.last = None, !.recent = FALSE]
    /\ past' = [past EXCEPT !.orphaned = @ \/ consumer.awaiting # NoProfile]
    /\ UNCHANGED <<manager, rate, rtcp, idr>>

----------------------------------------------------------------------------
Next ==
    \/ \E s \in Sessions : ClearSession(s) \/ \E p \in Profiles : Request(s, p) \/ RequestRefused(s, p)
    \/ OnRtcpFeedback \/ RtcpExchange \/ RtcpAnnounce \/ RequestIDR
    \/ \E w \in Windows : TakeFrame(w)
    \/ Consumer \/ Tick \/ StartCapture \/ StopCapture

Spec == Init /\ [][Next]_vars

\* The window goes on changing, so frames come while a capture runs, and not all of
\* them are late; the encoding thread is scheduled and seconds pass.
FairSpec ==
    /\ Spec
    /\ WF_vars(\E w \in Windows : TakeFrame(w))
    /\ WF_vars(Consumer) /\ SF_vars(CheckEncoder)
    /\ WF_vars(Tick)

----------------------------------------------------------------------------
(* While no change is announced as pending the encoder runs at the bitrate that is
   wanted, however RTCP reports fall into its opening; a change that is not yet
   announced has a thread about to announce it (InitializeEncoder, AdjustBitrate). *)
AppliedIsCurrent ==
    encoder.open /\ ~HasPendingBitrateChange /\ rtcp.pc # "bump"
        /\ consumer.pc \notin {"lowerBump", "raiseBump"}
        => encoder.bitrate = rate.current

(* A profile reported active is the one last asked for and the one whose bitrate
   limits the stream, whatever was requested while it was being applied
   (MarkApplied, MarkRejected). *)
ActiveIsTrue ==
    manager.state = "Active" =>
        manager.active = manager.requested /\ rate.ceiling = manager.active.bitrate

(* Frames are encoded by an encoder of their size, also after one that could not be
   opened (lastInitW, lastInitH). *)
SizesAgree == consumer.pc = "submit" /\ encoder.open => encoder.size = consumer.frame

(* A request is answered, applied or rejected, while the capture runs, unless a
   capture was stopped with a profile in its hands. *)
RequestAnswered ==
    manager.state = "Pending" /\ capturing ~>
        manager.state # "Pending" \/ ~capturing \/ past.orphaned

(* While frames come, another attempt is made to open an encoder that is closed
   (README.md:97: encoder initialization retries are throttled). *)
EncoderRetried ==
    capturing /\ ~encoder.open ~> encoder.open \/ consumer.pc = "open" \/ ~capturing

(* An encoder that has not encoded a frame has its keyframe request waiting
   (README.md:421: a change of the profile refreshes the IDR state), which a frame
   that the codec refuses takes with it. *)
FreshIsKey == encoder.open /\ encoder.fresh => idr

(* A lowered ceiling holds at once (Encoder.cpp:817), whatever RTCP reports. *)
CeilingKept == consumer.pc = "check" /\ rtcp.pc # "exchange" => rate.current <= rate.ceiling
=============================================================================
