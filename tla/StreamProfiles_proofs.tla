------------------------- MODULE StreamProfiles_proofs -------------------------
(***************************************************************************)
(* Proofs about the stream profiles, for any profiles, window sizes, bitrate*)
(* limits and numbers of requests, reports and captures.                   *)
(***************************************************************************)
EXTENDS StreamProfiles, TLAPS

(* The types of the records, as TypeOK has them.                           *)
Asked == Profiles \cup {Default}
Managers == [state: {"Pending", "Active", "Rejected"}, requested: Asked,
             pending: Asked \cup {NoProfile}, active: Asked \cup {NoProfile}, by: Sessions \cup {None}]
Rates == [current: Bitrates, ceiling: Bitrates, pending: BOOLEAN]
Feedbacks == [pc: {"idle", "exchange", "bump"}, target: Bitrates]
Steps == {"idle", "take", "ceiling", "lower", "lowerBump", "raise", "raiseBump",
          "decide", "check", "generation", "bitrate", "open", "submit"}
Consumers == [pc: Steps, frame: Windows \cup {None}, taken: Asked \cup {NoProfile}, target: Bitrates,
              awaiting: Asked \cup {NoProfile}, last: Windows \cup {None},
              recent: BOOLEAN, unchanged: BOOLEAN, bitrate: Bitrates]
Encoders == [open: BOOLEAN, size: Windows \cup {None}, bitrate: Bitrates, fresh: BOOLEAN]
Pasts == [requests: 0..MaxRequests, feedbacks: 0..MaxFeedbacks, captures: 0..MaxCaptures,
          orphaned: BOOLEAN]
Shape ==
    /\ manager \in Managers
    /\ rate \in Rates
    /\ rtcp \in Feedbacks
    /\ consumer \in Consumers
    /\ encoder \in Encoders
    /\ idr \in BOOLEAN
    /\ capturing \in BOOLEAN
    /\ past \in Pasts

(* The steps at which a profile is in hand, and those of them at which its *)
(* ceiling has been set.                                                   *)
Limiting == {"lower", "lowerBump", "raise", "raiseBump", "decide"}
InHand == Limiting \cup {"ceiling"}

(* A profile in hand is a real one, and as long as the state is active it  *)
(* is the one last asked for, as is every one still to be taken.           *)
TakenIsAsked ==
    /\ manager.pending # NoProfile => manager.pending = manager.requested
    /\ consumer.pc \in InHand =>
         /\ consumer.taken # NoProfile
         /\ manager.state = "Active" => consumer.taken = manager.requested

(* The ceiling is that of the profile in hand, once it is set, and before  *)
(* and after that the one of the profile that waits for an encoder.        *)
CeilingIsOwn ==
    /\ consumer.pc \in Limiting => rate.ceiling = consumer.taken.bitrate
    /\ consumer.pc \notin Limiting /\ consumer.awaiting # NoProfile
         => rate.ceiling = consumer.awaiting.bitrate

(* What was read for the opening is current unless a change has come since,*)
(* which is pending or about to be announced.                              *)
OpeningIsCurrent ==
    /\ consumer.pc \in {"bitrate", "open"} /\ ~consumer.unchanged => rate.pending
    /\ consumer.pc = "open" /\ consumer.unchanged /\ rtcp.pc # "bump"
         => consumer.bitrate = rate.current

(* An open encoder has the size the encoding thread remembers.             *)
SizeIsLast ==
    /\ encoder.open => encoder.size = consumer.last
    /\ consumer.pc = "submit" => consumer.last = consumer.frame

IInv ==
    /\ Shape
    /\ TakenIsAsked
    /\ CeilingIsOwn
    /\ OpeningIsCurrent
    /\ AppliedIsCurrent
    /\ ActiveIsTrue
    /\ SizeIsLast

LEMMA ShapeIsType == Shape => TypeOK
  BY DEF Shape, TypeOK, Managers, Rates, Feedbacks, Consumers, Encoders, Pasts, Steps, Asked

LEMMA Bounds ==
  ASSUME Shape
  PROVE  /\ MinBitrate \in Nat /\ MaxBitrate \in Nat /\ MinBitrate \in Bitrates /\ MaxBitrate \in Bitrates
         /\ Bitrates \subseteq Nat
         /\ \A p \in Asked : p.bitrate \in Bitrates
         /\ \A r \in Bitrates : Clamped(r) \in Bitrates
         /\ \A r, q \in Bitrates : AtMost(r, q) \in Bitrates
  BY ProfileAssumption DEF Shape, Rates, Bitrates, Clamped, AtMost, Asked

LEMMA InitInv == Init => IInv
<1> SUFFICES ASSUME Init PROVE IInv
  OBVIOUS
<1>1. MinBitrate \in Bitrates /\ MaxBitrate \in Bitrates /\ 0 \in 0..MaxRequests
      /\ 0 \in 0..MaxFeedbacks /\ 0 \in 0..MaxCaptures
  BY ProfileAssumption DEF Bitrates
<1>2. Shape
  BY <1>1 DEF Init, Shape, Closed, Managers, Rates, Feedbacks, Consumers, Encoders, Pasts, Steps, Asked
<1> QED
  BY <1>2 DEF Init, Closed, IInv, TakenIsAsked, InHand, Limiting, CeilingIsOwn, OpeningIsCurrent, AppliedIsCurrent,
     HasPendingBitrateChange, ActiveIsTrue, SizeIsLast

-----------------------------------------------------------------------------
(* The signaling thread.                                                   *)
LEMMA SignalingInv ==
  ASSUME IInv, NEW s \in Sessions,
         ClearSession(s) \/ \E p \in Profiles : Request(s, p) \/ RequestRefused(s, p)
  PROVE  IInv'
<1>1. /\ UNCHANGED <<rate, rtcp, consumer, encoder, idr, capturing>>
      /\ past' \in Pasts
  <2>1. Counted /\ SignalingOnly
    BY DEF Request, RequestRefused, ClearSession
  <2> QED  BY <2>1, ProfileAssumption DEF IInv, Shape, Pasts, Counted, SignalingOnly
<1>2. /\ manager' \in Managers
      /\ manager'.state # "Active" /\ manager'.pending \in {NoProfile, manager'.requested}
  <2>1. ASSUME NEW p \in Profiles, Request(s, p)
       PROVE  /\ manager' \in Managers
              /\ manager'.state # "Active" /\ manager'.pending \in {NoProfile, manager'.requested}
    BY <2>1 DEF IInv, Shape, Managers, Asked, Request
  <2>2. ASSUME NEW p \in Profiles, RequestRefused(s, p)
       PROVE  /\ manager' \in Managers
              /\ manager'.state # "Active" /\ manager'.pending \in {NoProfile, manager'.requested}
    BY <2>2 DEF IInv, Shape, Managers, Asked, RequestRefused
  <2>3. CASE ClearSession(s)
    BY <2>3 DEF IInv, Shape, Managers, Asked, ClearSession
  <2> QED  BY <2>1, <2>2, <2>3
<1> QED
  BY <1>1, <1>2 DEF Shape, IInv, TakenIsAsked, InHand, Limiting, CeilingIsOwn, OpeningIsCurrent, AppliedIsCurrent,
     HasPendingBitrateChange, ActiveIsTrue, SizeIsLast

-----------------------------------------------------------------------------
(* The thread of the RTCP reports, and keyframe requests.                  *)
LEMMA FeedbackInv ==
  ASSUME IInv, OnRtcpFeedback
  PROVE  IInv'
<1>1. rtcp' \in Feedbacks
  BY Bounds, ProfileAssumption DEF IInv, Shape, Feedbacks, OnRtcpFeedback
<1>2. past' \in Pasts
  BY Bounds, ProfileAssumption DEF IInv, Shape, Pasts, OnRtcpFeedback
<1>3. /\ UNCHANGED <<manager, rate, consumer, encoder, idr, capturing>>
      /\ rtcp.pc = "idle" /\ rtcp'.pc = "exchange"
  BY DEF IInv, Shape, Feedbacks, Pasts, OnRtcpFeedback
<1> QED
  BY <1>1, <1>2, <1>3 DEF Shape, IInv, TakenIsAsked, InHand, Limiting, CeilingIsOwn, OpeningIsCurrent, AppliedIsCurrent,
     HasPendingBitrateChange, ActiveIsTrue, SizeIsLast

LEMMA ExchangeInv ==
  ASSUME IInv, RtcpExchange
  PROVE  IInv'
<1>1. rtcp' \in Feedbacks
  BY Bounds DEF IInv, Shape, Feedbacks, RtcpExchange
<1>2. rate' \in Rates
  BY Bounds DEF IInv, Shape, Rates, Feedbacks, RtcpExchange
<1>3. /\ UNCHANGED <<manager, consumer, encoder, idr, capturing, past>>
      /\ rtcp.pc = "exchange"
      /\ rate'.ceiling = rate.ceiling /\ rate'.pending = rate.pending
      /\ rtcp'.pc = "bump" \/ rate'.current = rate.current
  BY DEF IInv, Shape, Feedbacks, Rates, RtcpExchange
<1> QED
  BY <1>1, <1>2, <1>3 DEF Shape, IInv, TakenIsAsked, InHand, Limiting, CeilingIsOwn, OpeningIsCurrent, AppliedIsCurrent,
     HasPendingBitrateChange, ActiveIsTrue, SizeIsLast

LEMMA AnnounceInv ==
  ASSUME IInv, RtcpAnnounce
  PROVE  IInv'
<1>1. rtcp' \in Feedbacks
  BY DEF IInv, Shape, Feedbacks, RtcpAnnounce
<1>2. rate' \in Rates
  BY DEF IInv, Shape, Rates, RtcpAnnounce
<1>3. consumer' \in Consumers
  BY DEF IInv, Shape, Consumers, Steps, Asked, RtcpAnnounce
<1>4. /\ UNCHANGED <<manager, encoder, idr, capturing, past>>
      /\ rate'.ceiling = rate.ceiling /\ rate'.current = rate.current
      /\ rate'.pending /\ ~consumer'.unchanged
      /\ consumer'.pc = consumer.pc /\ consumer'.taken = consumer.taken
      /\ consumer'.awaiting = consumer.awaiting /\ consumer'.last = consumer.last
      /\ consumer'.frame = consumer.frame
  BY DEF IInv, Shape, Feedbacks, Rates, Consumers, Steps, Asked, RtcpAnnounce
<1> QED
  BY <1>1, <1>2, <1>3, <1>4 DEF Shape, IInv, TakenIsAsked, InHand, Limiting, CeilingIsOwn, OpeningIsCurrent, AppliedIsCurrent,
     HasPendingBitrateChange, ActiveIsTrue, SizeIsLast

LEMMA RequestIDRInv ==
  ASSUME IInv, RequestIDR
  PROVE  IInv'
<1>1. /\ UNCHANGED <<manager, rate, rtcp, consumer, encoder, capturing, past>>
      /\ idr'
  BY DEF IInv, Shape, RequestIDR
<1> QED
  BY <1>1 DEF Shape, IInv, TakenIsAsked, InHand, Limiting, CeilingIsOwn, OpeningIsCurrent, AppliedIsCurrent,
     HasPendingBitrateChange, ActiveIsTrue, SizeIsLast

-----------------------------------------------------------------------------
(* The encoding thread.                                                    *)
LEMMA FrameInv ==
  ASSUME IInv, NEW w \in Windows, TakeFrame(w)
  PROVE  IInv'
<1>1. consumer' \in Consumers
  BY DEF IInv, Shape, Consumers, Steps, Asked, TakeFrame
<1>2. /\ UNCHANGED <<manager, rate, rtcp, encoder, idr, capturing, past>>
      /\ consumer.pc = "idle" /\ consumer'.pc = "take"
      /\ consumer'.awaiting = consumer.awaiting /\ consumer'.last = consumer.last
  BY DEF IInv, Shape, Consumers, Steps, Asked, TakeFrame
<1> QED
  BY <1>1, <1>2 DEF Shape, IInv, TakenIsAsked, InHand, Limiting, CeilingIsOwn, OpeningIsCurrent, AppliedIsCurrent,
     HasPendingBitrateChange, ActiveIsTrue, SizeIsLast

LEMMA TakePendingInv ==
  ASSUME IInv, TakePending
  PROVE  IInv'
<1>1. consumer' \in Consumers
  <2>1. manager.pending \in Asked \cup {NoProfile}
    BY DEF IInv, Shape, Managers
  <2>2. PICK pc \in Steps : consumer' = [consumer EXCEPT !.taken = manager.pending, !.pc = pc]
    BY DEF TakePending, Steps
  <2> QED  BY <2>1, <2>2 DEF IInv, Shape, Consumers
<1>2. manager' \in Managers
  BY DEF IInv, Shape, Managers, Asked, TakePending
<1>3. /\ UNCHANGED <<rate, rtcp, encoder, idr, capturing, past>>
      /\ consumer.pc = "take"
      /\ manager'.pending = NoProfile /\ manager'.requested = manager.requested
      /\ manager'.state = manager.state /\ manager'.active = manager.active
      /\ consumer'.pc = IF manager.pending = NoProfile THEN "check" ELSE "ceiling"
      /\ consumer'.taken = manager.pending
      /\ consumer'.awaiting = consumer.awaiting /\ consumer'.last = consumer.last
  BY DEF IInv, Shape, Consumers, Steps, Asked, Managers, TakePending
<1> QED
  BY <1>1, <1>2, <1>3 DEF Shape, IInv, TakenIsAsked, InHand, Limiting, CeilingIsOwn, OpeningIsCurrent, AppliedIsCurrent,
     HasPendingBitrateChange, ActiveIsTrue, SizeIsLast

LEMMA SetCeilingInv ==
  ASSUME IInv, SetCeiling
  PROVE  IInv'
<1>1. consumer.pc = "ceiling" /\ consumer.taken \in Asked
  BY DEF IInv, Shape, Consumers, SetCeiling, TakenIsAsked, InHand, Limiting
<1>2. consumer.taken.bitrate \in Bitrates /\ AtMost(rate.current, consumer.taken.bitrate) \in Bitrates
  BY <1>1, Bounds DEF IInv, Shape, Rates
<1>3. consumer' \in Consumers /\ rate' \in Rates
  BY <1>2 DEF IInv, Shape, Consumers, Steps, Rates, SetCeiling
<1>4. /\ UNCHANGED <<manager, rtcp, encoder, idr, capturing, past>>
      /\ rate'.ceiling = consumer.taken.bitrate /\ rate'.pending = rate.pending
      /\ rate'.current = rate.current /\ consumer'.pc = "lower"
      /\ consumer'.taken = consumer.taken /\ consumer'.awaiting = consumer.awaiting
      /\ consumer'.last = consumer.last
  BY DEF IInv, Shape, Consumers, Rates, SetCeiling
<1> QED
  BY <1>1, <1>3, <1>4 DEF Shape, IInv, TakenIsAsked, InHand, Limiting, CeilingIsOwn, OpeningIsCurrent, AppliedIsCurrent,
     HasPendingBitrateChange, ActiveIsTrue, SizeIsLast

LEMMA AdjustInv ==
  ASSUME IInv, AdjustBitrate
  PROVE  IInv'
<1>1. AfterCeiling \in {"raise", "decide"}
  BY DEF AfterCeiling
<1>2. ASSUME NEW at \in {"lower", "raise"}, NEW bump \in {"lowerBump", "raiseBump"},
             NEW next \in {"raise", "decide"}, Exchange(at, bump, next)
      PROVE  IInv'
  <2>1. consumer.taken \in Asked
    BY <1>2 DEF IInv, Shape, Consumers, TakenIsAsked, InHand, Limiting, Exchange
  <2>2. consumer.target \in Bitrates /\ Clamped(consumer.taken.bitrate) \in Bitrates
    BY <2>1, Bounds DEF IInv, Shape, Consumers
  <2>3. PICK target \in Bitrates :
          /\ rate' = [rate EXCEPT !.current = target]
          /\ consumer' = [consumer EXCEPT !.target = MinBitrate,
                                          !.pc = IF target # rate.current THEN bump ELSE next]
    BY <1>2, <2>2 DEF Exchange
  <2>4. consumer' \in Consumers /\ rate' \in Rates
    <3>1. PICK pc \in Steps : consumer' = [consumer EXCEPT !.target = MinBitrate, !.pc = pc]
      BY <2>3 DEF Steps
    <3>2. MinBitrate \in Bitrates
      BY Bounds DEF IInv
    <3> QED  BY <2>3, <3>1, <3>2 DEF IInv, Shape, Consumers, Rates
  <2>5. /\ UNCHANGED <<manager, rtcp, encoder, idr, capturing, past>> /\ consumer.pc = at
        /\ rate'.ceiling = rate.ceiling /\ rate'.pending = rate.pending
        /\ \/ consumer'.pc = bump
           \/ consumer'.pc = next /\ rate'.current = rate.current
        /\ consumer'.taken = consumer.taken /\ consumer'.awaiting = consumer.awaiting
        /\ consumer'.last = consumer.last
    BY <1>2, <2>3 DEF IInv, Shape, Consumers, Rates, Exchange
  <2> QED
    BY <2>4, <2>5 DEF Shape, IInv, TakenIsAsked, InHand, Limiting, CeilingIsOwn, OpeningIsCurrent, AppliedIsCurrent,
       HasPendingBitrateChange, ActiveIsTrue, SizeIsLast
<1>3. ASSUME NEW at \in {"lowerBump", "raiseBump"}, NEW next \in {"raise", "decide"}, Announce(at, next)
      PROVE  IInv'
  <2>1. consumer' \in Consumers /\ rate' \in Rates
    BY <1>3 DEF IInv, Shape, Consumers, Steps, Rates, Announce, Go
  <2>2. /\ UNCHANGED <<manager, rtcp, encoder, idr, capturing, past>> /\ consumer.pc = at
        /\ rate'.ceiling = rate.ceiling /\ rate'.pending /\ consumer'.pc = next
        /\ consumer'.taken = consumer.taken /\ consumer'.awaiting = consumer.awaiting
        /\ consumer'.last = consumer.last
    BY <1>3 DEF IInv, Shape, Consumers, Rates, Announce, Go
  <2> QED
    BY <2>1, <2>2 DEF Shape, IInv, TakenIsAsked, InHand, Limiting, CeilingIsOwn, OpeningIsCurrent, AppliedIsCurrent,
       HasPendingBitrateChange, ActiveIsTrue, SizeIsLast
<1> QED  BY <1>1, <1>2, <1>3 DEF AdjustBitrate

(* MarkApplied: the profile is active if it is still the one asked for.    *)
LEMMA AppliedType ==
  ASSUME Shape, NEW p \in Asked
  PROVE  /\ Applied(p) \in Managers
         /\ Applied(p).pending = manager.pending /\ Applied(p).requested = manager.requested
         /\ \/ Applied(p) = manager
            \/ Applied(p).active = p /\ manager.requested = p
  BY DEF Shape, Managers, Applied

LEMMA DecideInv ==
  ASSUME IInv, Decide
  PROVE  IInv'
<1>1. consumer.pc = "decide" /\ consumer.taken \in Asked
  BY DEF IInv, Shape, Consumers, Decide, TakenIsAsked, InHand, Limiting
<1>2. /\ UNCHANGED <<rate, rtcp, encoder, capturing, past>>
      /\ idr' \in BOOLEAN
      /\ consumer' \in Consumers /\ consumer'.pc = "check" /\ consumer'.last = consumer.last
      /\ \/ manager' = Applied(consumer.taken) /\ consumer'.awaiting = NoProfile
         \/ manager' = manager /\ consumer'.awaiting = consumer.taken
  <2>1. CASE /\ manager.active # NoProfile /\ manager.active.size = consumer.taken.size
             /\ ~HasPendingBitrateChange
    <3>1. /\ manager' = Applied(consumer.taken) /\ idr' = TRUE
          /\ consumer' = [consumer EXCEPT !.pc = "check", !.taken = NoProfile, !.awaiting = NoProfile]
          /\ UNCHANGED <<rate, rtcp, encoder, capturing, past>>
      BY <2>1 DEF Decide
    <3> QED  BY <3>1 DEF IInv, Shape, Consumers, Steps
  <2>2. CASE ~(/\ manager.active # NoProfile /\ manager.active.size = consumer.taken.size
               /\ ~HasPendingBitrateChange)
    <3>1. /\ UNCHANGED <<manager, idr>>
          /\ consumer' = [consumer EXCEPT !.pc = "check", !.taken = NoProfile, !.awaiting = consumer.taken]
          /\ UNCHANGED <<rate, rtcp, encoder, capturing, past>>
      BY <2>2 DEF Decide
    <3> QED  BY <1>1, <3>1 DEF IInv, Shape, Consumers, Steps
  <2> QED  BY <2>1, <2>2
<1>3. /\ manager' \in Managers
      /\ manager'.pending = manager.pending /\ manager'.requested = manager.requested
      /\ \/ manager' = manager /\ consumer'.awaiting \in {NoProfile, consumer.taken}
         \/ manager'.active = consumer.taken /\ manager.requested = consumer.taken
            /\ consumer'.awaiting = NoProfile
  BY <1>1, <1>2, AppliedType DEF IInv, Shape
<1> QED
  BY <1>1, <1>2, <1>3 DEF Shape, IInv, TakenIsAsked, InHand, Limiting, CeilingIsOwn, OpeningIsCurrent, AppliedIsCurrent,
     HasPendingBitrateChange, ActiveIsTrue, SizeIsLast

LEMMA CheckInv ==
  ASSUME IInv, SkipFrame \/ CheckEncoder
  PROVE  IInv'
<1>1. UNCHANGED <<manager, rate, rtcp, idr, capturing, past>> /\ consumer.pc = "check"
  BY DEF SkipFrame, CheckEncoder
<1>2. \/ NextFrame /\ UNCHANGED encoder
      \/ consumer' = [consumer EXCEPT !.pc = "generation", !.recent = TRUE] /\ encoder' = Closed
      \/ Go("submit") /\ UNCHANGED encoder /\ consumer.last = consumer.frame
  BY DEF SkipFrame, CheckEncoder, NeedsInit
<1>3. /\ consumer' \in Consumers
      /\ consumer'.pc \in {"idle", "generation", "submit"}
      /\ consumer'.awaiting = consumer.awaiting /\ consumer'.last = consumer.last
      /\ consumer'.pc = "submit" => consumer'.frame = consumer.frame /\ consumer.last = consumer.frame
  <2> consumer \in Consumers
    BY DEF IInv, Shape
  <2>1. CASE NextFrame
    BY <2>1 DEF Consumers, Steps, NextFrame
  <2>2. CASE consumer' = [consumer EXCEPT !.pc = "generation", !.recent = TRUE]
    BY <2>2 DEF Consumers, Steps
  <2>3. CASE Go("submit") /\ consumer.last = consumer.frame
    BY <2>3 DEF Consumers, Steps, Go
  <2> QED  BY <1>2, <2>1, <2>2, <2>3
<1>4. encoder' \in Encoders /\ (encoder' = encoder \/ ~encoder'.open)
  <2>1. Closed \in Encoders /\ ~Closed.open
    BY Bounds DEF IInv, Encoders, Closed
  <2> QED  BY <1>2, <2>1 DEF IInv, Shape
<1> QED
  BY <1>1, <1>3, <1>4 DEF Shape, IInv, TakenIsAsked, InHand, Limiting, CeilingIsOwn, OpeningIsCurrent, AppliedIsCurrent,
     HasPendingBitrateChange, ActiveIsTrue, SizeIsLast

LEMMA ReadInv ==
  ASSUME IInv, ReadGeneration \/ ReadBitrate
  PROVE  IInv'
<1>1. /\ consumer \in Consumers /\ rate.current \in Bitrates /\ idr \in BOOLEAN
      /\ UNCHANGED <<manager, rate, rtcp, encoder, capturing, past>>
  BY DEF IInv, Shape, Rates, ReadGeneration, ReadBitrate
<1>2. /\ consumer' \in Consumers /\ idr' \in BOOLEAN
      /\ \/ consumer.pc = "generation" /\ consumer'.pc = "bitrate" /\ consumer'.unchanged
         \/ /\ consumer.pc = "bitrate" /\ consumer'.pc = "open" /\ idr'
            /\ consumer'.unchanged = consumer.unchanged /\ consumer'.bitrate = rate.current
      /\ consumer'.awaiting = consumer.awaiting /\ consumer'.last = consumer.last
  <2>1. CASE ReadGeneration
    BY <1>1, <2>1 DEF ReadGeneration, Consumers, Steps
  <2>2. CASE ReadBitrate
    BY <1>1, <2>2 DEF ReadBitrate, Consumers, Steps
  <2> QED  BY <2>1, <2>2
<1> QED
  BY <1>1, <1>2 DEF Shape, IInv, TakenIsAsked, InHand, Limiting, CeilingIsOwn, OpeningIsCurrent, AppliedIsCurrent,
     HasPendingBitrateChange, ActiveIsTrue, SizeIsLast

LEMMA InitializeInv ==
  ASSUME IInv, InitializeEncoder
  PROVE  IInv'
<1>1. consumer.pc = "open" /\ UNCHANGED <<rtcp, idr, capturing, past>>
  BY DEF InitializeEncoder
<1>2. /\ consumer' \in Consumers /\ consumer'.pc = "submit" /\ consumer'.awaiting = NoProfile
      /\ consumer'.last = consumer.frame /\ consumer'.frame = consumer.frame
  BY Bounds DEF InitializeEncoder, IInv, Shape, Consumers, Steps
<1>3. /\ encoder' \in Encoders /\ encoder'.size = consumer.frame /\ encoder'.bitrate = consumer.bitrate
  BY DEF InitializeEncoder, IInv, Shape, Consumers, Encoders
<1>4. /\ rate' \in Rates /\ rate'.current = rate.current /\ rate'.ceiling = rate.ceiling
      /\ rate'.pending = (rate.pending /\ ~consumer.unchanged)
  BY DEF InitializeEncoder, StillPending, IInv, Shape, Rates, Consumers
<1>5. /\ manager' \in Managers
      /\ manager'.pending = manager.pending /\ manager'.requested = manager.requested
      /\ \/ manager' = manager
         \/ manager'.active = consumer.awaiting /\ manager.requested = consumer.awaiting
            /\ consumer.awaiting # NoProfile
  BY AppliedType DEF InitializeEncoder, IInv, Shape, Consumers
<1> QED
  BY <1>1, <1>2, <1>3, <1>4, <1>5 DEF Shape, IInv, TakenIsAsked, InHand, Limiting, CeilingIsOwn, OpeningIsCurrent, AppliedIsCurrent,
     HasPendingBitrateChange, ActiveIsTrue, SizeIsLast

LEMMA FailInv ==
  ASSUME IInv, InitializeFails
  PROVE  IInv'
<1>1. consumer' \in Consumers
  BY Bounds DEF IInv, Shape, Consumers, Steps, Asked, InitializeFails, Rejected
<1>2. manager' \in Managers
  BY Bounds DEF IInv, Shape, Managers, Asked, InitializeFails, Rejected
<1>3. /\ UNCHANGED <<rate, rtcp, encoder, idr, capturing, past>>
      /\ consumer.pc = "open" /\ consumer'.pc = "idle" /\ consumer'.awaiting = NoProfile /\ consumer'.last = consumer.last
      /\ manager'.pending = manager.pending /\ manager'.requested = manager.requested
      /\ manager' = manager \/ manager'.state = "Rejected"
  BY DEF IInv, Shape, Consumers, Steps, Asked, Managers, InitializeFails, Rejected
<1> QED
  BY <1>1, <1>2, <1>3 DEF Shape, IInv, TakenIsAsked, InHand, Limiting, CeilingIsOwn, OpeningIsCurrent, AppliedIsCurrent,
     HasPendingBitrateChange, ActiveIsTrue, SizeIsLast

LEMMA SubmitInv ==
  ASSUME IInv, SubmitHwFrame
  PROVE  IInv'
<1>1. consumer' \in Consumers
  BY DEF IInv, Shape, Consumers, Steps, Asked, SubmitHwFrame, NextFrame
<1>2. encoder' \in Encoders
  BY DEF IInv, Shape, Encoders, SubmitHwFrame, NextFrame
<1>3. /\ UNCHANGED <<manager, rate, rtcp, capturing, past>>
      /\ consumer'.pc = "idle" /\ consumer.pc = "submit" /\ idr' \in BOOLEAN
      /\ consumer'.awaiting = consumer.awaiting /\ consumer'.last = consumer.last
      /\ encoder'.open = encoder.open /\ encoder'.size = encoder.size
      /\ encoder'.bitrate = encoder.bitrate
  BY DEF IInv, Shape, Consumers, Steps, Asked, Encoders, SubmitHwFrame, NextFrame
<1> QED
  BY <1>1, <1>2, <1>3 DEF Shape, IInv, TakenIsAsked, InHand, Limiting, CeilingIsOwn, OpeningIsCurrent, AppliedIsCurrent,
     HasPendingBitrateChange, ActiveIsTrue, SizeIsLast

LEMMA TickInv ==
  ASSUME IInv, Tick
  PROVE  IInv'
<1>1. consumer' \in Consumers
  BY DEF IInv, Shape, Consumers, Steps, Asked, Tick
<1>2. /\ UNCHANGED <<manager, rate, rtcp, encoder, idr, capturing, past>>
      /\ consumer'.pc = consumer.pc /\ consumer'.taken = consumer.taken
      /\ consumer'.frame = consumer.frame /\ consumer'.awaiting = consumer.awaiting
      /\ consumer'.last = consumer.last /\ consumer'.unchanged = consumer.unchanged
      /\ consumer'.bitrate = consumer.bitrate
  BY DEF IInv, Shape, Consumers, Steps, Asked, Tick
<1> QED
  BY <1>1, <1>2 DEF Shape, IInv, TakenIsAsked, InHand, Limiting, CeilingIsOwn, OpeningIsCurrent, AppliedIsCurrent,
     HasPendingBitrateChange, ActiveIsTrue, SizeIsLast

-----------------------------------------------------------------------------
(* The runtime thread.                                                     *)
LEMMA StartInv ==
  ASSUME IInv, StartCapture
  PROVE  IInv'
<1>1. past' \in Pasts
  BY ProfileAssumption DEF IInv, Shape, Pasts, StartCapture
<1>2. /\ UNCHANGED <<manager, rate, rtcp, consumer, encoder, idr>>
      /\ capturing' \in BOOLEAN
  BY DEF IInv, Shape, Pasts, StartCapture
<1> QED
  BY <1>1, <1>2 DEF Shape, IInv, TakenIsAsked, InHand, Limiting, CeilingIsOwn, OpeningIsCurrent, AppliedIsCurrent,
     HasPendingBitrateChange, ActiveIsTrue, SizeIsLast

LEMMA StopInv ==
  ASSUME IInv, StopCapture
  PROVE  IInv'
<1>1. past' \in Pasts
  BY Bounds DEF IInv, Shape, Pasts, StopCapture, Closed
<1>2. consumer' \in Consumers
  BY Bounds DEF IInv, Shape, Consumers, Steps, Asked, StopCapture, Closed
<1>3. encoder' \in Encoders
  BY Bounds DEF IInv, Shape, Encoders, StopCapture, Closed
<1>4. /\ UNCHANGED <<manager, rate, rtcp, idr>>
      /\ capturing' \in BOOLEAN /\ consumer.pc = "idle" /\ consumer'.pc = "idle"
      /\ consumer'.awaiting = NoProfile /\ ~encoder'.open
  BY DEF IInv, Shape, Pasts, Consumers, Steps, Asked, Encoders, StopCapture, Closed
<1> QED
  BY <1>1, <1>2, <1>3, <1>4 DEF Shape, IInv, TakenIsAsked, InHand, Limiting, CeilingIsOwn, OpeningIsCurrent, AppliedIsCurrent,
     HasPendingBitrateChange, ActiveIsTrue, SizeIsLast

LEMMA StutterInv ==
  ASSUME IInv, UNCHANGED vars
  PROVE  IInv'
  BY DEF vars, Shape, IInv, TakenIsAsked, InHand, Limiting, CeilingIsOwn, OpeningIsCurrent, AppliedIsCurrent,
     HasPendingBitrateChange, ActiveIsTrue, SizeIsLast

LEMMA StepInv == IInv /\ [Next]_vars => IInv'
<1> SUFFICES ASSUME IInv, [Next]_vars PROVE IInv'
  OBVIOUS
<1>1. ASSUME NEW s \in Sessions, ClearSession(s) \/ \E p \in Profiles : Request(s, p) \/ RequestRefused(s, p)
      PROVE  IInv'
  BY <1>1, SignalingInv
<1>2. CASE OnRtcpFeedback \/ RtcpExchange \/ RtcpAnnounce \/ RequestIDR
  BY <1>2, FeedbackInv, ExchangeInv, AnnounceInv, RequestIDRInv
<1>3. CASE \E w \in Windows : TakeFrame(w)
  BY <1>3, FrameInv
<1>4. CASE Consumer
  BY <1>4, TakePendingInv, SetCeilingInv, AdjustInv, DecideInv, CheckInv, ReadInv, InitializeInv,
     FailInv, SubmitInv DEF Consumer
<1>5. CASE Tick \/ StartCapture \/ StopCapture
  BY <1>5, TickInv, StartInv, StopInv
<1>6. CASE UNCHANGED vars
  BY <1>6, StutterInv
<1> QED  BY <1>1, <1>2, <1>3, <1>4, <1>5, <1>6 DEF Next

LEMMA InvHolds == Spec => []IInv
  BY InitInv, StepInv, PTL DEF Spec

-----------------------------------------------------------------------------
(* Every record keeps its fields within their types: the bitrate stays     *)
(* between the limits of SetBitrateLimits, and so does its ceiling.         *)
THEOREM ProfilesTypeCorrect == Spec => []TypeOK
  BY ShapeIsType, InvHolds, PTL DEF IInv

(* Once no change of the bitrate is pending or about to be announced, the  *)
(* encoder runs at the bitrate that is wanted, wherever reports fell       *)
(* between the reads of its opening.                                       *)
THEOREM BitrateIsApplied == Spec => []AppliedIsCurrent
  BY InvHolds, PTL DEF IInv

(* A profile is reported active only while it is the one last asked for    *)
(* and its ceiling holds, however requests, refusals and the end of a      *)
(* session fall into its application.                                      *)
THEOREM ActiveProfileIsTrue == Spec => []ActiveIsTrue
  BY InvHolds, PTL DEF IInv

(* A frame that reaches the encoder has the size it was opened for, also   *)
(* when the window changed while a reopening failed or was put off.        *)
THEOREM FramesFitEncoder == Spec => []SizesAgree
<1>1. IInv => SizesAgree
  BY DEF IInv, SizeIsLast, SizesAgree
<1> QED  BY <1>1, InvHolds, PTL
=============================================================================
