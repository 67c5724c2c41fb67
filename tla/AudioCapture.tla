---------------------------- MODULE AudioCapture ----------------------------
(***************************************************************************)
(* The audio path of the host (src/Host/AudioCapturer.cpp).  The runtime   *)
(* thread starts and stops it; a capture thread reads WASAPI packets, cuts *)
(* them into frames and pushes these into a ring; an encoder thread takes  *)
(* frames out of the ring and puts Opus packets into a queue; a sender     *)
(* thread hands the packets to Pion.  Both buffers replace the oldest      *)
(* entry when they are full.  The device can fail at every call.           *)
(*                                                                         *)
(* A frame is made of two blocks of samples and is known by its number and *)
(* by the capture session of each block.  m_stopEncoder is set and         *)
(* announced without the mutex of the ring, so the test of the encoder's   *)
(* wait and its falling asleep are two steps; the sender's flag is set     *)
(* under the mutex of the queue, so there they are one.                    *)
(***************************************************************************)
EXTENDS Naturals, Sequences

CONSTANTS
    RING_BUFFER_SIZE,    \* frames in the ring (3 in the code)
    MAX_RETRY_ATTEMPTS,  \* errors in a row that are retried (3)
    LOAD_RETRIES,        \* errors in a row that are borne under load (10)
    MAX_REINIT_ATTEMPTS, \* reinitialisations of a capturer (3)
    ProcessLoopback,     \* processLoopback.enabled
    DeviceFallback,      \* processLoopback.fallbackToDeviceLoopback
    Faults,              \* what may go wrong, a subset of FaultKinds
    MaxSessions,         \* bound on calls of StartCapture
    MaxAudioFrames       \* bound on frames of a behaviour

FaultKinds == {"opus", "startup", "invalidated", "buffer", "pointer", "other",
               "reinit", "convert", "remap", "encode", "load"}

ASSUME AudioAssumption ==
    /\ RING_BUFFER_SIZE \in Nat \ {0}
    /\ {MAX_RETRY_ATTEMPTS, LOAD_RETRIES, MAX_REINIT_ATTEMPTS, MaxSessions,
        MaxAudioFrames} \subseteq Nat
    /\ {ProcessLoopback, DeviceFallback} \subseteq BOOLEAN
    /\ Faults \subseteq FaultKinds

VARIABLES
    caller,  \* [pc, failed]: the runtime thread, failed if it undoes a start
    audio,   \* [state, stop, startup]: m_state, m_stopCapture, the startup report
    capture, \* [pc, errors]: the capture thread and m_consecutiveErrorCount
    device,  \* [client, source, events, reinits]: the WASAPI objects
    partial, \* the blocks in m_currentFrameBuffer, by session
    ring,    \* m_frameRingBuffer, oldest first
    encoder, \* [pc, stop, frame]: the encoder thread
    packets, \* m_audioQueue
    sender,  \* [pc, stop, packet]: the thread of the queue
    session, \* StartCapture calls so far
    newest,  \* frames completed so far: the number of the newest
    history  \* [sent, settled], for the properties: the last packet sent, and the last
             \* frame that need not be (refused by Opus, or of an earlier capture)

audioVars == <<caller, audio, capture, device, partial, ring, encoder, packets, sender,
               session, newest, history>>

Absent == "none"
AudioFrame == [no: 1..MaxAudioFrames, first: 1..MaxSessions, last: 1..MaxSessions]
NoAudioFrame == [no |-> 0, first |-> 0, last |-> 0]

Runtimes == [pc: {"idle", "starting", "capturing", "joining", "flagging", "notifying",
                  "joiningEncoder", "stoppingQueue", "joiningSender", "crashed"},
             failed: BOOLEAN]
Audios == [state: {"Disabled", "Initializing", "Running", "Silent", "Failed", "Restarting"},
           stop: BOOLEAN, startup: {Absent, "ok", "failed"}]
Captures == [pc: {Absent, "init", "poll", "packet", "reinit", "reinitLast", "exit", "ended",
                  "crashed"},
             errors: 0..MAX_RETRY_ATTEMPTS + LOAD_RETRIES]
Devices == [client: {"null", "ok", "lost"}, source: {Absent, "process", "device"},
            events: BOOLEAN, reinits: 0..MAX_REINIT_ATTEMPTS]
Encoders == [pc: {Absent, "test", "wait", "dozing", "asleep", "pop", "encode", "drain",
                  "drainEncode", "ended"}, stop: BOOLEAN, frame: AudioFrame \cup {NoAudioFrame}]
Senders == [pc: {Absent, "test", "wait", "asleep", "send", "ended"}, stop: BOOLEAN,
            packet: AudioFrame \cup {NoAudioFrame}]
Pasts == [sent: 0..MaxAudioFrames, settled: 0..MaxAudioFrames]

AudioTypeOK ==
    /\ caller \in Runtimes /\ audio \in Audios /\ capture \in Captures /\ device \in Devices
    /\ partial \in {<<>>} \cup {<<s>> : s \in 1..MaxSessions}
    /\ ring \in Seq(AudioFrame) /\ Len(ring) <= RING_BUFFER_SIZE
    /\ encoder \in Encoders
    /\ packets \in Seq(AudioFrame) /\ Len(packets) <= 1
    /\ sender \in Senders
    /\ session \in 0..MaxSessions
    /\ newest \in 0..MaxAudioFrames
    /\ history \in Pasts

AudioInit ==
    /\ caller = [pc |-> "idle", failed |-> FALSE]
    /\ audio = [state |-> "Disabled", stop |-> TRUE, startup |-> Absent]
    /\ capture = [pc |-> Absent, errors |-> 0]
    /\ device = [client |-> "null", source |-> Absent, events |-> FALSE, reinits |-> 0]
    /\ partial = <<>>
    /\ ring = <<>>
    /\ encoder = [pc |-> Absent, stop |-> TRUE, frame |-> NoAudioFrame]
    /\ packets = <<>>
    /\ sender = [pc |-> Absent, stop |-> TRUE, packet |-> NoAudioFrame]
    /\ session = 0
    /\ newest = 0
    /\ history = [sent |-> 0, settled |-> 0]

Fault(f) == f \in Faults

----------------------------------------------------------------------------
(* The runtime thread. *)

\* Opus refuses the settings: nothing was started.
StartRefused ==
    /\ Fault("opus")
    /\ caller.pc = "idle" /\ session < MaxSessions
    /\ session' = session + 1
    /\ audio' = [audio EXCEPT !.state = "Failed"]
    /\ UNCHANGED <<caller, capture, device, partial, ring, encoder, packets, sender,
                   newest, history>>

\* The ring is emptied and the three threads start; the queue is used as it is.
StartAudio ==
    /\ caller.pc = "idle" /\ session < MaxSessions
    /\ audio.stop /\ capture.pc = Absent
    /\ session' = session + 1
    /\ audio' = [state |-> "Initializing", stop |-> FALSE, startup |-> Absent]
    /\ ring' = <<>>
    /\ encoder' = [pc |-> "test", stop |-> FALSE, frame |-> NoAudioFrame]
    /\ sender' = [pc |-> "test", stop |-> FALSE, packet |-> NoAudioFrame]
    /\ capture' = [capture EXCEPT !.pc = "init"]
    /\ caller' = [pc |-> "starting", failed |-> FALSE]
    /\ history' = [history EXCEPT !.settled = newest]
    /\ UNCHANGED <<device, partial, packets, newest>>

\* The capture thread reported success: the state is set whatever it is by now.
Started ==
    /\ caller.pc = "starting" /\ audio.startup = "ok"
    /\ caller' = [caller EXCEPT !.pc = "capturing"]
    /\ audio' = [audio EXCEPT !.state = "Running"]
    /\ UNCHANGED <<capture, device, partial, ring, encoder, packets, sender, session, newest, history>>

\* It reported failure, or fifteen seconds passed without a report.
StartFailed ==
    /\ caller.pc = "starting"
    /\ audio.startup = "failed" \/ (audio.startup = Absent /\ Fault("startup"))
    /\ caller' = [pc |-> "joining", failed |-> TRUE]
    /\ audio' = [audio EXCEPT !.stop = TRUE]
    /\ UNCHANGED <<capture, device, partial, ring, encoder, packets, sender, session,
                   newest, history>>

StopAudio ==
    /\ caller.pc = "capturing"
    /\ caller' = [caller EXCEPT !.pc = "joining"]
    /\ audio' = [audio EXCEPT !.stop = TRUE]
    /\ UNCHANGED <<capture, device, partial, ring, encoder, packets, sender, session,
                   newest, history>>

JoinCapture ==
    /\ caller.pc = "joining" /\ capture.pc = "ended"
    /\ capture' = [capture EXCEPT !.pc = Absent]
    /\ caller' = [caller EXCEPT !.pc = "flagging"]
    /\ UNCHANGED <<audio, device, partial, ring, encoder, packets, sender, session,
                   newest, history>>

\* StopEncoderThread: the flag, the notification and the join, without the mutex.
FlagEncoder ==
    /\ caller.pc = "flagging"
    /\ encoder' = [encoder EXCEPT !.stop = TRUE]
    /\ caller' = [caller EXCEPT !.pc = "notifying"]
    /\ UNCHANGED <<audio, capture, device, partial, ring, packets, sender, session,
                   newest, history>>

AudioWoken(thread) == [thread EXCEPT !.pc = IF @ = "asleep" THEN "wait" ELSE @]

NotifyEncoder ==
    /\ caller.pc = "notifying"
    /\ encoder' = AudioWoken(encoder)
    /\ caller' = [caller EXCEPT !.pc = "joiningEncoder"]
    /\ UNCHANGED <<audio, capture, device, partial, ring, packets, sender, session,
                   newest, history>>

JoinEncoder ==
    /\ caller.pc = "joiningEncoder" /\ encoder.pc = "ended"
    /\ encoder' = [encoder EXCEPT !.pc = Absent]
    /\ caller' = [caller EXCEPT !.pc = "stoppingQueue"]
    /\ UNCHANGED <<audio, capture, device, partial, ring, packets, sender, session,
                   newest, history>>

\* StopQueueProcessor sets its flag and notifies under the mutex.
StopQueueProcessor ==
    /\ caller.pc = "stoppingQueue"
    /\ sender' = [AudioWoken(sender) EXCEPT !.stop = TRUE]
    /\ caller' = [caller EXCEPT !.pc = "joiningSender"]
    /\ UNCHANGED <<audio, capture, device, partial, ring, encoder, packets, session,
                   newest, history>>

\* The end of StopCapture, and of a start that failed.
Finish ==
    /\ caller.pc = "joiningSender" /\ sender.pc = "ended"
    /\ sender' = [sender EXCEPT !.pc = Absent]
    /\ caller' = [pc |-> "idle", failed |-> FALSE]
    /\ audio' = [audio EXCEPT !.state = IF caller.failed THEN "Failed" ELSE "Disabled"]
    /\ UNCHANGED <<capture, device, partial, ring, encoder, packets, session, newest, history>>

AudioRuntime ==
    \/ StartRefused \/ StartAudio \/ Started \/ StartFailed \/ StopAudio \/ JoinCapture
    \/ FlagEncoder \/ NotifyEncoder \/ JoinEncoder \/ StopQueueProcessor \/ Finish

----------------------------------------------------------------------------
(* The capture thread. *)

Quiet == UNCHANGED <<caller, partial, ring, encoder, packets, sender, session, newest, history>>

\* WASAPI is activated, initialised and started, and the start is reported.
Begin(source) ==
    /\ capture.pc = "init"
    /\ \E events \in BOOLEAN :
           device' = [device EXCEPT !.client = "ok", !.source = source, !.events = events]
    /\ capture' = [capture EXCEPT !.pc = "poll"]
    /\ audio' = [audio EXCEPT !.startup = "ok"]
    /\ Quiet

\* The virtual device of the target process.
ActivateProcess == ProcessLoopback /\ Begin("process")

\* An endpoint: the one that plays the target's sound, or the default one.
ActivateDevice == (ProcessLoopback => DeviceFallback) /\ Begin("device")

ActivationFails ==
    /\ capture.pc = "init" /\ Fault("startup")
    /\ capture' = [capture EXCEPT !.pc = "exit"]
    /\ UNCHANGED <<audio, device>> /\ Quiet

\* The top of the loop; the wait is bounded, so a stop is seen.
Poll ==
    /\ capture.pc = "poll"
    /\ IF audio.stop THEN capture' = [capture EXCEPT !.pc = "exit"]
       ELSE device.client = "ok" /\ newest < MaxAudioFrames
            /\ capture' = [pc |-> "packet", errors |-> 0]
    /\ UNCHANGED <<audio, device>> /\ Quiet

\* The capture client is used without a test: if it is gone the process dies.
NullClient ==
    /\ capture.pc \in {"poll", "packet"} /\ ~audio.stop /\ device.client = "null"
    /\ capture' = [capture EXCEPT !.pc = "crashed"]
    /\ caller' = [caller EXCEPT !.pc = "crashed"]
    /\ encoder' = [encoder EXCEPT !.pc = Absent]
    /\ sender' = [sender EXCEPT !.pc = Absent]
    /\ UNCHANGED <<audio, device, partial, ring, packets, session, newest, history>>

\* ShouldRetryError; the last call of the inner loop is treated apart.
Retried(error) == error # "other" /\ capture.errors < MAX_RETRY_ATTEMPTS

CallFails(error) ==
    /\ capture.pc \in {"poll", "packet"} /\ device.client # "null"
    /\ capture.pc = "poll" => ~audio.stop
    /\ error \in {"invalidated", "buffer", "pointer", "other"}
    /\ Fault(error) \/ device.client = "lost"
    /\ device.client = "lost" => error = "invalidated"
    /\ \/ Retried(error) /\ error = "invalidated"
          /\ \E next \in {"reinit"} \cup (IF capture.pc = "packet" THEN {"reinitLast"} ELSE {}) :
                capture' = [pc |-> next, errors |-> capture.errors + 1]
          /\ audio' = [audio EXCEPT !.state = "Restarting"]
          /\ device' = [device EXCEPT !.client = "lost"]
       \/ Retried(error) /\ error = "buffer" /\ device.events
          /\ capture' = [pc |-> "poll", errors |-> 0]
          /\ device' = [device EXCEPT !.events = FALSE]
          /\ UNCHANGED audio
       \/ Retried(error) /\ (error = "pointer" \/ (error = "buffer" /\ ~device.events))
          /\ capture' = [capture EXCEPT !.errors = @ + 1]
          /\ UNCHANGED <<audio, device>>
       \/ ~Retried(error) /\ Fault("load") /\ capture.errors < LOAD_RETRIES
          /\ capture' = [capture EXCEPT !.errors = @ + 1]
          /\ UNCHANGED <<audio, device>>
       \/ ~Retried(error)
          /\ capture' = [capture EXCEPT !.pc = "exit"]
          /\ UNCHANGED <<audio, device>>
    /\ Quiet

\* What follows a reinitialisation that failed: TryRecoverFromError switches the
\* mode and reports success, except after the last call of the inner loop.
Unrecovered ==
    capture' = IF capture.pc = "reinitLast" THEN [capture EXCEPT !.pc = "exit"]
               ELSE [pc |-> "poll", errors |-> 0]

\* The endpoint, or one that plays the target's sound, is opened in shared mode
\* as a loopback of the whole device, whatever was captured before.
ReinitializeAudioClient ==
    /\ capture.pc \in {"reinit", "reinitLast"}
    /\ device.reinits < MAX_REINIT_ATTEMPTS
    /\ \/ device' = [client |-> "ok", source |-> "device", events |-> device.events,
                     reinits |-> device.reinits + 1]
          /\ audio' = [audio EXCEPT !.state = "Running"]
          /\ capture' = [pc |-> "poll", errors |-> 0]
       \/ Fault("reinit")
          /\ device' = [device EXCEPT !.client = "null", !.events = FALSE, !.reinits = @ + 1]
          /\ Unrecovered
          /\ UNCHANGED audio
    /\ Quiet

ReinitRefused ==
    /\ capture.pc \in {"reinit", "reinitLast"}
    /\ device.reinits = MAX_REINIT_ATTEMPTS
    /\ audio' = [audio EXCEPT !.state = "Failed"]
    /\ device' = [device EXCEPT !.events = FALSE]
    /\ Unrecovered
    /\ Quiet

\* UpdateSilenceState: a signal, two seconds without one, or neither.
Heard ==
    \E s \in {audio.state} \cup (IF audio.state \in {"Running", "Silent"} THEN {"Running", "Silent"} ELSE {}) :
        audio' = [audio EXCEPT !.state = s]

\* PushFrameToRingBuffer: the oldest frame of a full ring is given up.
PushedIfRoom(buffer, frame) ==
    IF Len(buffer) >= RING_BUFFER_SIZE THEN buffer ELSE Append(buffer, frame)

Pushed(buffer, frame) ==
    Append(IF Len(buffer) >= RING_BUFFER_SIZE THEN Tail(buffer) ELSE buffer, frame)

\* The mutex of the ring, which the encoder holds from its test until it sleeps.
RingFreeAlways == TRUE

RingFree == encoder.pc # "dozing"

\* A block is converted and added to the frame; a full frame goes into the ring
\* and wakes the encoder.
ProcessAudioFrame ==
    /\ capture.pc = "packet" /\ device.client = "ok" /\ newest < MaxAudioFrames
    /\ Heard
    /\ IF partial = <<>>
       THEN partial' = <<session>> /\ UNCHANGED <<ring, encoder, newest>>
       ELSE /\ RingFree
            /\ partial' = <<>>
            /\ newest' = newest + 1
            /\ ring' = Pushed(ring, [no |-> newest + 1, first |-> partial[1], last |-> session])
            /\ encoder' = AudioWoken(encoder)
    /\ \E next \in {"packet", "poll"} : capture' = [pc |-> next, errors |-> 0]
    /\ UNCHANGED <<caller, device, packets, sender, session, history>>

\* A block that cannot be converted ends the capture, one whose channels cannot
\* be mapped is skipped.
BlockFails ==
    /\ capture.pc = "packet"
    /\ \/ Fault("convert") /\ capture' = [pc |-> "exit", errors |-> 0]
       \/ Fault("remap") /\ capture' = [capture EXCEPT !.errors = 0]
    /\ UNCHANGED <<audio, device>> /\ Quiet

\* The exit label: a startup nobody reported has failed, and a capture that was
\* not asked to stop has failed.
Exit ==
    /\ capture.pc = "exit"
    /\ capture' = [capture EXCEPT !.pc = "ended"]
    /\ audio' = [audio EXCEPT !.startup = IF @ = Absent THEN "failed" ELSE @,
                              !.state = IF audio.stop THEN @ ELSE "Failed"]
    /\ UNCHANGED device /\ Quiet

CaptureThread ==
    \/ ActivateProcess \/ ActivateDevice \/ ActivationFails \/ Poll \/ NullClient
    \/ \E error \in FaultKinds : CallFails(error)
    \/ ReinitializeAudioClient \/ ReinitRefused \/ ProcessAudioFrame \/ BlockFails \/ Exit

----------------------------------------------------------------------------
(* The encoder thread. *)

EncoderOnly == UNCHANGED <<caller, audio, capture, device, partial, session, newest>>

\* The loop condition and the predicate of the wait, under the mutex of the ring.
EncoderTest ==
    /\ encoder.pc \in {"test", "wait"}
    /\ encoder' = [encoder EXCEPT !.pc = IF encoder.stop THEN "drain"
                                         ELSE IF ring # <<>> THEN "pop" ELSE "dozing"]
    /\ UNCHANGED <<ring, packets, sender, history>> /\ EncoderOnly

EncoderSleeps ==
    /\ encoder.pc = "dozing"
    /\ encoder' = [encoder EXCEPT !.pc = "asleep"]
    /\ UNCHANGED <<ring, packets, sender, history>> /\ EncoderOnly

\* PopFrameFromRingBuffer, in the loop and, until it finds nothing, after it.
EncoderPopNewest ==
    /\ encoder.pc \in {"pop", "drain"}
    /\ IF ring = <<>>
       THEN /\ encoder' = [encoder EXCEPT !.pc = IF @ = "pop" THEN "test" ELSE "ended"]
            /\ UNCHANGED ring
       ELSE /\ encoder' = [encoder EXCEPT !.pc = IF @ = "pop" THEN "encode" ELSE "drainEncode",
                                          !.frame = ring[Len(ring)]]
            /\ ring' = SubSeq(ring, 1, Len(ring) - 1)
    /\ UNCHANGED <<packets, sender, history>> /\ EncoderOnly

EncoderPop ==
    /\ encoder.pc \in {"pop", "drain"}
    /\ IF ring = <<>>
       THEN /\ encoder' = [encoder EXCEPT !.pc = IF @ = "pop" THEN "test" ELSE "ended"]
            /\ UNCHANGED ring
       ELSE /\ encoder' = [encoder EXCEPT !.pc = IF @ = "pop" THEN "encode" ELSE "drainEncode",
                                          !.frame = Head(ring)]
            /\ ring' = Tail(ring)
    /\ UNCHANGED <<packets, sender, history>> /\ EncoderOnly

\* The packet replaces one that is still waiting, and the sender is woken.
EncodeAndQueueFrame ==
    /\ encoder.pc \in {"encode", "drainEncode"}
    /\ \/ packets' = <<encoder.frame>> /\ sender' = AudioWoken(sender) /\ UNCHANGED history
       \/ /\ Fault("encode")
          /\ history' = [history EXCEPT !.settled = encoder.frame.no]
          /\ UNCHANGED <<packets, sender>>
    /\ encoder' = [encoder EXCEPT !.pc = IF @ = "encode" THEN "test" ELSE "drain",
                                      !.frame = NoAudioFrame]
    /\ UNCHANGED ring /\ EncoderOnly

EncoderThread == EncoderTest \/ EncoderSleeps \/ EncoderPop \/ EncodeAndQueueFrame

----------------------------------------------------------------------------
(* The sender thread. *)

SenderOnly == UNCHANGED <<caller, audio, capture, device, partial, ring, encoder, session, newest>>

\* A stop seen by the condition of the outer loop leaves the queue as it is.
SenderTest ==
    /\ sender.pc = "test"
    /\ sender' = [sender EXCEPT !.pc = IF sender.stop THEN "ended" ELSE "wait"]
    /\ UNCHANGED <<packets, history>> /\ SenderOnly

\* A stop seen in the wait empties the queue.
SenderWait ==
    /\ sender.pc = "wait"
    /\ sender' = IF sender.stop THEN [sender EXCEPT !.pc = "ended"]
                 ELSE IF packets = <<>> THEN [sender EXCEPT !.pc = "asleep"]
                 ELSE [sender EXCEPT !.pc = "send", !.packet = Head(packets)]
    /\ packets' = <<>>
    /\ UNCHANGED history /\ SenderOnly

\* sendAudioPacket, called without the mutex; the inner loop goes on with the
\* next packet unless there is none or the thread is to stop.
SendPacket ==
    /\ sender.pc = "send"
    /\ history' = [history EXCEPT !.sent = sender.packet.no]
    /\ sender' = [sender EXCEPT !.pc = "test", !.packet = NoAudioFrame]
    /\ UNCHANGED packets /\ SenderOnly

SenderThread == SenderTest \/ SenderWait \/ SendPacket

----------------------------------------------------------------------------
AudioNext == AudioRuntime \/ CaptureThread \/ EncoderThread \/ SenderThread

AudioSpec == AudioInit /\ [][AudioNext]_audioVars

\* The operating system schedules the threads: the encoder and the sender always
\* go on, the capture thread starts, polls and leaves, and a start or a stop that
\* is under way proceeds; nobody need ask for one.
AudioFairSpec ==
    /\ AudioSpec
    /\ WF_audioVars(EncoderThread)
    /\ WF_audioVars(SenderThread)
    /\ WF_audioVars(ActivateProcess \/ ActivateDevice \/ Poll \/ ReinitializeAudioClient
               \/ ReinitRefused \/ Exit)
    /\ WF_audioVars(Started \/ JoinCapture \/ FlagEncoder \/ NotifyEncoder \/ JoinEncoder
               \/ StopQueueProcessor \/ Finish)

----------------------------------------------------------------------------
(* Packets leave in the order in which their frames were captured, across the
   ring, the encoder's drain, the queue of one and a restart (SendPacket). *)
SentInOrder == [][history'.sent # history.sent => history'.sent > history.sent]_audioVars

(* Whatever the encoder and the sender are doing, the newest frame of a running
   capture is never the one given up when the ring or the queue is full
   (PushFrameToRingBuffer, QueueAudioPacket): it is on its way or was sent. *)
InFlight == {ring[i] : i \in DOMAIN ring} \cup {packets[i] : i \in DOMAIN packets}
            \cup ({encoder.frame, sender.packet} \ {NoAudioFrame})

NewestSurvives ==
    caller.pc = "capturing" /\ newest > history.settled =>
        newest = history.sent \/ \E frame \in InFlight : frame.no = newest

(* No frame stays in the ring, and no packet in the queue, while the threads run:
   no wakeup between the capture, the encoder and the sender is missed, also when
   no further frame comes that would repair it (PushFrameToRingBuffer). *)
EveryFrameLeaves == []<>(InFlight = {} \/ caller.pc \in {"idle", "crashed"})

(* What is captured is the sound of the target process, unless the operator has
   agreed to the sound of the whole device (README.md:354). *)
ConsentKept ==
    ProcessLoopback /\ ~DeviceFallback /\ device.client = "ok" => device.source # "device"

(* A stop ends: the threads see it and are joined (StopCapture). *)
AudioStopReturns == caller.pc = "joining" ~> caller.pc = "idle" \/ capture.pc = "crashed"

(* What is sent while a capture runs was captured by it (StopCapture clears what
   is left over, AudioCapturer.cpp:426-429). *)
OldAudioStaysOut ==
    sender.pc = "send" /\ caller.pc = "capturing" => sender.packet.first = session
=============================================================================
