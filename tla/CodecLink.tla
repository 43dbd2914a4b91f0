------------------------------ MODULE CodecLink ------------------------------
(***************************************************************************)
(* The codec bridge and its reconnect barrier (pcm_stream.c,               *)
(* reconnect_barrier.h, firmware/codec/src/main.c), with the parts of the  *)
(* keeper (auto_link.c: start_connection, stop_audio, run) and of the      *)
(* controller task that meet it.                                           *)
(*                                                                         *)
(* The worker codec_spi exchanges one frame with the codec board at a      *)
(* time; the answer to a request comes with the NEXT exchange.  The keeper *)
(* parks the worker behind the barrier while the controller task empties   *)
(* the audio source, and gives every radio session an epoch of its own.    *)
(*                                                                         *)
(* An audio frame is the session its request carried; a microphone packet  *)
(* is the epoch in which the radio received it.                            *)
(***************************************************************************)
EXTENDS Integers, Sequences

CONSTANTS
  Queue,     \* ULL_AUDIO_QUEUE_FRAMES
  MicQueue,  \* slots of the microphone ring (Q, 16 in the code)
  Seqs,      \* the sequence numbers' modulus, 2^32 in the code
  MaxEpoch   \* bound: sessions ever begun

ASSUME QueueAssumption == Queue \in Nat \ {0, 1}
ASSUME MicQueueAssumption == MicQueue \in Nat \ {0}
ASSUME SeqsAssumption == Seqs \in Nat \ {0, 1}
ASSUME EpochAssumption == MaxEpoch \in Nat \ {0}

VARIABLES
  requested, acknowledged,  \* struct ull_reconnect_barrier
  keeper,                   \* where the keeper task is
  epoch,                    \* the session counter
  trial,                    \* ull_tone_trial: "idle", "active" or "ended"
  radio,                    \* the controller task: "idle" or inside a microphone append
  sourceRequested,          \* source.requested
  queue,                    \* the audio source
  ring,                     \* the microphone ring
  mic_enabled, mic_active,
  ready,                    \* the codec board has answered a handshake
  worker,                   \* local state of run()
  previous,                 \* previous_session and previous_seq, or Nothing
  codec                     \* the codec board: the reply it holds, its decoder

barrier == <<requested, acknowledged>>
vars == <<requested, acknowledged, keeper, epoch, trial, radio, sourceRequested,
          queue, ring, mic_enabled, mic_active, ready, worker, previous, codec>>

Epochs == 0..MaxEpoch
\* No request, no packet, no decoder history.
None == -1
Foreign == [session |-> None, seq |-> 0, play |-> FALSE, mic |-> None, ok |-> FALSE]
Requests == [session : Epochs \cup {None}, seq : 0..Seqs-1, play : BOOLEAN,
             mic : Epochs \cup {None}, reset : BOOLEAN]
Replies == [session : Epochs \cup {None}, seq : 0..Seqs-1, play : BOOLEAN,
            mic : Epochs \cup {None}, ok : BOOLEAN]
NoRequest == [session |-> None, seq |-> 0, play |-> FALSE, mic |-> None, reset |-> FALSE]
Nothing == <<None, 0>>

KeeperPlaces == {"setup", "linked", "streaming", "cancel", "ask", "wait", "rearm",
                 "resume", "restart"}
WorkerPlaces == {"top", "hello", "greet", "gate", "look", "ring", "mic", "exchange",
                 "accept", "push", "clear", "drop", "ack", "parked", "depart"}

TypeOK ==
  /\ requested \in BOOLEAN /\ acknowledged \in BOOLEAN
  /\ keeper \in KeeperPlaces
  /\ epoch \in Epochs
  /\ trial \in {"idle", "active", "ended"}
  /\ radio \in {"idle", "append"}
  /\ sourceRequested \in BOOLEAN
  /\ queue \in Seq(Epochs) /\ Len(queue) <= Queue
  /\ ring \in Seq(Epochs) /\ Len(ring) <= MicQueue
  /\ mic_enabled \in BOOLEAN /\ mic_active \in BOOLEAN /\ ready \in BOOLEAN
  /\ worker \in [pc : WorkerPlaces, session : Epochs, capture : BOOLEAN, left : 0..MicQueue,
                 was_capture : BOOLEAN, reset_epoch : Epochs \cup {None},
                 seq : 0..Seqs-1, tx : Requests, rx : Replies, current : Epochs]
  /\ previous \in (Epochs \cup {None}) \X (0..Seqs-1)
  /\ codec \in [reply : Replies, history : Epochs \cup {None},
                decoder : Epochs \cup {None}, mixed : BOOLEAN]

FreshWorker == [pc |-> "top", session |-> 0, capture |-> FALSE, left |-> 0, was_capture |-> FALSE,
                reset_epoch |-> None, seq |-> 0, tx |-> NoRequest, rx |-> Foreign,
                current |-> 0]
FreshCodec == [reply |-> Foreign, history |-> None, decoder |-> None, mixed |-> FALSE]

Init ==
  /\ requested = FALSE /\ acknowledged = FALSE
  /\ keeper = "setup" /\ epoch = 0 /\ trial = "idle" /\ radio = "idle"
  /\ sourceRequested = FALSE /\ queue = <<>> /\ ring = <<>>
  /\ mic_enabled = TRUE /\ mic_active = FALSE /\ ready = FALSE
  /\ worker = FreshWorker /\ previous = Nothing /\ codec = FreshCodec

-------------------------------------------------------------------------------
(***************************************************************************)
(* The keeper: start_connection, the start of a stream, stop_audio.        *)
(***************************************************************************)
workerSide == <<mic_active, ready, worker, previous, codec, ring, mic_enabled>>

\* ull_mic_stream_new_session; the setup that follows may fail and come again.
StartConnection ==
  /\ keeper = "setup" /\ epoch < MaxEpoch
  /\ epoch' = epoch + 1
  /\ keeper' \in {"setup", "linked"}
  /\ UNCHANGED <<barrier, trial, radio, sourceRequested, queue, workerSide>>

\* The link is lost before a stream was attempted: stop_audio returns at once.
LostEarly ==
  /\ keeper = "linked"
  /\ keeper' = "setup"
  /\ UNCHANGED <<barrier, epoch, trial, radio, sourceRequested, queue, workerSide>>

\* audio_startup: ull_pcm_stream_source, and the controller starts the trial.
StartStream ==
  /\ keeper = "linked" /\ ready
  /\ trial = "idle" /\ trial' = "active"
  /\ keeper' = "streaming"
  /\ UNCHANGED <<barrier, epoch, radio, sourceRequested, queue, workerSide>>

\* audio_live fails, or the link is lost.
LeaveStream ==
  /\ keeper = "streaming"
  /\ keeper' = "cancel"
  /\ UNCHANGED <<barrier, epoch, trial, radio, sourceRequested, queue, workerSide>>

\* The cancel commands of stop_audio, in the controller task.
CancelTrial ==
  /\ keeper = "cancel" /\ radio = "idle" /\ trial = "active"
  /\ trial' = "ended"
  /\ UNCHANGED <<barrier, keeper, epoch, radio, sourceRequested, queue, workerSide>>

\* A bug that does not wait for the radio event to be collected.
CancelSent(phase) == TRUE
\* The trial is over and the pump is quiet, so the controller task does nothing.
Collected(phase) == phase = "ended"

SawEnded ==
  /\ keeper = "cancel" /\ Collected(trial)
  /\ keeper' = "ask"
  /\ UNCHANGED <<barrier, epoch, trial, radio, sourceRequested, queue, workerSide>>

\* The cancel loop runs out of time.
CancelTimesOut ==
  /\ keeper = "cancel"
  /\ keeper' = "restart"
  /\ UNCHANGED <<barrier, epoch, trial, radio, sourceRequested, queue, workerSide>>

\* A bug that overlooks an acknowledgment not yet retired.
MayAskTooSoon(ack, req) == ~req
MayAsk(ack, req) == ~ack /\ ~req

\* ull_pcm_stream_pause_for_reconnect.
Ask ==
  /\ keeper = "ask"
  /\ IF MayAsk(acknowledged, requested)
     THEN requested' = TRUE /\ keeper' = "wait"
     ELSE requested' = requested /\ keeper' = "restart"
  /\ UNCHANGED <<acknowledged, epoch, trial, radio, sourceRequested, queue, workerSide>>

paused == requested /\ acknowledged

SawPaused ==
  /\ keeper = "wait" /\ paused
  /\ keeper' = "rearm"
  /\ UNCHANGED <<barrier, epoch, trial, radio, sourceRequested, queue, workerSide>>

\* Half a second is over.
PauseTimesOut ==
  /\ keeper = "wait" /\ ~paused
  /\ keeper' = "restart"
  /\ UNCHANGED <<barrier, epoch, trial, radio, sourceRequested, queue, workerSide>>

\* 0xfcff: ull_tone_trial_rearm and ull_audio_source_rearm.
Rearm ==
  /\ keeper = "rearm"
  /\ IF paused /\ trial = "ended"
     THEN /\ trial' = "idle" /\ queue' = <<>> /\ sourceRequested' = FALSE
          /\ keeper' = "resume"
     ELSE /\ UNCHANGED <<trial, queue, sourceRequested>>
          /\ keeper' = "restart"
  /\ UNCHANGED <<barrier, epoch, radio, workerSide>>

Resume ==
  /\ keeper = "resume"
  /\ requested' = FALSE
  /\ keeper' = "setup"
  /\ UNCHANGED <<acknowledged, epoch, trial, radio, sourceRequested, queue, workerSide>>

\* esp_restart.  The new random session base makes every answer the codec still
\* holds, and its decoder's session, foreign.
Restart ==
  /\ keeper = "restart"
  /\ requested' = FALSE /\ acknowledged' = FALSE
  /\ keeper' = "setup" /\ epoch' = 0 /\ trial' = "idle" /\ radio' = "idle"
  /\ sourceRequested' = FALSE /\ queue' = <<>> /\ ring' = <<>>
  /\ mic_enabled' = TRUE /\ mic_active' = FALSE /\ ready' = FALSE
  /\ worker' = FreshWorker /\ previous' = Nothing
  /\ codec' = [FreshCodec EXCEPT !.mixed = codec.mixed,
                                 !.history = IF codec.history = None THEN None ELSE 0]

-------------------------------------------------------------------------------
(***************************************************************************)
(* The controller task while the trial is active.                          *)
(***************************************************************************)
keeperSide == <<keeper, epoch, trial, requested, acknowledged, mic_enabled>>

\* ull_audio_source_select.
Select ==
  /\ trial = "active" /\ radio = "idle"
  /\ sourceRequested' = TRUE
  /\ queue' = IF queue = <<>> THEN queue ELSE Tail(queue)
  /\ UNCHANGED <<keeperSide, radio, ring, mic_active, ready, worker, previous, codec>>

\* ull_air_microphone_frame: the check, then the append.
Microphone ==
  /\ trial = "active" /\ radio = "idle" /\ mic_active
  /\ radio' = "append"
  /\ UNCHANGED <<keeperSide, sourceRequested, queue, ring, mic_active, ready, worker,
                 previous, codec>>

HasSpace == Len(ring) < MicQueue

MicrophoneAppend ==
  /\ radio = "append"
  /\ radio' = "idle"
  /\ ring' = IF HasSpace THEN Append(ring, epoch) ELSE ring
  /\ UNCHANGED <<keeperSide, sourceRequested, queue, mic_active, ready, worker,
                 previous, codec>>

\* The console's mic0 and mic1.
ToggleMicrophone ==
  /\ mic_enabled' = ~mic_enabled
  /\ UNCHANGED <<barrier, keeper, epoch, trial, radio, sourceRequested, queue, ring,
                 mic_active, ready, worker, previous, codec>>

-------------------------------------------------------------------------------
(***************************************************************************)
(* The codec board: what process() makes of a request, and the reply it    *)
(* keeps for the next exchange.  Encoding and decoding may fail.  history  *)
(* is the session whose packets the decoder has in its memory, decoder is  *)
(* decoder_session; mixed records a packet decoded upon another session's  *)
(* history.  The duplicate path is left out: run() numbers every request   *)
(* anew.                                                                   *)
(***************************************************************************)
\* A bug that resets the decoder only when asked to.
ResetsWhenAsked(request) == request.reset
\* decode_reset.
Resets(request) ==
  request.reset \/ (request.mic # None /\ codec.decoder # request.session)

Replying(request, plays, decodes, status) ==
  [session |-> request.session, seq |-> request.seq, play |-> plays,
   mic |-> IF decodes THEN request.mic ELSE None, ok |-> status]

\* encodes, decodes: the two workers' results.  A reset of the decoder may fail
\* before the packet is touched.
Process(request, encodes, decodes) ==
  LET history == IF Resets(request) THEN None ELSE codec.history
      touched == request.mic # None
  IN codec' =
       [reply   |-> Replying(request, request.play /\ encodes, decodes,
                             (request.play => encodes) /\ (touched \/ request.reset => decodes)),
        history |-> IF touched THEN request.mic ELSE history,
        decoder |-> IF Resets(request) /\ decodes THEN request.session ELSE codec.decoder,
        mixed   |-> codec.mixed \/ (touched /\ history \notin {None, request.mic})]

\* Its answer to a request that was damaged on the wire.
ProcessDamaged == codec' = [codec EXCEPT !.reply = Foreign]

CodecReboots ==
  /\ codec' = [FreshCodec EXCEPT !.mixed = codec.mixed]
  /\ UNCHANGED <<keeperSide, radio, sourceRequested, queue, ring, mic_active, ready,
                 worker, previous>>

-------------------------------------------------------------------------------
(***************************************************************************)
(* The worker: run(), exchange() and accept_response().                    *)
(***************************************************************************)
otherTasks == <<keeper, epoch, trial, radio, sourceRequested, mic_enabled, requested>>

At(place) == worker.pc = place
Go(place) == worker' = [worker EXCEPT !.pc = place]

\* A bug that looks at the barrier only once the codec is there.
ParksWhenReady == requested /\ ready
Parks == requested

Top ==
  /\ At("top")
  /\ worker' = IF Parks THEN [worker EXCEPT !.pc = "clear"]
               ELSE [worker EXCEPT !.pc = IF ready THEN "gate" ELSE "hello",
                                   !.session = epoch]
  /\ UNCHANGED <<otherTasks, acknowledged, queue, ring, mic_active, ready, previous, codec>>

Clear ==
  /\ At("clear")
  /\ mic_active' = FALSE /\ previous' = Nothing
  /\ worker' = [worker EXCEPT !.pc = "drop", !.was_capture = FALSE]
  /\ UNCHANGED <<otherTasks, acknowledged, queue, ring, ready, codec>>

DropRing ==
  /\ At("drop")
  /\ ring' = <<>>
  /\ Go("ack")
  /\ UNCHANGED <<otherTasks, acknowledged, queue, mic_active, ready, previous, codec>>

Acknowledge ==
  /\ At("ack")
  /\ acknowledged' = TRUE
  /\ Go("parked")
  /\ UNCHANGED <<otherTasks, queue, ring, mic_active, ready, previous, codec>>

Unpark ==
  /\ At("parked") /\ ~requested
  /\ Go("depart")
  /\ UNCHANGED <<otherTasks, acknowledged, queue, ring, mic_active, ready, previous, codec>>

Retired == FALSE

Depart ==
  /\ At("depart")
  /\ acknowledged' = Retired
  /\ Go("top")
  /\ UNCHANGED <<otherTasks, queue, ring, mic_active, ready, previous, codec>>

\* The handshake, an empty request: it fails (whether or not the codec has seen
\* the request), or it brings the answer to the request before.
Hello ==
  /\ At("hello")
  /\ LET next == (worker.seq + 1) % Seqs
         tx == [NoRequest EXCEPT !.session = worker.session, !.seq = next]
     IN \/ /\ worker' = [worker EXCEPT !.pc = "top", !.seq = next]
           /\ codec' = codec \/ Process(tx, TRUE, TRUE)
        \/ /\ worker' = [worker EXCEPT !.pc = "greet", !.seq = next, !.tx = tx,
                                       !.rx = codec.reply]
           /\ Process(tx, TRUE, TRUE) \/ ProcessDamaged
  /\ UNCHANGED <<otherTasks, acknowledged, queue, ring, mic_active, ready, previous>>

\* A bug that takes the answer of an older session too.
AnyEpoch(current) == TRUE
SameEpoch(current) == previous[1] = current

Accepted(current) ==
  /\ previous # Nothing
  /\ <<worker.rx.session, worker.rx.seq>> = previous
  /\ SameEpoch(current)

\* The audio source takes a frame, or it is full and the frame is dropped.
Pushed(rx) == IF rx.play /\ Len(queue) < Queue THEN Append(queue, rx.session) ELSE queue

Done(place) == [worker EXCEPT !.pc = place, !.tx = NoRequest, !.rx = Foreign, !.current = 0]

Greet ==
  /\ At("greet")
  /\ queue' = IF Accepted(worker.session) THEN Pushed(worker.rx) ELSE queue
  /\ ready' = (Accepted(worker.session) /\ worker.rx.ok)
  /\ previous' = <<worker.tx.session, worker.tx.seq>>
  /\ worker' = Done("top")
  /\ UNCHANGED <<otherTasks, acknowledged, ring, mic_active, codec>>

\* The radio has not asked for audio in this session.
Gate ==
  /\ At("gate")
  /\ IF sourceRequested
     THEN Go("look") /\ mic_active' = mic_active
     ELSE /\ mic_active' = FALSE
          /\ worker' = [worker EXCEPT !.pc = "top", !.was_capture = FALSE]
  /\ UNCHANGED <<otherTasks, acknowledged, queue, ring, ready, previous, codec>>

\* A bug that forgets the frame that is still on its way.
FullCredit == Len(queue) < Queue
Credit == Len(queue) < Queue - 1

\* Playback may have too little buffered; the microphone alone keeps the link
\* going, but not all the time.
Look ==
  /\ At("look")
  /\ mic_active' = mic_enabled
  /\ \E play \in BOOLEAN :
       /\ play => Credit
       /\ \/ /\ ~play /\ Go("top")
          \/ /\ play \/ mic_enabled
             /\ LET reset == mic_enabled /\ (\/ ~worker.was_capture
                                            \/ worker.reset_epoch # worker.session)
                    next == (worker.seq + 1) % Seqs
                IN worker' =
                     [worker EXCEPT
                        !.pc = "ring", !.capture = mic_enabled,
                        !.was_capture = mic_enabled, !.seq = next,
                        !.reset_epoch = IF reset THEN worker.session ELSE @,
                        !.tx = [session |-> worker.session, seq |-> next, play |-> play,
                                mic |-> None, reset |-> reset]]
  /\ UNCHANGED <<otherTasks, acknowledged, queue, ring, ready, previous, codec>>

\* The packets that are there now; later ones wait for the next exchange.
CountRing ==
  /\ At("ring")
  /\ worker' = [worker EXCEPT !.pc = "mic", !.left = Len(ring)]
  /\ UNCHANGED <<otherTasks, acknowledged, queue, ring, mic_active, ready, previous, codec>>

ThisSession(packet) == packet = worker.session

\* One packet of the ring: sent, or dropped (another session's, too old, or
\* received before).
TakePacket ==
  /\ At("mic") /\ worker.capture /\ worker.left > 0
  /\ ring' = Tail(ring)
  /\ \/ worker' = [worker EXCEPT !.left = @ - 1]
     \/ /\ ThisSession(Head(ring))
        /\ worker' = [worker EXCEPT !.pc = "exchange", !.left = 0, !.tx.mic = Head(ring)]
  /\ UNCHANGED <<otherTasks, acknowledged, queue, mic_active, ready, previous, codec>>

NoPacket ==
  /\ At("mic") /\ (worker.capture => worker.left = 0)
  /\ ring' = SubSeq(ring, worker.left + 1, Len(ring))
  /\ worker' = [worker EXCEPT !.pc = "exchange", !.left = 0, !.capture = FALSE]
  /\ UNCHANGED <<otherTasks, acknowledged, queue, mic_active, ready, previous, codec>>

Exchange ==
  /\ At("exchange")
  /\ worker' = [worker EXCEPT !.pc = "accept", !.rx = codec.reply, !.capture = FALSE]
  /\ \/ \E encodes, decodes \in BOOLEAN : Process(worker.tx, encodes, decodes)
     \/ ProcessDamaged
  /\ UNCHANGED <<otherTasks, acknowledged, queue, ring, mic_active, ready, previous>>

\* READY never rises, or the transfer fails on this side only.
ExchangeFails ==
  /\ At("exchange")
  /\ ready' = FALSE /\ mic_active' = FALSE /\ previous' = Nothing
  /\ worker' = [Done("top") EXCEPT !.was_capture = FALSE, !.capture = FALSE]
  /\ codec' = codec \/ \E encodes, decodes \in BOOLEAN : Process(worker.tx, encodes, decodes)
  /\ UNCHANGED <<otherTasks, acknowledged, queue, ring>>

\* accept_response reads the epoch of now.
Accept ==
  /\ At("accept")
  /\ worker' = [worker EXCEPT !.pc = "push", !.current = epoch]
  /\ UNCHANGED <<otherTasks, acknowledged, queue, ring, mic_active, ready, previous, codec>>

Push ==
  /\ At("push")
  /\ queue' = IF Accepted(worker.current) THEN Pushed(worker.rx) ELSE queue
  /\ previous' = <<worker.tx.session, worker.tx.seq>>
  /\ worker' = Done("top")
  /\ UNCHANGED <<otherTasks, acknowledged, ring, mic_active, ready, codec>>

-------------------------------------------------------------------------------
Keeper ==
  \/ StartConnection \/ LostEarly \/ StartStream \/ LeaveStream \/ CancelTrial
  \/ SawEnded \/ CancelTimesOut \/ Ask \/ SawPaused \/ PauseTimesOut \/ Rearm
  \/ Resume \/ Restart

Worker ==
  \/ Top \/ Clear \/ DropRing \/ Acknowledge \/ Unpark \/ Depart \/ Hello \/ Greet
  \/ Gate \/ Look \/ CountRing \/ TakePacket \/ NoPacket \/ Exchange \/ ExchangeFails \/ Accept
  \/ Push

Environment == Select \/ Microphone \/ MicrophoneAppend \/ ToggleMicrophone \/ CodecReboots

Next == Keeper \/ Worker \/ Environment

Spec == Init /\ [][Next]_vars

\* The worker task runs, and every exchange ends: exchange() waits at most 120 ms.
FairSpec == Spec /\ WF_vars(Worker)

-------------------------------------------------------------------------------
\* When the keeper sees the worker paused, the worker is in its waiting loop and
\* nothing of the old session is left in its hands.  This is the comment of
\* reconnect_barrier.h: acknowledgment comes only after the worker's final write.
PausedMeansParked ==
  paused => At("parked") /\ previous = Nothing /\ ring = <<>> /\ ~mic_active /\ radio = "idle"

\* No audio frame and no microphone packet crosses from one radio session into
\* another: what waits in the audio source was requested in the present session,
\* and what goes to USB was received in it.
NothingOld ==
  /\ \A i \in DOMAIN queue : queue[i] = epoch
  /\ At("push") /\ Accepted(worker.current) /\ worker.rx.mic # None
       => worker.rx.mic = epoch

\* The codec's answer always finds room in the audio source, although it comes an
\* exchange after the credit was looked at; playback_queue_drops stays 0.
NoQueueDrop ==
  /\ TypeOK
  /\ worker.pc \in {"greet", "push"} /\ worker.rx.play /\ Accepted(worker.rx.session)
       => Len(queue) < Queue

\* The decoder never decodes a packet upon the history of another session.
DecoderFresh == ~codec.mixed

\* Liveness.  The worker answers the keeper's request to pause, even while the
\* codec does not answer.
PauseAnswered == keeper = "wait" ~> (paused \/ keeper # "wait")
==============================================================================
