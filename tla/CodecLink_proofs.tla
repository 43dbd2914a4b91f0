--------------------------- MODULE CodecLink_proofs ---------------------------
(***************************************************************************)
(* Proofs about CodecLink, for every size of its queues and number of      *)
(* sessions.  First the two flags of the reconnect barrier, each written   *)
(* by one task: they are enough for the keeper to know the worker parked.  *)
(* Then what the audio source, the answers on their way and the decoder    *)
(* hold, which rests on the barrier: nothing of one session in another,    *)
(* and room for every answer.                                              *)
(***************************************************************************)
EXTENDS CodecLink, TLAPS

\* From the moment the worker saw the request until it acknowledges.
Parking == {"clear", "drop", "ack"}

\* The worker's flag says where the worker is; the keeper's flag is up while the
\* worker is on its way to the barrier, and down when it leaves it.
BarrierInv ==
    /\ "pc" \in DOMAIN worker
    /\ acknowledged <=> worker.pc \in {"parked", "depart"}
    /\ worker.pc \in Parking => requested
    /\ worker.pc = "depart" => ~requested

\* The keeper asks only after the radio trial is over, and goes on to empty the
\* audio source only behind the barrier.
KeeperInv ==
    /\ requested => keeper \in {"wait", "rearm", "resume", "restart"}
    /\ keeper \in {"rearm", "resume"} => paused
    /\ requested \/ keeper = "ask" => trial # "active"
    /\ radio \in {"idle", "append"}
    /\ radio = "append" => trial = "active"

\* What the worker has given up on its way.
EmptyHands ==
    /\ worker.pc \in {"drop", "ack", "parked"} => previous = Nothing /\ ~mic_active
    /\ worker.pc \in {"ack", "parked"} /\ requested => ring = <<>>

ParkInv == BarrierInv /\ KeeperInv /\ EmptyHands

-------------------------------------------------------------------------------
\* Everywhere else in its loop the worker does not touch the barrier.
LEMMA WorkerElsewhere ==
  ASSUME ParkInv, UNCHANGED <<otherTasks, acknowledged>>,
         worker.pc \notin {"parked", "depart"}, "pc" \in DOMAIN worker',
         worker'.pc \notin Parking \cup {"parked", "depart"}
  PROVE  ParkInv'
BY DEF ParkInv, BarrierInv, KeeperInv, EmptyHands, Parking, otherTasks, paused

\* auto_link.c: the keeper raises its flag when the radio is done and both flags
\* are down, and lowers it last (pause_for_reconnect, resume_after_reconnect).
LEMMA KeeperSteps ==
  ASSUME ParkInv, Keeper
  PROVE  ParkInv'
<1> USE DEF ParkInv, BarrierInv, KeeperInv, EmptyHands, Parking, paused, barrier, workerSide
<1>1. CASE StartConnection
  BY <1>1 DEF StartConnection
<1>2. CASE LostEarly
  BY <1>2 DEF LostEarly
<1>3. CASE StartStream
  BY <1>3 DEF StartStream
<1>4. CASE LeaveStream
  BY <1>4 DEF LeaveStream
<1>5. CASE CancelTrial
  BY <1>5 DEF CancelTrial
<1>6. CASE SawEnded
  BY <1>6 DEF SawEnded, Collected
<1>7. CASE CancelTimesOut
  BY <1>7 DEF CancelTimesOut
<1>8. CASE Ask
  BY <1>8 DEF Ask, MayAsk
<1>9. CASE SawPaused
  BY <1>9 DEF SawPaused
<1>10. CASE PauseTimesOut
  BY <1>10 DEF PauseTimesOut
<1>11. CASE Rearm
  BY <1>11 DEF Rearm
<1>12. CASE Resume
  BY <1>12 DEF Resume
<1>13. CASE Restart
  BY <1>13 DEF Restart, FreshWorker
<1> QED BY <1>1, <1>2, <1>3, <1>4, <1>5, <1>6, <1>7, <1>8, <1>9, <1>10, <1>11, <1>12, <1>13 DEF Keeper

\* reconnect_barrier.h: acknowledgment comes after the worker's last write, and
\* is withdrawn before its first.
LEMMA BarrierSteps ==
  ASSUME ParkInv, Clear \/ DropRing \/ Acknowledge \/ Unpark \/ Depart \/ (Top /\ requested)
  PROVE  ParkInv'
<1> USE DEF ParkInv, BarrierInv, KeeperInv, EmptyHands, Parking, paused, otherTasks, At, Go
<1>1. CASE Clear
  BY <1>1 DEF Clear
<1>2. CASE DropRing
  BY <1>2 DEF DropRing
<1>3. CASE Acknowledge
  BY <1>3 DEF Acknowledge
<1>4. CASE Unpark
  BY <1>4 DEF Unpark
<1>5. CASE Depart
  BY <1>5 DEF Depart, Retired
<1>6. CASE Top /\ requested
  BY <1>6 DEF Top, Parks
<1> QED BY <1>1, <1>2, <1>3, <1>4, <1>5, <1>6

\* run, exchange and accept_response.
LEMMA LoopSteps ==
  ASSUME ParkInv,
         \/ Top /\ ~requested
         \/ Hello \/ Greet \/ Gate \/ Look \/ CountRing \/ TakePacket \/ NoPacket
         \/ Exchange \/ ExchangeFails \/ Accept \/ Push
  PROVE  ParkInv'
<1> USE DEF At, Go, Done, Parking
<1>0. "pc" \in DOMAIN worker
  BY DEF ParkInv, BarrierInv
<1>1. CASE Top /\ ~requested
  BY <1>0, <1>1, WorkerElsewhere DEF Top, Parks
<1>2. CASE Hello
  BY <1>0, <1>2, WorkerElsewhere DEF Hello
<1>3. CASE Greet
  BY <1>0, <1>3, WorkerElsewhere DEF Greet
<1>4. CASE Gate
  BY <1>0, <1>4, WorkerElsewhere DEF Gate
<1>5. CASE Look
  BY <1>0, <1>5, WorkerElsewhere DEF Look
<1>6. CASE CountRing
  BY <1>0, <1>6, WorkerElsewhere DEF CountRing
<1>7. CASE TakePacket
  BY <1>0, <1>7, WorkerElsewhere DEF TakePacket
<1>8. CASE NoPacket
  BY <1>0, <1>8, WorkerElsewhere DEF NoPacket
<1>9. CASE Exchange
  BY <1>0, <1>9, WorkerElsewhere DEF Exchange
<1>10. CASE ExchangeFails
  BY <1>0, <1>10, WorkerElsewhere DEF ExchangeFails
<1>11. CASE Accept
  BY <1>0, <1>11, WorkerElsewhere DEF Accept
<1>12. CASE Push
  BY <1>0, <1>12, WorkerElsewhere DEF Push
<1> QED BY <1>1, <1>2, <1>3, <1>4, <1>5, <1>6, <1>7, <1>8, <1>9, <1>10, <1>11, <1>12

\* The controller task fills the microphone ring only while the trial is active.
LEMMA EnvironmentSteps ==
  ASSUME ParkInv, Environment
  PROVE  ParkInv'
<1> USE DEF ParkInv, BarrierInv, KeeperInv, EmptyHands, Parking, paused, barrier, keeperSide
<1>1. CASE Select
  BY <1>1 DEF Select
<1>2. CASE Microphone
  BY <1>2 DEF Microphone
<1>3. CASE MicrophoneAppend
  BY <1>3 DEF MicrophoneAppend
<1>4. CASE ToggleMicrophone
  BY <1>4 DEF ToggleMicrophone
<1>5. CASE CodecReboots
  BY <1>5 DEF CodecReboots
<1> QED BY <1>1, <1>2, <1>3, <1>4, <1>5 DEF Environment

\* reconnect_barrier.h, pcm_stream.c: when the keeper sees both flags up, the
\* worker waits at the barrier and neither it nor the radio holds anything of the
\* session that ended.
THEOREM PausedIsParked == Spec => []PausedMeansParked
<1>1. Init => ParkInv
  BY DEF Init, FreshWorker, ParkInv, BarrierInv, KeeperInv, EmptyHands, Parking, paused
<1>2. ParkInv /\ [Next]_vars => ParkInv'
  <2> SUFFICES ASSUME ParkInv, [Next]_vars PROVE ParkInv'
    OBVIOUS
  <2>1. CASE UNCHANGED vars
    BY <2>1 DEF vars, ParkInv, BarrierInv, KeeperInv, EmptyHands, Parking, paused
  <2>2. CASE Next
    BY <2>2, KeeperSteps, BarrierSteps, LoopSteps, EnvironmentSteps DEF Next, Worker
  <2> QED BY <2>1, <2>2
<1>3. ParkInv => PausedMeansParked
  BY DEF ParkInv, BarrierInv, KeeperInv, EmptyHands, PausedMeansParked, paused, At
<1> QED BY <1>1, <1>2, <1>3, PTL DEF Spec
-------------------------------------------------------------------------------
(***************************************************************************)
(* What the queue, the answers and the decoder hold, session by session.   *)
(***************************************************************************)
\* Where the worker exchanges frames of a stream, and where it holds a request.
Streaming == {"look", "ring", "mic", "exchange", "accept", "push"}
Requesting == {"ring", "mic", "exchange", "accept", "push"}

\* The packets that the worker still counts are there: only it takes any.
TypeInv == TypeOK /\ (worker.pc = "mic" => worker.left <= Len(ring))

\* No stream runs while the keeper sets up a connection, whatever the worker saw
\* before; a worker that greets has not found the codec, one in the stream has.
PhaseInv ==
    /\ worker.pc \in {"hello", "greet"} => ~ready
    /\ worker.pc \in Streaming \cup {"gate"} => ready
    /\ trial = "active" => keeper \in {"streaming", "cancel", "restart"}
    /\ keeper \in {"setup", "linked", "resume"} =>
           worker.pc \notin Streaming /\ ~sourceRequested /\ queue = <<>>

\* Requests and answers belong to one session, the worker's at that time; the
\* epoch that accept_response has read does not grow old before it is used.
SessionInv ==
    /\ worker.session <= epoch
    /\ worker.pc \in Requesting \cup {"greet"} =>
           worker.tx.session = worker.session /\ worker.tx.mic \in {None, worker.session}
    /\ codec.reply.mic \in {None, codec.reply.session}
    /\ worker.rx.mic \in {None, worker.rx.session}
    /\ worker.pc = "push" => worker.current = epoch
    /\ \A i \in DOMAIN queue : queue[i] = epoch

\* Room for what is on its way: the request that holds a credit, the answer that
\* the codec keeps, and the answer in the worker's hands.  Only an answer that
\* can be accepted counts: previous is Nothing after a failure.
CreditInv ==
    /\ worker.pc \in Requesting /\ worker.tx.play => Len(queue) + 2 <= Queue
    /\ worker.pc \in {"accept", "push"} =>
           /\ codec.reply.play => worker.tx.play
           /\ worker.rx.play /\ previous # Nothing => Len(queue) + 1 <= Queue
    /\ worker.pc \notin {"accept", "push"} /\ codec.reply.play /\ previous # Nothing =>
           Len(queue) + 1 <= Queue
    /\ worker.pc = "greet" =>
           ~codec.reply.play /\ (previous # Nothing => ~worker.rx.play)
    /\ ~ready /\ worker.pc # "greet" /\ previous # Nothing => ~codec.reply.play

\* The decoder's memory is never of a session before the one it was reset for,
\* nor of one after the worker's.
DecoderInv ==
    /\ codec.history <= worker.session /\ codec.decoder <= worker.session
    /\ codec.history = None \/ codec.decoder <= codec.history
    /\ ~codec.mixed

LinkInv == TypeInv /\ ParkInv /\ PhaseInv /\ SessionInv /\ CreditInv /\ DecoderInv

WorkerType == [pc : WorkerPlaces, session : Epochs, capture : BOOLEAN, left : 0..MicQueue,
               was_capture : BOOLEAN, reset_epoch : Epochs \cup {None},
               seq : 0..Seqs-1, tx : Requests, rx : Replies, current : Epochs]
CodecType == [reply : Replies, history : Epochs \cup {None},
              decoder : Epochs \cup {None}, mixed : BOOLEAN]

LEMMA Sizes ==
  Queue \in Nat \ {0, 1} /\ MicQueue \in Nat \ {0} /\ Seqs \in Nat \ {0, 1} /\ MaxEpoch \in Nat \ {0}
BY QueueAssumption, MicQueueAssumption, SeqsAssumption, EpochAssumption

\* What is left of a queue from some place on.
LEMMA RestOf ==
  ASSUME NEW S, NEW q \in Seq(S), NEW n \in Nat
  PROVE  LET rest == SubSeq(q, n + 1, Len(q))
         IN  rest \in Seq(S) /\ Len(rest) \in Nat /\ Len(rest) <= Len(q)
OBVIOUS

LEMMA EmptyTypes ==
  /\ NoRequest \in Requests /\ Foreign \in Replies /\ FreshWorker \in WorkerType
  /\ FreshCodec \in CodecType /\ Nothing \in (Epochs \cup {None}) \X (0..Seqs-1)
  /\ 0 \in Epochs
<1>1. /\ 0 \in Epochs /\ 0 \in 0..Seqs-1 /\ 0 \in 0..MicQueue
  BY Sizes DEF Epochs
<1>2. NoRequest \in Requests
  BY <1>1 DEF NoRequest, Requests
<1>3. Foreign \in Replies
  BY <1>1 DEF Foreign, Replies
<1>4. FreshWorker \in WorkerType
  BY <1>1, <1>2, <1>3 DEF FreshWorker, WorkerType, WorkerPlaces
<1>5. FreshCodec \in CodecType
  BY <1>3 DEF FreshCodec, CodecType
<1> QED BY <1>1, <1>2, <1>3, <1>4, <1>5 DEF Nothing

LEMMA NextSeq ==
  ASSUME NEW n \in 0..Seqs-1
  PROVE  (n + 1) % Seqs \in 0..Seqs-1
BY Sizes

\* The codec's answer is to the request, with its packet or none, and it is
\* damaged or of the right type.
LEMMA Processed ==
  ASSUME codec \in CodecType, NEW request \in Requests, NEW encodes \in BOOLEAN, NEW decodes \in BOOLEAN,
         Process(request, encodes, decodes)
  PROVE  /\ codec' \in CodecType
         /\ codec'.reply.session = request.session /\ codec'.reply.seq = request.seq
         /\ codec'.reply.play => request.play
         /\ codec'.reply.mic \in {None, request.mic}
<1> DEFINE status == (request.play => encodes) /\ (request.mic # None \/ request.reset => decodes)
           plays == request.play /\ encodes
           history == IF Resets(request) THEN None ELSE codec.history
           heard == IF request.mic # None THEN request.mic ELSE history
           decoder == IF Resets(request) /\ decodes THEN request.session ELSE codec.decoder
           mixed == codec.mixed \/ (request.mic # None /\ history \notin {None, request.mic})
<1>1. codec' = [reply |-> Replying(request, plays, decodes, status), history |-> heard,
                decoder |-> decoder, mixed |-> mixed]
  BY DEF Process
<1>2. status \in BOOLEAN /\ plays \in BOOLEAN /\ mixed \in BOOLEAN
  BY DEF Requests, CodecType
<1>3. heard \in Epochs \cup {None} /\ decoder \in Epochs \cup {None}
  BY DEF Requests, CodecType
<1>4. plays => request.play
  OBVIOUS
<1> HIDE DEF status, plays, heard, decoder, mixed
<1>5. Replying(request, plays, decodes, status) \in Replies
  BY <1>2 DEF Replying, Requests, Replies
<1>6. codec' \in CodecType
  BY <1>1, <1>2, <1>3, <1>5 DEF CodecType
<1>7. codec'.reply = Replying(request, plays, decodes, status)
  BY <1>1
<1> QED BY <1>4, <1>6, <1>7 DEF Replying

LEMMA Damaged ==
  ASSUME codec \in CodecType, ProcessDamaged
  PROVE  /\ codec' \in CodecType /\ codec'.reply = Foreign /\ codec'.history = codec.history
         /\ codec'.decoder = codec.decoder /\ codec'.mixed = codec.mixed
BY EmptyTypes DEF CodecType, ProcessDamaged

\* The worker's own steps leave the other tasks' variables as they are.
LEMMA WorkerTyped ==
  ASSUME TypeOK, UNCHANGED otherTasks, acknowledged' \in BOOLEAN,
         queue' \in Seq(Epochs), Len(queue') <= Queue, ring' \in Seq(Epochs), Len(ring') <= MicQueue,
         mic_active' \in BOOLEAN, ready' \in BOOLEAN, worker' \in WorkerType, codec' \in CodecType,
         previous' \in (Epochs \cup {None}) \X (0..Seqs-1),
         worker'.pc = "mic" => worker'.left <= Len(ring')
  PROVE  TypeInv'
BY DEF TypeInv, TypeOK, otherTasks, WorkerType, CodecType

LEMMA Typed ==
  ASSUME TypeOK
  PROVE  /\ worker \in WorkerType /\ codec \in CodecType
         /\ queue \in Seq(Epochs) /\ Len(queue) <= Queue /\ ring \in Seq(Epochs) /\ Len(ring) <= MicQueue
         /\ mic_active \in BOOLEAN /\ ready \in BOOLEAN /\ acknowledged \in BOOLEAN
         /\ requested \in BOOLEAN /\ mic_enabled \in BOOLEAN /\ sourceRequested \in BOOLEAN
         /\ previous \in (Epochs \cup {None}) \X (0..Seqs-1) /\ epoch \in Epochs
BY DEF TypeOK, WorkerType, CodecType

LEMMA KeeperTyped ==
  ASSUME TypeInv, Keeper
  PROVE  TypeInv'
<1> USE DEF TypeInv, barrier, workerSide, KeeperPlaces
<1>1. CASE StartConnection
  BY <1>1, Sizes DEF StartConnection, TypeOK, Epochs
<1>2. CASE Restart
  <2>1. requested' \in BOOLEAN /\ acknowledged' \in BOOLEAN /\ epoch' \in Epochs
    BY <1>2, EmptyTypes DEF Restart
  <2>2. queue' \in Seq(Epochs) /\ Len(queue') <= Queue /\ ring' \in Seq(Epochs) /\ Len(ring') <= MicQueue
    BY <1>2, Sizes DEF Restart
  <2>3. worker' \in WorkerType /\ worker'.pc # "mic"
    BY <1>2, EmptyTypes DEF Restart, FreshWorker
  <2>4. codec' \in CodecType
    <3>1. codec \in CodecType /\ FreshCodec \in CodecType /\ 0 \in Epochs
      BY EmptyTypes DEF TypeOK, CodecType
    <3> QED BY <1>2, <3>1 DEF Restart, CodecType
  <2>5. previous' \in (Epochs \cup {None}) \X (0..Seqs-1)
    BY <1>2, EmptyTypes DEF Restart
  <2> QED BY <1>2, <2>1, <2>2, <2>3, <2>4, <2>5 DEF Restart, TypeOK, WorkerType, CodecType
<1>3. CASE Rearm
  <2>1. queue' \in Seq(Epochs) /\ Len(queue') <= Queue /\ sourceRequested' \in BOOLEAN
    <3>1. <<>> \in Seq(Epochs) /\ Len(<<>>) <= Queue
      BY Sizes
    <3> QED BY <1>3, <3>1, Typed DEF Rearm
  <2> QED BY <1>3, <2>1 DEF Rearm, TypeOK
<1>4. CASE LostEarly \/ StartStream \/ LeaveStream \/ CancelTrial \/ SawEnded \/ CancelTimesOut
  BY <1>4 DEF LostEarly, StartStream, LeaveStream, CancelTrial, SawEnded, CancelTimesOut, TypeOK
<1>5. CASE SawPaused \/ PauseTimesOut \/ Resume
  <2>1. requested' \in BOOLEAN /\ keeper' \in KeeperPlaces
    BY <1>5, Typed DEF SawPaused, PauseTimesOut, Resume
  <2> QED BY <1>5, <2>1 DEF SawPaused, PauseTimesOut, Resume, TypeOK
<1>6. CASE Ask
  <2>1. requested' \in BOOLEAN /\ keeper' \in KeeperPlaces
    BY <1>6, Typed DEF Ask
  <2> QED BY <1>6, <2>1 DEF Ask, TypeOK
<1> QED BY <1>1, <1>2, <1>3, <1>4, <1>5, <1>6 DEF Keeper

LEMMA EnvironmentTyped ==
  ASSUME TypeInv, Environment
  PROVE  TypeInv'
<1> USE DEF TypeInv, barrier, keeperSide
<1>1. CASE Select
  <2>1. queue' \in Seq(Epochs) /\ Len(queue') <= Queue
    BY <1>1, Sizes DEF Select, TypeOK
  <2> QED BY <1>1, <2>1 DEF Select, TypeOK
<1>2. CASE Microphone \/ ToggleMicrophone
  BY ZenonT(40), <1>2 DEF Microphone, ToggleMicrophone, TypeOK
<1>3. CASE MicrophoneAppend
  <2>1. ring' \in Seq(Epochs) /\ Len(ring') <= MicQueue /\ Len(ring) <= Len(ring') /\ Len(ring) \in Nat
    BY <1>3, Sizes DEF MicrophoneAppend, HasSpace, TypeOK
  <2>2. worker'.pc = "mic" => worker'.left <= Len(ring')
    <3>1. worker.left \in Nat
      BY Sizes DEF TypeOK
    <3>2. Len(ring') \in Nat
      BY <2>1
    <3> QED BY <1>3, <2>1, <3>1, <3>2 DEF MicrophoneAppend
  <2> QED BY <1>3, <2>1, <2>2 DEF MicrophoneAppend, TypeOK
<1>4. CASE CodecReboots
  <2>1. codec' \in CodecType
    <3>1. codec \in CodecType /\ FreshCodec \in CodecType
      BY EmptyTypes, Typed
    <3> QED BY <1>4, <3>1 DEF CodecReboots, CodecType
  <2> QED BY <1>4, <2>1 DEF CodecReboots, TypeOK, CodecType
<1> QED BY <1>1, <1>2, <1>3, <1>4 DEF Environment

LEMMA WorkerStepsTyped ==
  ASSUME TypeInv, Worker
  PROVE  TypeInv'
<1>1. /\ worker \in WorkerType /\ codec \in CodecType
      /\ queue \in Seq(Epochs) /\ Len(queue) <= Queue /\ ring \in Seq(Epochs) /\ Len(ring) <= MicQueue
      /\ mic_active \in BOOLEAN /\ ready \in BOOLEAN /\ acknowledged \in BOOLEAN
      /\ requested \in BOOLEAN /\ mic_enabled \in BOOLEAN /\ sourceRequested \in BOOLEAN
      /\ previous \in (Epochs \cup {None}) \X (0..Seqs-1) /\ epoch \in Epochs
      /\ TypeOK /\ (worker.pc = "mic" => worker.left <= Len(ring))
  BY Typed DEF TypeInv
<1>2. /\ NoRequest \in Requests /\ Foreign \in Replies /\ 0 \in Epochs
      /\ Nothing \in (Epochs \cup {None}) \X (0..Seqs-1)
  BY EmptyTypes
<1> DEFINE next == (worker.seq + 1) % Seqs
<1>3. next \in 0..Seqs-1
  BY <1>1, NextSeq DEF WorkerType
<1> HIDE DEF next
<1>4. <<worker.tx.session, worker.tx.seq>> \in (Epochs \cup {None}) \X (0..Seqs-1)
  BY <1>1 DEF WorkerType, Requests
<1>5. ASSUME NEW place \in WorkerPlaces
      PROVE  Done(place) \in WorkerType /\ Done(place).pc = place
  BY <1>1, <1>2 DEF Done, WorkerType
<1>6. ASSUME NEW rx \in Replies, rx.session \in Epochs PROVE Pushed(rx) \in Seq(Epochs) /\ Len(Pushed(rx)) <= Queue
  <2>1. CASE rx.play /\ Len(queue) < Queue
    <3>1. Pushed(rx) = Append(queue, rx.session)
      BY <2>1 DEF Pushed
    <3> QED BY <1>1, <1>6, <2>1, <3>1, Sizes
  <2>2. CASE ~(rx.play /\ Len(queue) < Queue)
    BY <1>1, <2>2 DEF Pushed
  <2> QED BY <2>1, <2>2
<1> USE DEF At, Go, WorkerPlaces
<1>7. CASE Top
  BY <1>1, <1>7, WorkerTyped DEF Top, WorkerType
<1>8. CASE Clear \/ Gate
  <2>1. worker' \in WorkerType /\ worker'.pc # "mic"
    <3>1. CASE Clear
      BY <1>1, <3>1 DEF Clear, WorkerType
    <3>2. CASE Gate
      <4>1. \/ worker' = [worker EXCEPT !.pc = "look"]
            \/ worker' = [worker EXCEPT !.pc = "top", !.was_capture = FALSE]
        BY <3>2 DEF Gate
      <4>2. CASE worker' = [worker EXCEPT !.pc = "look"]
        BY <1>1, <4>2 DEF WorkerType
      <4>3. CASE worker' = [worker EXCEPT !.pc = "top", !.was_capture = FALSE]
        BY <1>1, <4>3 DEF WorkerType
      <4> QED BY <4>1, <4>2, <4>3
    <3> QED BY <1>8, <3>1, <3>2
  <2> QED BY <1>1, <1>2, <1>8, <2>1, WorkerTyped DEF Clear, Gate
<1>18. CASE Acknowledge \/ Unpark \/ Depart \/ Accept
  <2>1. worker' \in WorkerType /\ worker'.pc # "mic"
    BY ZenonT(40), <1>1, <1>18 DEF Acknowledge, Unpark, Depart, Accept, WorkerType
  <2> QED BY <1>1, <1>18, <2>1, WorkerTyped DEF Acknowledge, Unpark, Depart, Retired, Accept
<1>9. CASE DropRing
  <2>1. ring' = <<>> /\ ring' \in Seq(Epochs) /\ Len(ring') <= MicQueue
    BY <1>9, Sizes DEF DropRing
  <2> QED BY <1>1, <1>9, <2>1, WorkerTyped DEF DropRing, WorkerType
<1>10. CASE Hello
  <2> DEFINE tx == [NoRequest EXCEPT !.session = worker.session, !.seq = next]
  <2>1. tx \in Requests
    BY <1>1, <1>2, <1>3 DEF Requests, WorkerType
  <2> HIDE DEF tx
  <2>2. codec' \in CodecType
    BY <1>1, <1>10, <2>1, Processed, Damaged DEF Hello, tx, next
  <2>3. worker' \in WorkerType /\ worker'.pc # "mic"
    <3>1. \/ worker' = [worker EXCEPT !.pc = "top", !.seq = next]
          \/ worker' = [worker EXCEPT !.pc = "greet", !.seq = next, !.tx = tx, !.rx = codec.reply]
      BY <1>10 DEF Hello, tx, next
    <3>2. codec.reply \in Replies
      BY <1>1 DEF CodecType
    <3> QED BY ZenonT(40), <1>1, <1>3, <2>1, <3>1, <3>2 DEF WorkerType
  <2> QED BY <1>1, <1>10, <2>2, <2>3, WorkerTyped DEF Hello
<1>11. CASE Greet \/ Push
  <2>1. worker.rx \in Replies
    BY <1>1 DEF WorkerType
  <2>2. queue' \in Seq(Epochs) /\ Len(queue') <= Queue
    <3>1. worker.session \in Epochs /\ worker.current \in Epochs
      BY <1>1 DEF WorkerType
    <3>2. ASSUME NEW current \in Epochs, Accepted(current) PROVE worker.rx.session \in Epochs
      BY <3>2 DEF Accepted, SameEpoch
    <3> QED BY <1>1, <1>6, <1>11, <2>1, <3>1, <3>2 DEF Greet, Push
  <2>3. worker' = Done("top") /\ worker' \in WorkerType /\ worker'.pc # "mic"
    BY <1>5, <1>11 DEF Greet, Push
  <2>4. ready' \in BOOLEAN
    BY <1>1, <1>11, <2>1 DEF Greet, Push, Replies, Accepted
  <2> QED BY <1>1, <1>4, <1>11, <2>2, <2>3, <2>4, WorkerTyped DEF Greet, Push
<1>12. CASE Look
  <2>1. PICK play \in BOOLEAN, reset \in BOOLEAN :
          \/ worker' = [worker EXCEPT !.pc = "top"]
          \/ worker' = [worker EXCEPT
                          !.pc = "ring", !.capture = mic_enabled, !.was_capture = mic_enabled, !.seq = next,
                          !.reset_epoch = IF reset THEN worker.session ELSE @,
                          !.tx = [session |-> worker.session, seq |-> next, play |-> play,
                                  mic |-> None, reset |-> reset]]
    BY <1>1, <1>12 DEF Look, next, WorkerType
  <2> DEFINE tx == [session |-> worker.session, seq |-> next, play |-> play, mic |-> None, reset |-> reset]
             again == IF reset THEN worker.session ELSE worker.reset_epoch
  <2>2. tx \in Requests /\ again \in Epochs \cup {None}
    BY <1>1, <1>3, <2>1 DEF Requests, WorkerType
  <2>4. \/ worker' = [worker EXCEPT !.pc = "top"]
        \/ worker' = [worker EXCEPT !.pc = "ring", !.capture = mic_enabled, !.was_capture = mic_enabled,
                                    !.seq = next, !.reset_epoch = again, !.tx = tx]
    BY <2>1
  <2> HIDE DEF tx, again
  <2>3. worker' \in WorkerType /\ worker'.pc # "mic"
    <3>1. CASE worker' = [worker EXCEPT !.pc = "top"]
      BY <1>1, <3>1 DEF WorkerType
    <3>2. CASE worker' # [worker EXCEPT !.pc = "top"]
      BY ZenonT(40), <1>1, <1>3, <2>2, <2>4, <3>2 DEF WorkerType
    <3> QED BY <3>1, <3>2
  <2> QED BY <1>1, <1>12, <2>3, WorkerTyped DEF Look
<1>13. CASE CountRing
  <2>1. Len(ring) \in 0..MicQueue
    BY <1>1, Sizes
  <2>2. worker' \in WorkerType /\ worker'.left = Len(ring)
    BY <1>1, <1>13, <2>1 DEF CountRing, WorkerType
  <2>3. worker'.left <= Len(ring)
    BY <2>1, <2>2
  <2> QED BY <1>1, <1>13, <2>2, <2>3, WorkerTyped DEF CountRing
<1>14. CASE TakePacket
  <2>1. worker.left \in Nat /\ worker.left > 0 /\ worker.left <= Len(ring) /\ worker.left <= MicQueue
    BY <1>1, <1>14, Sizes DEF TakePacket, WorkerType
  <2>2. /\ ring # <<>> /\ ring' = Tail(ring) /\ ring' \in Seq(Epochs) /\ Len(ring') = Len(ring) - 1
        /\ Head(ring) \in Epochs /\ Len(ring') <= MicQueue
    BY <1>1, <1>14, <2>1, Sizes DEF TakePacket
  <2>3. worker.left - 1 \in 0..MicQueue /\ 0 \in 0..MicQueue /\ worker.left - 1 <= Len(ring')
    BY <1>1, <2>1, <2>2, Sizes
  <2> DEFINE rest == worker.left - 1
             tx == [worker.tx EXCEPT !.mic = Head(ring)]
  <2>4. tx \in Requests
    BY <1>1, <2>2 DEF WorkerType, Requests
  <2>5. \/ worker' = [worker EXCEPT !.left = rest]
        \/ worker' = [worker EXCEPT !.pc = "exchange", !.left = 0, !.tx = tx]
    BY <1>14 DEF TakePacket
  <2> HIDE DEF rest, tx
  <2>6. rest \in 0..MicQueue /\ rest <= Len(ring')
    BY <2>3 DEF rest
  <2>7. worker' \in WorkerType /\ (worker'.pc = "mic" => worker'.left <= Len(ring'))
    BY ZenonT(40), <1>1, <2>3, <2>4, <2>5, <2>6 DEF WorkerType
  <2> QED BY <1>1, <1>14, <2>2, <2>7, WorkerTyped DEF TakePacket
<1>15. CASE NoPacket
  <2>1. worker.left \in Nat /\ Len(ring) \in Nat /\ 0 \in 0..MicQueue
    BY <1>1, Sizes DEF WorkerType
  <2>2. ring' = SubSeq(ring, worker.left + 1, Len(ring))
    BY <1>15 DEF NoPacket
  <2>4. ring \in Seq(Epochs) /\ Len(ring) <= MicQueue /\ MicQueue \in Nat
    BY <1>1, Sizes
  <2>5. ring' \in Seq(Epochs) /\ Len(ring') <= Len(ring) /\ Len(ring') \in Nat
    BY <2>1, <2>2, <2>4, RestOf
  <2>6. Len(ring') <= MicQueue
    BY <2>1, <2>4, <2>5
  <2>3. worker' \in WorkerType /\ worker'.pc # "mic"
    BY <1>1, <1>15, <2>1 DEF NoPacket, WorkerType
  <2> QED BY <1>1, <1>15, <2>3, <2>5, <2>6, WorkerTyped DEF NoPacket
<1>16. CASE Exchange
  <2>1. worker.tx \in Requests /\ codec.reply \in Replies
    BY <1>1 DEF WorkerType, CodecType
  <2>2. codec' \in CodecType
    BY <1>1, <1>16, <2>1, Processed, Damaged DEF Exchange
  <2>3. worker' \in WorkerType /\ worker'.pc # "mic"
    BY <1>1, <1>16, <2>1 DEF Exchange, WorkerType
  <2> QED BY <1>1, <1>16, <2>2, <2>3, WorkerTyped DEF Exchange
<1>17. CASE ExchangeFails
  <2>1. worker.tx \in Requests
    BY <1>1 DEF WorkerType
  <2>2. codec' \in CodecType
    BY <1>1, <1>17, <2>1, Processed DEF ExchangeFails
  <2>3. worker' \in WorkerType /\ worker'.pc # "mic"
    <3>1. Done("top") \in WorkerType /\ Done("top").pc = "top"
      BY <1>5
    <3>2. worker' = [Done("top") EXCEPT !.was_capture = FALSE, !.capture = FALSE]
      BY <1>17 DEF ExchangeFails
    <3> QED BY <3>1, <3>2 DEF WorkerType
  <2> QED BY <1>1, <1>2, <1>17, <2>2, <2>3, WorkerTyped DEF ExchangeFails
<1> QED BY <1>7, <1>8, <1>9, <1>10, <1>11, <1>12, <1>13, <1>14, <1>15, <1>16, <1>17, <1>18 DEF Worker

StreamInv == PhaseInv /\ SessionInv /\ CreditInv /\ DecoderInv

LEMMA Numbers ==
  ASSUME TypeOK
  PROVE  /\ worker.session \in Nat /\ epoch \in Nat /\ Queue \in Nat /\ Queue >= 2
         /\ Len(queue) \in Nat /\ codec.history \in Int /\ codec.decoder \in Int
         /\ -1 <= codec.history /\ -1 <= codec.decoder
<1>1. MaxEpoch \in Nat /\ Queue \in Nat /\ Queue >= 2
  BY Sizes
<1>2. /\ worker \in WorkerType /\ codec \in CodecType /\ queue \in Seq(Epochs) /\ epoch \in Epochs
  BY Typed
<1>3. worker.session \in Epochs /\ codec.history \in Epochs \cup {None} /\ codec.decoder \in Epochs \cup {None}
  BY <1>2 DEF WorkerType, CodecType
<1>4. Len(queue) \in Nat
  BY <1>2
<1> QED BY <1>1, <1>2, <1>3, <1>4 DEF Epochs, None

\* auto_link.c: an epoch begins while no stream runs and the queue is empty; the
\* queue is emptied only behind the barrier.
LEMMA KeeperStream ==
  ASSUME TypeOK, ParkInv, StreamInv, Keeper
  PROVE  StreamInv'
<1>1. /\ worker.session \in Nat /\ epoch \in Nat /\ Queue \in Nat /\ Queue >= 2
      /\ Len(queue) \in Nat /\ codec.history \in Int /\ codec.decoder \in Int
      /\ -1 <= codec.history /\ -1 <= codec.decoder
  BY Numbers
<1>2. CASE StartConnection
  <2>1. /\ UNCHANGED <<trial, sourceRequested, queue, worker, ready, previous, codec>>
        /\ keeper = "setup" /\ keeper' \in {"setup", "linked"} /\ epoch' = epoch + 1
    BY <1>2 DEF StartConnection, workerSide
  <2>2. worker.pc \notin Streaming /\ ~sourceRequested /\ queue = <<>> /\ trial # "active"
    BY <2>1 DEF StreamInv, PhaseInv
  <2>3. PhaseInv'
    BY <2>1, <2>2 DEF StreamInv, PhaseInv
  <2>4. SessionInv'
    BY <1>1, <2>1, <2>2 DEF StreamInv, SessionInv, Streaming
  <2>5. CreditInv' /\ DecoderInv'
    BY <2>1 DEF StreamInv, CreditInv, DecoderInv
  <2> QED BY <2>3, <2>4, <2>5 DEF StreamInv
<1>3. CASE Restart
  <2>1. /\ epoch' = 0 /\ trial' = "idle" /\ ~sourceRequested' /\ queue' = <<>> /\ ready' = FALSE
        /\ worker' = FreshWorker /\ previous' = Nothing /\ keeper' = "setup"
        /\ codec' = [FreshCodec EXCEPT !.mixed = codec.mixed,
                                       !.history = IF codec.history = None THEN None ELSE 0]
    BY <1>3 DEF Restart
  <2>2. /\ codec'.reply = Foreign /\ codec'.decoder = -1 /\ codec'.history \in {-1, 0}
        /\ codec'.mixed = codec.mixed
    BY <2>1 DEF FreshCodec, None
  <2>3. PhaseInv' /\ SessionInv'
    BY <2>1, <2>2 DEF PhaseInv, SessionInv, FreshWorker, Streaming, Requesting, Foreign, None
  <2>4. CreditInv' /\ DecoderInv'
    BY <2>1, <2>2 DEF StreamInv, CreditInv, DecoderInv, FreshWorker, Requesting, Foreign, None
  <2> QED BY <2>3, <2>4 DEF StreamInv
<1>4. CASE Rearm
  <2>1. UNCHANGED <<epoch, worker, ready, previous, codec>> /\ keeper = "rearm"
    BY <1>4 DEF Rearm, workerSide
  <2>2. CASE paused /\ trial = "ended"
    <3>1. trial' = "idle" /\ queue' = <<>> /\ ~sourceRequested' /\ keeper' = "resume"
      BY <1>4, <2>2 DEF Rearm
    <3>2. worker.pc \in {"parked", "depart"}
      BY <2>2 DEF ParkInv, BarrierInv, paused
    <3>3. Len(queue') = 0
      BY <3>1
    <3> QED BY <1>1, <2>1, <3>1, <3>2, <3>3
         DEF StreamInv, PhaseInv, SessionInv, CreditInv, DecoderInv, Streaming, Requesting
  <2>3. CASE ~(paused /\ trial = "ended")
    <3>1. UNCHANGED <<trial, queue, sourceRequested>> /\ keeper' = "restart"
      BY <1>4, <2>3 DEF Rearm
    <3> QED BY <2>1, <3>1 DEF StreamInv, PhaseInv, SessionInv, CreditInv, DecoderInv
  <2> QED BY <2>2, <2>3
<1>5. CASE \/ LostEarly \/ StartStream \/ LeaveStream \/ CancelTrial \/ SawEnded \/ CancelTimesOut
           \/ Ask \/ SawPaused \/ PauseTimesOut \/ Resume
  <2>1. UNCHANGED <<epoch, queue, sourceRequested, worker, ready, previous, codec>>
    BY <1>5 DEF LostEarly, StartStream, LeaveStream, CancelTrial, SawEnded, CancelTimesOut, Ask,
                SawPaused, PauseTimesOut, Resume, workerSide
  <2>2. SessionInv' /\ CreditInv' /\ DecoderInv'
    BY <2>1 DEF StreamInv, SessionInv, CreditInv, DecoderInv
  <2>3. /\ keeper' \in {"setup", "linked", "resume"} => keeper \in {"setup", "linked", "resume"}
        /\ trial' = "active" => keeper' \in {"streaming", "cancel", "restart"}
    BY <1>5 DEF LostEarly, StartStream, LeaveStream, CancelTrial, SawEnded, Collected, CancelTimesOut, Ask,
                SawPaused, PauseTimesOut, Resume, StreamInv, PhaseInv
  <2>4. PhaseInv'
    BY <2>1, <2>3 DEF StreamInv, PhaseInv
  <2> QED BY <2>2, <2>4 DEF StreamInv
<1> QED BY <1>2, <1>3, <1>4, <1>5 DEF Keeper

\* The controller task takes from the queue; the codec may start again.
LEMMA EnvironmentStream ==
  ASSUME TypeOK, StreamInv, Environment
  PROVE  StreamInv'
<1>1. /\ worker.session \in Nat /\ epoch \in Nat /\ Queue \in Nat /\ Queue >= 2
      /\ Len(queue) \in Nat /\ codec.history \in Int /\ codec.decoder \in Int
      /\ -1 <= codec.history /\ -1 <= codec.decoder
  BY Numbers
<1>2. CASE Select
  <2>1. UNCHANGED <<epoch, keeper, trial, worker, ready, previous, codec>> /\ trial = "active"
    BY <1>2 DEF Select, keeperSide
  <2>2. /\ Len(queue') \in Nat /\ Len(queue') <= Len(queue)
        /\ \A i \in DOMAIN queue' : queue'[i] = epoch
    <3>1. CASE queue = <<>>
      BY <1>2, <3>1 DEF Select
    <3>2. CASE queue # <<>>
      <4>1. queue' = Tail(queue) /\ queue \in Seq(Epochs)
        BY <1>2, <3>2, Typed DEF Select
      <4>2. \A i \in DOMAIN queue : queue[i] = epoch
        BY DEF StreamInv, SessionInv
      <4>3. /\ Len(queue') = Len(queue) - 1
            /\ \A i \in DOMAIN queue' : i + 1 \in DOMAIN queue /\ queue'[i] = queue[i + 1]
        BY <3>2, <4>1
      <4> QED BY <1>1, <3>2, <4>1, <4>2, <4>3
    <3> QED BY <3>1, <3>2
  <2>3. PhaseInv'
    BY <2>1 DEF StreamInv, PhaseInv
  <2>4. SessionInv' /\ DecoderInv'
    BY <2>1, <2>2 DEF StreamInv, SessionInv, DecoderInv
  <2>5. CreditInv'
    BY <1>1, <2>1, <2>2 DEF StreamInv, CreditInv
  <2> QED BY <2>3, <2>4, <2>5 DEF StreamInv
<1>3. CASE Microphone \/ MicrophoneAppend \/ ToggleMicrophone
  <2>1. UNCHANGED <<epoch, keeper, trial, sourceRequested, queue, worker, ready, previous, codec>>
    BY <1>3 DEF Microphone, MicrophoneAppend, ToggleMicrophone, keeperSide
  <2> QED BY <2>1 DEF StreamInv, PhaseInv, SessionInv, CreditInv, DecoderInv
<1>4. CASE CodecReboots
  <2>1. /\ UNCHANGED <<epoch, keeper, trial, sourceRequested, queue, worker, ready, previous>>
        /\ codec' = [FreshCodec EXCEPT !.mixed = codec.mixed]
    BY <1>4 DEF CodecReboots, keeperSide
  <2>2. codec'.reply = Foreign /\ codec'.decoder = -1 /\ codec'.history = -1 /\ codec'.mixed = codec.mixed
    BY <2>1 DEF FreshCodec, None
  <2>3. PhaseInv' /\ SessionInv'
    BY <2>1, <2>2 DEF StreamInv, PhaseInv, SessionInv, Foreign
  <2>4. CreditInv' /\ DecoderInv'
    BY <1>1, <2>1, <2>2 DEF StreamInv, CreditInv, DecoderInv, Foreign, None
  <2> QED BY <2>3, <2>4 DEF StreamInv
<1> QED BY <1>2, <1>3, <1>4 DEF Environment

\* Everywhere but at an exchange the worker leaves the queue and the codec alone.
LEMMA QuietStream ==
  ASSUME TypeOK, StreamInv, UNCHANGED otherTasks, UNCHANGED <<queue, codec, ready>>,
         previous' \in {previous, Nothing}, worker'.session \in {worker.session, epoch},
         worker'.rx = worker.rx,
         worker.pc \notin {"greet", "accept", "push"}, worker'.pc \notin {"greet", "accept", "push"},
         worker'.pc = "hello" => ~ready, worker'.pc \in Streaming \cup {"gate"} => ready,
         worker'.pc \in Streaming => worker.pc \in Streaming \/ sourceRequested,
         worker'.pc \in Requesting =>
             /\ worker'.tx.session = worker'.session /\ worker'.tx.mic \in {None, worker'.session}
             /\ worker'.tx.play => Len(queue) + 2 <= Queue
  PROVE  StreamInv'
<1>1. /\ worker.session \in Nat /\ epoch \in Nat
      /\ codec.history \in Int /\ codec.decoder \in Int
  BY Numbers
<1>2. PhaseInv'
  BY DEF StreamInv, PhaseInv, otherTasks, Streaming
<1>3. SessionInv'
  BY <1>1 DEF StreamInv, SessionInv, otherTasks
<1>4. CreditInv'
  BY DEF StreamInv, CreditInv, otherTasks
<1>5. DecoderInv'
  BY <1>1 DEF StreamInv, SessionInv, DecoderInv
<1> QED BY <1>2, <1>3, <1>4, <1>5 DEF StreamInv

\* pcm_stream.c, run: a request carries the session the worker began its round
\* with, packets of that session alone, and a credit for the frame it asks for.
LEMMA RoundStream ==
  ASSUME TypeInv, StreamInv,
         \/ Top \/ Clear \/ DropRing \/ Acknowledge \/ Unpark \/ Depart \/ Gate \/ Look
         \/ CountRing \/ TakePacket \/ NoPacket
  PROVE  StreamInv'
<1>1. /\ worker \in WorkerType /\ TypeOK /\ Len(queue) \in Nat /\ Queue \in Nat
      /\ (worker.pc = "mic" => worker.left <= Len(ring))
  BY Typed, Numbers DEF TypeInv
<1>2. /\ worker.pc \in Streaming \cup {"gate"} => ready
      /\ worker.pc \in Requesting =>
             /\ worker.tx.session = worker.session /\ worker.tx.mic \in {None, worker.session}
             /\ worker.tx.play => Len(queue) + 2 <= Queue
  BY DEF StreamInv, PhaseInv, SessionInv, CreditInv
<1> USE DEF At, Go, Streaming, Requesting
<1>3. CASE Top
  <2>1. /\ worker'.pc \in {"clear", "gate", "hello"} /\ (worker'.pc = "hello" => ~ready)
        /\ (worker'.pc = "gate" => ready)
        /\ worker'.session \in {worker.session, epoch} /\ worker'.rx = worker.rx
    BY <1>1, <1>3 DEF Top, WorkerType
  <2> QED BY <1>1, <1>3, <2>1, QuietStream DEF Top
<1>4. CASE Clear
  <2>1. worker'.pc = "drop" /\ worker'.session = worker.session /\ worker'.rx = worker.rx
    BY <1>1, <1>4 DEF Clear, WorkerType
  <2> QED BY <1>1, <1>4, <2>1, QuietStream DEF Clear
<1>5. CASE DropRing \/ Acknowledge \/ Unpark \/ Depart
  <2>1. /\ worker'.pc \in {"ack", "parked", "depart", "top"} /\ worker'.session = worker.session
        /\ worker'.rx = worker.rx /\ worker.pc \in {"drop", "ack", "parked", "depart"}
    BY <1>1, <1>5 DEF DropRing, Acknowledge, Unpark, Depart, WorkerType
  <2> QED BY <1>1, <1>5, <2>1, QuietStream DEF DropRing, Acknowledge, Unpark, Depart
<1>6. CASE Gate
  <2>1. /\ worker.pc = "gate" /\ worker'.session = worker.session /\ worker'.rx = worker.rx
        /\ worker'.pc \in {"look", "top"} /\ (worker'.pc = "look" => sourceRequested)
    <3>1. CASE sourceRequested
      BY <1>1, <1>6, <3>1 DEF Gate, WorkerType
    <3>2. CASE ~sourceRequested
      BY <1>1, <1>6, <3>2 DEF Gate, WorkerType
    <3> QED BY <3>1, <3>2
  <2> QED BY <1>1, <1>2, <1>6, <2>1, QuietStream DEF Gate
<1>7. CASE Look
  <2>1. /\ worker.pc = "look" /\ worker'.session = worker.session /\ worker'.rx = worker.rx
        /\ worker'.pc \in {"ring", "top"}
        /\ worker'.pc = "ring" =>
               /\ worker'.tx.session = worker.session /\ worker'.tx.mic = None
               /\ worker'.tx.play => Credit
    <3>1. worker.pc = "look"
      BY <1>7 DEF Look
    <3>2. PICK play \in BOOLEAN, next \in {(worker.seq + 1) % Seqs}, reset \in BOOLEAN :
            /\ play => Credit
            /\ \/ worker' = [worker EXCEPT !.pc = "top"]
               \/ worker' = [worker EXCEPT
                               !.pc = "ring", !.capture = mic_enabled, !.was_capture = mic_enabled, !.seq = next,
                               !.reset_epoch = IF reset THEN worker.session ELSE @,
                               !.tx = [session |-> worker.session, seq |-> next, play |-> play,
                                       mic |-> None, reset |-> reset]]
      BY <1>1, <1>7, Typed DEF Look, WorkerType
    <3>3. CASE worker' = [worker EXCEPT !.pc = "top"]
      BY <1>1, <3>1, <3>3 DEF WorkerType
    <3>4. CASE worker' # [worker EXCEPT !.pc = "top"]
      <4> DEFINE tx == [session |-> worker.session, seq |-> next, play |-> play,
                        mic |-> None, reset |-> reset]
                 again == IF reset THEN worker.session ELSE worker.reset_epoch
      <4>1. tx.session = worker.session /\ tx.mic = None /\ tx.play = play
        OBVIOUS
      <4>2. worker' = [worker EXCEPT !.pc = "ring", !.capture = mic_enabled, !.was_capture = mic_enabled,
                                     !.seq = next, !.reset_epoch = again, !.tx = tx]
        BY <3>2, <3>4
      <4> HIDE DEF tx, again
      <4>3. /\ worker'.session = worker.session /\ worker'.rx = worker.rx /\ worker'.pc = "ring"
            /\ worker'.tx = tx
        BY <1>1, <4>2 DEF WorkerType
      <4> QED BY <3>1, <3>2, <4>1, <4>3
    <3> QED BY <3>3, <3>4
  <2>2. Credit => Len(queue) + 2 <= Queue
    BY <1>1 DEF Credit
  <2> QED BY <1>1, <1>2, <1>7, <2>1, <2>2, QuietStream DEF Look
<1>8. CASE CountRing
  <2>1. /\ worker.pc = "ring" /\ worker'.pc = "mic" /\ worker'.session = worker.session
        /\ worker'.rx = worker.rx /\ worker'.tx = worker.tx
    BY <1>1, <1>8 DEF CountRing, WorkerType
  <2> QED BY <1>1, <1>2, <1>8, <2>1, QuietStream DEF CountRing
<1>9. CASE TakePacket
  <2>1. /\ worker.pc = "mic" /\ worker'.pc \in {"mic", "exchange"} /\ worker'.session = worker.session
        /\ worker'.rx = worker.rx
        /\ worker'.tx.session = worker.tx.session /\ worker'.tx.play = worker.tx.play
        /\ worker'.tx.mic \in {worker.tx.mic, worker.session}
    <3>1. worker.tx \in Requests /\ worker.pc = "mic"
      BY <1>1, <1>9 DEF TakePacket, WorkerType
    <3>2. CASE worker' = [worker EXCEPT !.left = @ - 1]
      BY <1>1, <3>1, <3>2 DEF WorkerType
    <3>3. CASE /\ Head(ring) = worker.session
               /\ worker' = [worker EXCEPT !.pc = "exchange", !.left = 0, !.tx.mic = Head(ring)]
      BY <1>1, <3>1, <3>3 DEF WorkerType, Requests
    <3> QED BY <1>9, <3>2, <3>3 DEF TakePacket, ThisSession
  <2> QED BY <1>1, <1>2, <1>9, <2>1, QuietStream DEF TakePacket
<1>10. CASE NoPacket
  <2>1. /\ worker.pc = "mic" /\ worker'.pc = "exchange" /\ worker'.session = worker.session
        /\ worker'.rx = worker.rx /\ worker'.tx = worker.tx
    BY <1>1, <1>10 DEF NoPacket, WorkerType
  <2> QED BY <1>1, <1>2, <1>10, <2>1, QuietStream DEF NoPacket
<1> QED BY <1>3, <1>4, <1>5, <1>6, <1>7, <1>8, <1>9, <1>10

\* codec/src/main.c, decode_reset: a packet reaches the decoder reset for its
\* session, or resets it.
LEMMA ProcessedDecoder ==
  ASSUME TypeOK, DecoderInv, NEW request \in Requests, NEW encodes \in BOOLEAN, NEW decodes \in BOOLEAN,
         Process(request, encodes, decodes),
         request.session = worker.session, request.mic \in {None, worker.session}
  PROVE  /\ codec'.history <= worker.session /\ codec'.decoder <= worker.session
         /\ codec'.history = None \/ codec'.decoder <= codec'.history
         /\ ~codec'.mixed
<1>1. /\ worker.session \in Nat /\ codec.history \in Int /\ codec.decoder \in Int
      /\ -1 <= codec.history /\ -1 <= codec.decoder
      /\ codec.history <= worker.session /\ codec.decoder <= worker.session
      /\ codec.history = -1 \/ codec.decoder <= codec.history
      /\ ~codec.mixed
  BY Numbers DEF DecoderInv, None
<1> DEFINE touched == request.mic # None
           history == IF Resets(request) THEN None ELSE codec.history
<1>2. /\ codec'.history = IF touched THEN request.mic ELSE history
      /\ codec'.decoder = IF Resets(request) /\ decodes THEN request.session ELSE codec.decoder
      /\ codec'.mixed <=> (codec.mixed \/ (touched /\ history \notin {None, request.mic}))
  BY DEF Process
<1>3. CASE Resets(request)
  <2>1. history = None
    BY <1>3
  <2> QED BY <1>1, <1>2, <1>3, <2>1 DEF None
<1>4. CASE ~Resets(request) /\ touched
  <2>1. codec.decoder = worker.session /\ request.mic = worker.session
    BY <1>4 DEF Resets
  <2>2. history \in {-1, worker.session}
    BY <1>1, <1>4, <2>1
  <2> QED BY <1>1, <1>2, <1>4, <2>1, <2>2 DEF None
<1>5. CASE ~Resets(request) /\ ~touched
  BY <1>1, <1>2, <1>5 DEF None
<1> QED BY <1>3, <1>4, <1>5

\* pcm_stream.c, handshake: after it the codec holds nothing to be played, so
\* the next greeting accepts nothing to be played.
LEMMA HelloStream ==
  ASSUME TypeInv, StreamInv, Hello
  PROVE  StreamInv'
<1>1. worker \in WorkerType /\ codec \in CodecType /\ TypeOK /\ worker.pc = "hello"
  BY Typed DEF TypeInv, Hello, At
<1>2. UNCHANGED otherTasks /\ UNCHANGED <<queue, ready, previous>>
  BY DEF Hello
<1> DEFINE next == (worker.seq + 1) % Seqs
           tx == [NoRequest EXCEPT !.session = worker.session, !.seq = next]
<1>3. /\ \/ worker' = [worker EXCEPT !.pc = "top", !.seq = next]
         \/ worker' = [worker EXCEPT !.pc = "greet", !.seq = next, !.tx = tx, !.rx = codec.reply]
      /\ (codec' = codec /\ worker'.pc # "greet") \/ Process(tx, TRUE, TRUE) \/ ProcessDamaged
  BY <1>1 DEF Hello, WorkerType
<1>4. /\ tx \in Requests /\ tx.session = worker.session /\ tx.mic = None /\ ~tx.play
  <2>1. next \in 0..Seqs-1 /\ worker.session \in Epochs
    BY <1>1, NextSeq DEF WorkerType
  <2> HIDE DEF next
  <2>2. NoRequest \in Requests /\ NoRequest.mic = None /\ NoRequest.play = FALSE
    BY EmptyTypes DEF NoRequest
  <2> QED BY <2>1, <2>2 DEF Requests
<1> HIDE DEF next, tx
<1>5. /\ codec'.reply.mic \in {None, codec'.reply.session}
      /\ codec'.reply.play => codec' = codec /\ worker'.pc # "greet"
  <2>1. CASE codec' = codec /\ worker'.pc # "greet"
    BY <2>1 DEF StreamInv, SessionInv
  <2>2. CASE Process(tx, TRUE, TRUE)
    BY <1>1, <1>4, <2>2, Processed
  <2>3. CASE ProcessDamaged
    BY <1>1, <2>3, Damaged DEF Foreign
  <2> QED BY <1>3, <2>1, <2>2, <2>3
<1>6. /\ codec'.history <= worker.session /\ codec'.decoder <= worker.session
      /\ codec'.history = None \/ codec'.decoder <= codec'.history
      /\ ~codec'.mixed
  <2>1. DecoderInv
    BY DEF StreamInv
  <2>2. CASE Process(tx, TRUE, TRUE)
    BY <1>1, <1>4, <2>1, <2>2, ProcessedDecoder
  <2>3. CASE codec' = codec \/ ProcessDamaged
    BY <1>1, <2>1, <2>3, Damaged DEF DecoderInv
  <2> QED BY <1>3, <2>2, <2>3
<1>7. /\ worker'.session = worker.session /\ worker'.pc \in {"top", "greet"}
      /\ worker'.pc = "greet" => worker'.tx = tx /\ worker'.rx = codec.reply
      /\ worker'.pc = "top" => worker'.rx = worker.rx
  BY <1>1, <1>3 DEF WorkerType
<1>8. ~ready /\ (previous # Nothing => ~codec.reply.play)
  BY <1>1 DEF StreamInv, PhaseInv, CreditInv
<1>9. PhaseInv'
  BY <1>1, <1>2, <1>7, <1>8 DEF StreamInv, PhaseInv, otherTasks, Streaming
<1>10. SessionInv'
  BY <1>2, <1>4, <1>5, <1>7 DEF StreamInv, SessionInv, otherTasks, Requesting
<1>11. CreditInv'
  BY <1>1, <1>2, <1>5, <1>7, <1>8 DEF StreamInv, CreditInv, Requesting
<1>12. DecoderInv'
  BY <1>6, <1>7 DEF DecoderInv
<1> QED BY <1>9, <1>10, <1>11, <1>12 DEF StreamInv

LEMMA GreetStream ==
  ASSUME TypeInv, StreamInv, Greet
  PROVE  StreamInv'
<1>1. worker \in WorkerType /\ codec \in CodecType /\ TypeOK /\ worker.pc = "greet"
  BY Typed DEF TypeInv, Greet, At
<1>2. /\ UNCHANGED otherTasks /\ UNCHANGED codec
      /\ worker' = Done("top")
  BY DEF Greet
<1>3. ~codec.reply.play /\ (previous # Nothing => ~worker.rx.play)
  BY <1>1 DEF StreamInv, CreditInv
<1>4. queue' = queue
  BY <1>3 DEF Greet, Accepted, Pushed
<1>5. worker'.pc = "top" /\ worker'.session = worker.session /\ worker'.rx = Foreign
  BY <1>1, <1>2 DEF Done, WorkerType
<1>6. PhaseInv'
  BY <1>1, <1>2, <1>4, <1>5 DEF StreamInv, PhaseInv, otherTasks, Streaming
<1>7. SessionInv'
  BY <1>2, <1>4, <1>5 DEF StreamInv, SessionInv, otherTasks, Requesting, Foreign
<1>8. CreditInv'
  BY <1>2, <1>3, <1>5 DEF CreditInv, Requesting
<1>9. DecoderInv'
  BY <1>2, <1>5 DEF StreamInv, DecoderInv
<1> QED BY <1>6, <1>7, <1>8, <1>9 DEF StreamInv

\* exchange: the codec answers the request before; what it keeps now answers
\* this one.
LEMMA ExchangeStream ==
  ASSUME TypeInv, StreamInv, Exchange
  PROVE  StreamInv'
<1>1. worker \in WorkerType /\ codec \in CodecType /\ TypeOK /\ worker.pc = "exchange"
  BY Typed DEF TypeInv, Exchange, At
<1>2. /\ UNCHANGED otherTasks /\ UNCHANGED <<queue, ready, previous>>
      /\ worker' = [worker EXCEPT !.pc = "accept", !.rx = codec.reply, !.capture = FALSE]
  BY DEF Exchange
<1>3. PICK encodes \in BOOLEAN, decodes \in BOOLEAN : Process(worker.tx, encodes, decodes) \/ ProcessDamaged
  BY DEF Exchange
<1>4. /\ worker.tx \in Requests /\ worker.tx.session = worker.session
      /\ worker.tx.mic \in {None, worker.session}
  BY <1>1 DEF WorkerType, StreamInv, SessionInv, Requesting
<1>5. codec'.reply.mic \in {None, codec'.reply.session} /\ (codec'.reply.play => worker.tx.play)
  BY <1>1, <1>3, <1>4, Processed, Damaged DEF Foreign
<1>6. /\ codec'.history <= worker.session /\ codec'.decoder <= worker.session
      /\ codec'.history = None \/ codec'.decoder <= codec'.history
      /\ ~codec'.mixed
  <2>1. DecoderInv
    BY DEF StreamInv
  <2>2. CASE Process(worker.tx, encodes, decodes)
    BY <1>1, <1>4, <2>1, <2>2, ProcessedDecoder
  <2>3. CASE ProcessDamaged
    BY <1>1, <2>1, <2>3, Damaged DEF DecoderInv
  <2> QED BY <1>3, <2>2, <2>3
<1>7. /\ worker'.pc = "accept" /\ worker'.session = worker.session /\ worker'.tx = worker.tx
      /\ worker'.rx = codec.reply
  BY <1>1, <1>2 DEF WorkerType
<1>8. PhaseInv'
  BY <1>1, <1>2, <1>7 DEF StreamInv, PhaseInv, otherTasks, Streaming
<1>9. SessionInv'
  BY <1>2, <1>4, <1>5, <1>7 DEF StreamInv, SessionInv, otherTasks
<1>10. CreditInv'
  BY <1>1, <1>2, <1>5, <1>7 DEF StreamInv, CreditInv, PhaseInv, Streaming, Requesting
<1>11. DecoderInv'
  BY <1>6, <1>7 DEF DecoderInv
<1> QED BY <1>8, <1>9, <1>10, <1>11 DEF StreamInv

LEMMA ExchangeFailsStream ==
  ASSUME TypeInv, StreamInv, ExchangeFails
  PROVE  StreamInv'
<1>1. worker \in WorkerType /\ codec \in CodecType /\ TypeOK /\ worker.pc = "exchange"
  BY Typed DEF TypeInv, ExchangeFails, At
<1>2. /\ UNCHANGED otherTasks /\ UNCHANGED queue /\ previous' = Nothing /\ ready' = FALSE
      /\ worker' = [Done("top") EXCEPT !.was_capture = FALSE, !.capture = FALSE]
  BY DEF ExchangeFails
<1>3. PICK encodes \in BOOLEAN, decodes \in BOOLEAN :
        codec' = codec \/ Process(worker.tx, encodes, decodes)
  BY DEF ExchangeFails
<1>4. /\ worker.tx \in Requests /\ worker.tx.session = worker.session
      /\ worker.tx.mic \in {None, worker.session}
  BY <1>1 DEF WorkerType, StreamInv, SessionInv, Requesting
<1>5. codec'.reply.mic \in {None, codec'.reply.session}
  BY <1>1, <1>3, <1>4, Processed DEF StreamInv, SessionInv
<1>6. /\ codec'.history <= worker.session /\ codec'.decoder <= worker.session
      /\ codec'.history = None \/ codec'.decoder <= codec'.history
      /\ ~codec'.mixed
  <2>1. DecoderInv
    BY DEF StreamInv
  <2>2. CASE Process(worker.tx, encodes, decodes)
    BY <1>1, <1>4, <2>1, <2>2, ProcessedDecoder
  <2>3. CASE codec' = codec
    BY <2>1, <2>3 DEF DecoderInv
  <2> QED BY <1>3, <2>2, <2>3
<1>7. worker'.pc = "top" /\ worker'.session = worker.session /\ worker'.rx = Foreign
  BY <1>1, <1>2 DEF Done, WorkerType
<1>8. PhaseInv'
  BY <1>1, <1>2, <1>7 DEF StreamInv, PhaseInv, otherTasks, Streaming
<1>9. SessionInv'
  BY <1>2, <1>5, <1>7 DEF StreamInv, SessionInv, otherTasks, Requesting, Foreign
<1>10. CreditInv'
  BY <1>2, <1>7 DEF CreditInv, Requesting
<1>11. DecoderInv'
  BY <1>6, <1>7 DEF DecoderInv
<1> QED BY <1>8, <1>9, <1>10, <1>11 DEF StreamInv

\* accept_response: only an answer of this session to the request before is
\* taken, and the queue has room for it and for the next one.
LEMMA PushStream ==
  ASSUME TypeInv, StreamInv, Accept \/ Push
  PROVE  StreamInv'
<1>1. /\ worker \in WorkerType /\ codec \in CodecType /\ TypeOK /\ queue \in Seq(Epochs)
      /\ Len(queue) \in Nat /\ Queue \in Nat /\ epoch \in Epochs
  BY Typed, Numbers DEF TypeInv
<1>2. CASE Accept
  <2>1. /\ UNCHANGED otherTasks /\ UNCHANGED <<queue, ready, previous, codec>>
        /\ worker.pc = "accept" /\ worker' = [worker EXCEPT !.pc = "push", !.current = epoch]
    BY <1>2 DEF Accept, At
  <2>2. /\ worker'.pc = "push" /\ worker'.session = worker.session /\ worker'.tx = worker.tx
        /\ worker'.rx = worker.rx /\ worker'.current = epoch
    BY <1>1, <2>1 DEF WorkerType
  <2>3. PhaseInv'
    BY <2>1, <2>2 DEF StreamInv, PhaseInv, otherTasks, Streaming
  <2>4. SessionInv'
    BY <2>1, <2>2 DEF StreamInv, SessionInv, otherTasks, Requesting
  <2>5. CreditInv' /\ DecoderInv'
    BY <2>1, <2>2 DEF StreamInv, CreditInv, DecoderInv, PhaseInv, Streaming, Requesting
  <2> QED BY <2>3, <2>4, <2>5 DEF StreamInv
<1>3. CASE Push
  <2>1. /\ UNCHANGED otherTasks /\ UNCHANGED <<ready, codec>>
        /\ worker.pc = "push" /\ worker' = Done("top")
        /\ queue' = IF Accepted(worker.current) THEN Pushed(worker.rx) ELSE queue
    BY <1>3 DEF Push, At
  <2>2. worker'.pc = "top" /\ worker'.session = worker.session /\ worker'.rx = Foreign
    BY <1>1, <2>1 DEF Done, WorkerType
  <2>3. /\ worker.current = epoch /\ \A i \in DOMAIN queue : queue[i] = epoch
        /\ keeper \notin {"setup", "linked", "resume"} /\ ready
        /\ codec.reply.play => Len(queue) + 2 <= Queue
    BY <2>1 DEF StreamInv, SessionInv, PhaseInv, CreditInv, Streaming, Requesting
  <2>4. /\ Len(queue') \in Nat /\ Len(queue') <= Len(queue) + 1
        /\ \A i \in DOMAIN queue' : queue'[i] = epoch
    <3>1. CASE Accepted(worker.current) /\ worker.rx.play /\ Len(queue) < Queue
      <4>1. queue' = Append(queue, worker.rx.session)
        BY <2>1, <3>1 DEF Pushed
      <4>2. worker.rx.session = epoch
        BY <2>3, <3>1 DEF Accepted, SameEpoch
      <4>3. queue' = Append(queue, epoch)
        BY <4>1, <4>2
      <4> QED BY <1>1, <2>3, <4>3
    <3>2. CASE ~(Accepted(worker.current) /\ worker.rx.play /\ Len(queue) < Queue)
      <4>1. queue' = queue
        BY <2>1, <3>2 DEF Pushed
      <4> QED BY <1>1, <2>3, <4>1
    <3> QED BY <3>1, <3>2
  <2>5. PhaseInv'
    BY <2>1, <2>2, <2>3 DEF StreamInv, PhaseInv, otherTasks, Streaming
  <2>6. SessionInv'
    BY <2>1, <2>2, <2>4 DEF StreamInv, SessionInv, otherTasks, Requesting, Foreign
  <2>7. codec'.reply.play => Len(queue') + 1 <= Queue
    BY <1>1, <2>1, <2>3, <2>4
  <2>8. CreditInv' /\ DecoderInv'
    BY <2>1, <2>2, <2>3, <2>7 DEF StreamInv, CreditInv, DecoderInv, Requesting
  <2> QED BY <2>5, <2>6, <2>8 DEF StreamInv
<1> QED BY <1>2, <1>3

\* The inductive invariant of the codec link.
THEOREM LinkKept == Spec => []LinkInv
<1>1. Init => LinkInv
  <2> SUFFICES ASSUME Init PROVE LinkInv
    OBVIOUS
  <2>1. TypeInv
    <3>1. /\ queue \in Seq(Epochs) /\ Len(queue) <= Queue /\ ring \in Seq(Epochs)
          /\ Len(ring) <= MicQueue
      BY Sizes DEF Init
    <3>2. /\ worker \in WorkerType /\ codec \in CodecType /\ epoch \in Epochs
          /\ previous \in (Epochs \cup {None}) \X (0..Seqs-1) /\ worker.pc = "top"
      BY EmptyTypes DEF Init, FreshWorker
    <3> QED BY <3>1, <3>2 DEF Init, TypeInv, TypeOK, KeeperPlaces, WorkerType, CodecType
  <2>2. ParkInv
    BY DEF Init, FreshWorker, ParkInv, BarrierInv, KeeperInv, EmptyHands, Parking, paused
  <2>3. PhaseInv /\ SessionInv /\ CreditInv /\ DecoderInv
    BY Sizes DEF Init, FreshWorker, FreshCodec, PhaseInv, SessionInv, CreditInv, DecoderInv,
                 Streaming, Requesting, Foreign, None, Nothing
  <2> QED BY <2>1, <2>2, <2>3 DEF LinkInv
<1>2. LinkInv /\ [Next]_vars => LinkInv'
  <2> SUFFICES ASSUME LinkInv, [Next]_vars PROVE LinkInv'
    OBVIOUS
  <2>1. TypeInv /\ TypeOK /\ ParkInv /\ StreamInv
    BY DEF LinkInv, TypeInv, StreamInv
  <2>2. CASE UNCHANGED vars
    <3>1. TypeInv'
      BY <2>1, <2>2 DEF TypeInv, TypeOK, vars
    <3>2. ParkInv'
      BY <2>1, <2>2 DEF vars, ParkInv, BarrierInv, KeeperInv, EmptyHands, Parking, paused
    <3>3. StreamInv'
      BY <2>1, <2>2 DEF vars, StreamInv, PhaseInv, SessionInv, CreditInv, DecoderInv
    <3> QED BY <3>1, <3>2, <3>3 DEF LinkInv, StreamInv
  <2>3. CASE Next
    <3>1. TypeInv'
      BY <2>1, <2>3, KeeperTyped, WorkerStepsTyped, EnvironmentTyped DEF Next
    <3>2. ParkInv'
      BY <2>1, <2>3, KeeperSteps, BarrierSteps, LoopSteps, EnvironmentSteps DEF Next, Worker
    <3>3. StreamInv'
      BY <2>1, <2>3, KeeperStream, EnvironmentStream, RoundStream, HelloStream, GreetStream,
         ExchangeStream, ExchangeFailsStream, PushStream DEF Next, Worker
    <3> QED BY <3>1, <3>2, <3>3 DEF LinkInv, StreamInv
  <2> QED BY <2>2, <2>3
<1> QED BY <1>1, <1>2, PTL DEF Spec

\* pcm_stream.c, accept_response and ull_mic_stream_new_session: audio and
\* microphone packets stay in the radio session they were asked for and
\* received in.
THEOREM SessionsStayApart == Spec => []NothingOld
<1>1. LinkInv => NothingOld
  <2> SUFFICES ASSUME LinkInv PROVE NothingOld
    OBVIOUS
  <2>1. \A i \in DOMAIN queue : queue[i] = epoch
    BY DEF LinkInv, SessionInv
  <2>2. ASSUME At("push"), Accepted(worker.current), worker.rx.mic # None
        PROVE  worker.rx.mic = epoch
    BY <2>2 DEF LinkInv, SessionInv, At, Accepted, SameEpoch
  <2> QED BY <2>1, <2>2 DEF NothingOld
<1> QED BY <1>1, LinkKept, PTL

\* pcm_stream.c, the credit of run: an accepted answer finds room in the audio
\* source.
THEOREM AnswersFindRoom == Spec => []NoQueueDrop
<1>1. LinkInv => NoQueueDrop
  <2> SUFFICES ASSUME LinkInv PROVE NoQueueDrop
    OBVIOUS
  <2>1. TypeOK /\ Len(queue) \in Nat /\ Queue \in Nat
    BY Numbers DEF LinkInv, TypeInv
  <2>2. ASSUME worker.pc \in {"greet", "push"}, worker.rx.play, Accepted(worker.rx.session)
        PROVE  Len(queue) < Queue
    BY <2>1, <2>2 DEF LinkInv, CreditInv, Accepted
  <2> QED BY <2>1, <2>2 DEF NoQueueDrop
<1> QED BY <1>1, LinkKept, PTL

\* codec/src/main.c, decode_reset: no packet is decoded upon the history of
\* another session.
THEOREM DecoderStaysFresh == Spec => []DecoderFresh
<1>1. LinkInv => DecoderFresh
  BY DEF LinkInv, DecoderInv, DecoderFresh
<1> QED BY <1>1, LinkKept, PTL
==============================================================================
