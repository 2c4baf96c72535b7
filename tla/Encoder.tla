------------------------------- MODULE Encoder -------------------------------
(***************************************************************************)
(* One encoding chain of the server: the threads that push raw frames into *)
(* an Encoder (through Source<AVFrame>::forward), the encoder's drain      *)
(* thread, and main's shutdown of the chain.                               *)
(*                                                                         *)
(* Audio: one feeder, the ALSA grabber thread, and an OpusEncoder.         *)
(* Video: two feeders, the two FrameConverter threads, and an H264Encoder. *)
(* main never starts the feed thread of an encoder, so handle(frame) sends *)
(* the frame to the codec in the thread that calls it.                     *)
(*                                                                         *)
(* The codec is FFmpeg's (external): a FIFO that accepts frames with       *)
(* avcodec_send_frame, holds back the last Delay of them until it is told  *)
(* that the stream ended, and gives packets with avcodec_receive_packet.   *)
(* A call into the codec has an entry step and a return step, so that two  *)
(* threads inside it at once are visible; when that happens the model      *)
(* applies the two calls one after the other, in either order.             *)
(***************************************************************************)
EXTENDS Naturals, Sequences

CONSTANTS
  Feeders,   \* threads that call handle(frame), all through one Source<AVFrame>
  Drain,     \* the encoder's drain_thread
  Main,      \* the main thread
  None,      \* no packet, no lock owner
  Blank,     \* an AVPacket without data
  Capacity,  \* frames the codec takes before avcodec_send_frame says EAGAIN
  Delay,     \* frames the codec holds back while the stream is open
  PtsMod,    \* where the model wraps the int64 frame_id
  Faults     \* the external calls that may fail: "grab", "send", "receive"

ASSUME EncoderAssumption ==
  /\ Drain # Main
  /\ {Drain, Main} \cap Feeders = {}
  /\ None \notin Feeders \cup {Drain, Main}
  /\ Capacity \in Nat /\ Delay \in Nat /\ Delay < Capacity
  /\ PtsMod \in Nat /\ PtsMod > 0
  /\ None \notin Nat /\ Blank \notin Nat /\ None # Blank
  /\ Faults \subseteq {"grab", "send", "receive"}

Threads == Feeders \cup {Drain, Main}
Pts     == 0 .. PtsMod - 1

\* frame_id is advanced by one frame (of nb_samples samples for Opus).
NextPts(p) == (p + 1) % PtsMod

VARIABLES
  pc,                    \* where each thread is
  source_lock,           \* owner of the spinlock of the upstream Source<AVFrame>
  source_alive,          \* the capture device still gives frames
  stop_condition,        \* of the threads that feed the encoder
  encoder_lock,          \* owner of the encoder's spinlock
  initialized,
  frame_id,
  pts,                   \* the pts each feeder stamped on its frame
  ret,                   \* what each feeder's avcodec_send_frame returned
  codec,                 \* pts of the frames accepted and not yet received
  draining,              \* the codec was told that the stream ended
  drain_stop_condition,
  packet,                \* the AVPacket of the drain thread and of flush()
  out                    \* the last packet forwarded to the sinks (history)

vars == <<pc, source_lock, source_alive, stop_condition, encoder_lock,
          initialized, frame_id, pts, ret, codec, draining,
          drain_stop_condition, packet, out>>

codecVars == <<codec, draining>>
feedVars  == <<frame_id, pts, ret>>
stopVars  == <<stop_condition, drain_stop_condition, initialized>>

Goto(t, label) == pc' = [pc EXCEPT ![t] = label]

Init ==
  /\ pc = [t \in Threads |-> IF t = Drain THEN "loop"
                             ELSE IF t = Main THEN "run" ELSE "next"]
  /\ source_lock = None
  /\ source_alive = TRUE
  /\ stop_condition = FALSE
  /\ encoder_lock = None
  /\ initialized = TRUE
  /\ frame_id = 0
  /\ pts = [f \in Feeders |-> 0]
  /\ ret = [f \in Feeders |-> "ok"]
  /\ codec = <<>>
  /\ draining = FALSE
  /\ drain_stop_condition = FALSE
  /\ packet = [t \in {Drain, Main} |-> None]
  /\ out = None

-----------------------------------------------------------------------------
(* The codec.                                                              *)

\* What avcodec_send_frame(frame) may return.
SendOutcomes ==
  (IF draining THEN {"eof"}
   ELSE IF Len(codec) = Capacity THEN {"eagain"} ELSE {"ok"})
    \cup (IF "send" \in Faults THEN {"error"} ELSE {})

\* A packet can be received.
Ready == codec # <<>> /\ (draining \/ Len(codec) > Delay)

\* What avcodec_receive_packet may return.
ReceiveOutcomes ==
  (IF Ready THEN {"packet"} ELSE IF draining THEN {"eof"} ELSE {"eagain"})
    \cup (IF "receive" \in Faults THEN {"error"} ELSE {})

\* Thread t receives the oldest packet.
TakePacket(t) ==
  /\ packet' = [packet EXCEPT ![t] = Head(codec)]
  /\ codec' = Tail(codec)

-----------------------------------------------------------------------------
(* A feeder: the loop of Grabber::run or FrameConverter::run, reduced to   *)
(* what it does to the encoder. For audio a frame is one that comes out of *)
(* the FIFO of OpusEncoder (see AudioFifo); a block that only fills it is  *)
(* a step that changes nothing here.                                       *)

\* The capture device fails; from then on there are no more frames.
SourceDies ==
  /\ "grab" \in Faults
  /\ source_alive
  /\ source_alive' = FALSE
  /\ UNCHANGED <<pc, source_lock, stopVars, encoder_lock, feedVars, codecVars,
                 packet, out>>

\* The loop is entered once more, and a frame has come.
NextFrame(f) ==
  /\ pc[f] = "next"
  /\ ~stop_condition
  /\ source_alive
  /\ Goto(f, "forward")
  /\ UNCHANGED <<source_lock, source_alive, stopVars, encoder_lock, feedVars,
                 codecVars, packet, out>>

FeederStops(f) ==
  /\ pc[f] = "next"
  /\ stop_condition
  /\ Goto(f, "done")
  /\ UNCHANGED <<source_lock, source_alive, stopVars, encoder_lock, feedVars,
                 codecVars, packet, out>>

\* Mutant: forward without the lock.
ForwardUnlocked(f) ==
  /\ pc[f] = "forward"
  /\ source_lock' = f
  /\ Goto(f, "handle")
  /\ UNCHANGED <<source_alive, stopVars, encoder_lock, feedVars, codecVars,
                 packet, out>>

\* Source<AVFrame>::forward takes the lock of the source...
Forward(f) ==
  /\ pc[f] = "forward"
  /\ source_lock = None
  /\ source_lock' = f
  /\ Goto(f, "handle")
  /\ UNCHANGED <<source_alive, stopVars, encoder_lock, feedVars, codecVars,
                 packet, out>>

\* ... and calls handle(frame), which stamps the frame if the encoder is
\* initialized and does nothing otherwise.
Handle(f) ==
  /\ pc[f] = "handle"
  /\ \/ /\ initialized
        /\ pts' = [pts EXCEPT ![f] = frame_id]
        /\ Goto(f, "send")
        /\ UNCHANGED source_lock
     \/ /\ ~initialized
        /\ Goto(f, "next")
        /\ source_lock' = None
        /\ UNCHANGED pts
  /\ UNCHANGED <<source_alive, stopVars, encoder_lock, frame_id, ret,
                 codecVars, packet, out>>

\* feedImpl takes encoder_lock and enters avcodec_send_frame...
EnterSend(f) ==
  /\ pc[f] = "send"
  /\ encoder_lock = None
  /\ encoder_lock' = f
  /\ Goto(f, "sending")
  /\ UNCHANGED <<source_lock, source_alive, stopVars, feedVars, codecVars,
                 packet, out>>

\* ... which returns, and unlocks.
SendFrame(f) ==
  /\ pc[f] = "sending"
  /\ \E r \in SendOutcomes :
       /\ ret' = [ret EXCEPT ![f] = r]
       /\ codec' = IF r = "ok" THEN Append(codec, pts[f]) ELSE codec
  /\ encoder_lock' = None
  /\ Goto(f, "sent")
  /\ UNCHANGED <<source_lock, source_alive, stopVars, frame_id, pts, draining,
                 packet, out>>

\* Mutant: nobody is notified.
NotNotified == pc

\* encoder_cv.notify_all() wakes the drain thread if it sleeps by now.
Notified == IF pc[Drain] = "waiting" THEN [pc EXCEPT ![Drain] = "pred"] ELSE pc

\* The end of feedImpl. A frame that was taken advances frame_id, a frame that
\* was refused is dropped, and any other return value is thrown: the exception
\* leaves forward without unlocking the source and ends the thread. What the feeder
\* knew of the frame is gone.
AfterSend(f) ==
  /\ pc[f] = "sent"
  /\ pts' = [pts EXCEPT ![f] = 0] /\ ret' = [ret EXCEPT ![f] = "ok"]
  /\ \/ /\ ret[f] = "ok"
        /\ frame_id' = NextPts(frame_id)
        /\ source_lock' = None
        /\ pc' = [Notified EXCEPT ![f] = "next"]
     \/ /\ ret[f] = "eagain"
        /\ source_lock' = None
        /\ pc' = [Notified EXCEPT ![f] = "next"]
        /\ UNCHANGED frame_id
     \/ /\ ret[f] \in {"eof", "error"}
        /\ pc' = [Notified EXCEPT ![f] = "done"]
        /\ UNCHANGED <<frame_id, source_lock>>
  /\ UNCHANGED <<source_alive, stopVars, encoder_lock, codecVars,
                 packet, out>>

-----------------------------------------------------------------------------
(* The drain thread: Encoder::runDrain.                                    *)

DrainUnchanged == UNCHANGED <<source_lock, source_alive, stopVars, feedVars,
                              draining>>

\* while (!drain_stop_condition)
DrainLoop ==
  /\ pc[Drain] = "loop"
  /\ Goto(Drain, IF drain_stop_condition THEN "done" ELSE "try")
  /\ UNCHANGED <<encoder_lock, codec, packet, out>>
  /\ DrainUnchanged

\* Mutant: the predicate of the wait does not take the lock.
EnterReceiveUnlocked ==
  /\ encoder_lock = None \/ pc[Drain] = "pred"
  /\ encoder_lock' = Drain
  /\ \/ pc[Drain] = "try"  /\ Goto(Drain, "trying")
     \/ pc[Drain] = "pred" /\ Goto(Drain, "predicate")
  /\ UNCHANGED <<codec, packet, out>>
  /\ DrainUnchanged

\* Takes encoder_lock and enters avcodec_receive_packet: "try" is the call at
\* the head of the loop, "pred" the one in the predicate of encoder_cv.wait.
EnterReceive ==
  /\ encoder_lock = None
  /\ encoder_lock' = Drain
  /\ \/ pc[Drain] = "try"  /\ Goto(Drain, "trying")
     \/ pc[Drain] = "pred" /\ Goto(Drain, "predicate")
  /\ UNCHANGED <<codec, packet, out>>
  /\ DrainUnchanged

\* The call returns, and unlocks. EAGAIN leads from the head of the loop to the
\* predicate, and from the predicate to sleep: the mutex that wait releases is
\* the thread's own, so nothing stops a notification between the two.
ReceivePacket ==
  /\ pc[Drain] \in {"trying", "predicate"}
  /\ encoder_lock' = None
  /\ \E r \in ReceiveOutcomes :
       \/ /\ r = "packet"
          /\ TakePacket(Drain)
          /\ Goto(Drain, "forward")
       \/ /\ r = "eagain"
          /\ Goto(Drain, IF pc[Drain] = "trying" THEN "pred" ELSE "fallasleep")
          /\ UNCHANGED <<codec, packet>>
       \/ /\ r \in {"eof", "error"}       \* thrown, and caught in runDrain
          /\ Goto(Drain, "done")
          /\ UNCHANGED <<codec, packet>>
  /\ UNCHANGED out
  /\ DrainUnchanged

FallAsleep ==
  /\ pc[Drain] = "fallasleep"
  /\ Goto(Drain, "waiting")
  /\ UNCHANGED <<encoder_lock, codec, packet, out>>
  /\ DrainUnchanged

\* A condition variable may wake up by itself.
SpuriousWakeup ==
  /\ pc[Drain] = "waiting"
  /\ Goto(Drain, "pred")
  /\ UNCHANGED <<encoder_lock, codec, packet, out>>
  /\ DrainUnchanged

\* Source<AVPacket>::forward gives a clone to every sink.
ForwardPacket ==
  /\ pc[Drain] = "forward"
  /\ out' = packet[Drain]
  /\ packet' = [packet EXCEPT ![Drain] = None]
  /\ Goto(Drain, "loop")
  /\ UNCHANGED <<encoder_lock, codec>>
  /\ DrainUnchanged

-----------------------------------------------------------------------------
(* The main thread: Encoder::stop and then the stop of the feeders.        *)

MainUnchanged == UNCHANGED <<source_lock, source_alive, encoder_lock, feedVars>>

\* stopFeed has no thread to stop; stopDrain raises the flag and joins.
StopDrain ==
  /\ pc[Main] = "run"
  /\ drain_stop_condition' = TRUE
  /\ Goto(Main, "join")
  /\ UNCHANGED <<stop_condition, initialized, codecVars, packet, out>>
  /\ MainUnchanged

\* The drain thread ended; flush enters avcodec_send_frame(codec_ctx, nullptr)
\* without taking encoder_lock.
JoinDrain ==
  /\ pc[Main] = "join"
  /\ pc[Drain] = "done"
  /\ Goto(Main, "flushing")
  /\ UNCHANGED <<stopVars, codecVars, packet, out>>
  /\ MainUnchanged

\* It returns. A full codec says EAGAIN and does not note the end of the stream,
\* but the loop of flush is entered all the same.
SendEndOfStream ==
  /\ pc[Main] = "flushing"
  /\ \E r \in SendOutcomes :
       /\ draining' = (draining \/ r = "ok")
       /\ Goto(Main, IF r \in {"ok", "eagain"} THEN "receiving" ELSE "flushed")
  /\ UNCHANGED <<stopVars, codec, packet, out>>
  /\ MainUnchanged

\* The call of avcodec_receive_packet in flush returns. AVERROR_EOF is not
\* thrown: the iteration goes on with the packet as the codec left it, blank.
FlushReceive ==
  /\ pc[Main] = "receiving"
  /\ \E r \in ReceiveOutcomes :
       \/ /\ r = "packet"
          /\ TakePacket(Main)
          /\ Goto(Main, "flushforward")
       \/ /\ r = "eof"
          /\ packet' = [packet EXCEPT ![Main] = Blank]
          /\ Goto(Main, "flushforward")
          /\ UNCHANGED codec
       \/ /\ r \in {"eagain", "error"}    \* thrown, and caught in flush
          /\ Goto(Main, "flushed")
          /\ UNCHANGED <<codec, packet>>
  /\ UNCHANGED <<stopVars, draining, out>>
  /\ MainUnchanged

FlushForward ==
  /\ pc[Main] = "flushforward"
  /\ out' = packet[Main]
  /\ packet' = [packet EXCEPT ![Main] = None]
  /\ Goto(Main, IF packet[Main] = Blank THEN "flushed" ELSE "receiving")
  /\ UNCHANGED <<stopVars, codecVars>>
  /\ MainUnchanged

\* The end of flush, and of Encoder::stop.
EndFlush ==
  /\ pc[Main] = "flushed"
  /\ initialized' = FALSE
  /\ Goto(Main, "stopsource")
  /\ UNCHANGED <<stop_condition, drain_stop_condition, codecVars, packet, out>>
  /\ MainUnchanged

\* Mutant: joins without raising the flag.
StopSourceUnflagged ==
  /\ pc[Main] = "stopsource"
  /\ Goto(Main, "joinsource")
  /\ UNCHANGED <<stopVars, codecVars, packet, out>>
  /\ MainUnchanged

\* video_converter.stop() or audio_source.stop(): raises the flag...
StopSource ==
  /\ pc[Main] = "stopsource"
  /\ stop_condition' = TRUE
  /\ Goto(Main, "joinsource")
  /\ UNCHANGED <<drain_stop_condition, initialized, codecVars, packet, out>>
  /\ MainUnchanged

\* ... and joins every thread.
JoinSource ==
  /\ pc[Main] = "joinsource"
  /\ \A f \in Feeders : pc[f] = "done"
  /\ Goto(Main, "done")
  /\ UNCHANGED <<stopVars, codecVars, packet, out>>
  /\ MainUnchanged

-----------------------------------------------------------------------------
FeederStep(f) ==
  \/ NextFrame(f) \/ FeederStops(f) \/ Forward(f) \/ Handle(f)
  \/ EnterSend(f) \/ SendFrame(f) \/ AfterSend(f)

DrainStep ==
  DrainLoop \/ EnterReceive \/ ReceivePacket \/ FallAsleep \/ ForwardPacket

ShutdownStep ==
  \/ JoinDrain \/ SendEndOfStream \/ FlushReceive \/ FlushForward \/ EndFlush
  \/ StopSource \/ JoinSource

\* The program has ended.
Ended == pc[Main] = "done" /\ UNCHANGED vars

Next ==
  \/ \E f \in Feeders : FeederStep(f)
  \/ SourceDies
  \/ DrainStep
  \/ SpuriousWakeup
  \/ StopDrain
  \/ ShutdownStep
  \/ Ended

Spec == Init /\ [][Next]_vars

(***************************************************************************)
(* Every thread is scheduled. The spinlocks are not fair, but a feeder     *)
(* holds one for microseconds of a frame period, so a thread that keeps    *)
(* finding a lock free from time to time is taken to get it: strong        *)
(* fairness for the two steps that take a lock. In the same way an         *)
(* iteration of the loop of flush is shorter than a frame period, so that  *)
(* flush cannot always find that one more frame came since its last call   *)
(* (it could otherwise go on for ever, when the codec was too full to take *)
(* the end of the stream; the two last conjuncts say this for a codec with *)
(* Capacity = Delay + 1, which one call makes not Ready). Frames keep      *)
(* coming while the capture device is alive. Nothing makes the user stop   *)
(* the server or a condition variable wake up by itself.                   *)
(***************************************************************************)
Fairness ==
  /\ \A f \in Feeders : /\ WF_vars(FeederStep(f))
                        /\ SF_vars(Forward(f))
                        /\ SF_vars(EnterSend(f))
  /\ WF_vars(DrainStep)
  /\ SF_vars(EnterReceive)
  /\ WF_vars(ShutdownStep)
  /\ SF_vars(FlushForward /\ ~Ready)
  /\ SF_vars(FlushReceive /\ ~Ready)

FairSpec == Spec /\ Fairness

-----------------------------------------------------------------------------
(* Properties.                                                             *)

FeederLabels == {"next", "forward", "handle", "send", "sending", "sent", "done"}
DrainLabels  == {"loop", "try", "trying", "pred", "predicate", "fallasleep",
                 "waiting", "forward", "done"}
MainLabels   == {"run", "join", "flushing", "receiving", "flushforward",
                 "flushed", "stopsource", "joinsource", "done"}

\* Type invariant.
TypeOK ==
  /\ pc \in [Threads -> FeederLabels \cup DrainLabels \cup MainLabels]
  /\ \A f \in Feeders : pc[f] \in FeederLabels
  /\ pc[Drain] \in DrainLabels
  /\ pc[Main] \in MainLabels
  /\ source_lock \in Feeders \cup {None}
  /\ encoder_lock \in Feeders \cup {Drain, None}
  /\ source_alive \in BOOLEAN /\ stop_condition \in BOOLEAN
  /\ initialized \in BOOLEAN /\ draining \in BOOLEAN
  /\ drain_stop_condition \in BOOLEAN
  /\ frame_id \in Pts
  /\ pts \in [Feeders -> Pts]
  /\ ret \in [Feeders -> {"ok", "eagain", "eof", "error"}]
  /\ codec \in Seq(Pts)
  /\ packet \in [{Drain, Main} -> Pts \cup {None, Blank}]
  /\ out \in Pts \cup {None, Blank}

\* The pts the sinks must see next.
NextOut == IF out = None THEN 0 ELSE NextPts(out)

\* The sinks see every accepted frame, once, in the order of the pts, with no
\* gap where a frame was refused by a full codec, whatever the interleaving of
\* the feeders, the drain thread and flush; the blank packet of flush is the
\* last thing they see, and comes when the codec has nothing left
\* (Encoder::runDrain, Encoder::flush, feedImpl).
InOrder ==
  [][out' # out => /\ out # Blank /\ out' \in {NextOut, Blank}
                   /\ out' = Blank => codec' = <<>>]_vars

\* The thread is inside a call of avcodec_* on codec_ctx.
InCodec(t) == pc[t] \in {"sending", "trying", "predicate", "flushing", "receiving"}

\* encoder_lock keeps feeders and drain thread out of the codec while one of them
\* is inside. Two threads are inside it at once only when main's flush, which
\* does not take the lock, meets a feeder that nobody has stopped yet.
OnlyFlushIntrudes ==
  \A t, u \in Threads :
    t # u /\ InCodec(t) /\ InCodec(u) => Main \in {t, u} /\ {t, u} \ {Main} \subseteq Feeders

\* A feeder threw out of Source::forward: the lock is never given back.
LockLeaked == source_lock \in Feeders /\ pc[source_lock] = "done"

\* No feeder will send a frame any more.
NoMoreFrames ==
  \A f \in Feeders : \/ pc[f] = "done"
                     \/ pc[f] = "next" /\ ~source_alive
                     \/ pc[f] = "forward" /\ LockLeaked

\* A packet that can be received reaches the sinks, although a notification may
\* come before the drain thread sleeps: the next frame wakes it again. Only the end
\* of the frames or of the drain thread prevents that.
PacketsDelivered ==
  \A p \in Pts :
    Ready /\ Head(codec) = p ~> out = p \/ pc[Drain] = "done" \/ NoMoreFrames

\* Another feeder spins on that lock.
SpinsForEver == LockLeaked /\ \E f \in Feeders : pc[f] = "forward"

\* The drain thread sleeps, and nothing wakes it.
SleepsForEver == pc[Drain] = "waiting" /\ NoMoreFrames

\* The shutdown of the chain (Encoder::stop and the stop of its feeders in main)
\* hangs for two reasons only, which need an exception or a dead capture device: a
\* feeder spins on a lock that was left behind, or the drain thread sleeps.
ShutdownHangsOnly ==
  pc[Main] = "join" ~> pc[Main] = "done" \/ SpinsForEver \/ SleepsForEver

\* Once main stops the encoder, the shutdown of the chain comes to its end.
ShutdownCompletes == pc[Main] = "join" ~> pc[Main] = "done"
=============================================================================
