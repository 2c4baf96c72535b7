--------------------------- MODULE FrameConverter ---------------------------
(***************************************************************************)
(* The frame converter between the X11 grabber and the H264 encoder: a     *)
(* bounded queue, filled by the grabber thread, and a pool of threads that *)
(* take frames from it, convert them at their own pace and forward them to *)
(* the encoder under the lock of the converter's Source<AVFrame>.          *)
(*                                                                         *)
(* The queue is moodycamel's BlockingConcurrentQueue (external). With one  *)
(* producer it is a FIFO; several threads take from it. Frames are         *)
(* numbered in the order of their capture.                                 *)
(***************************************************************************)
EXTENDS Naturals, Sequences, SequencesExt

CONSTANTS
  Workers,     \* the threads of the pool; main asks for two
  None,        \* no lock owner
  Capacity,    \* frames the queue takes
  MaxFrames,   \* bound on the frames captured
  Faults       \* "convert": no buffer for the result, "sink": handle throws

ASSUME FrameConverterAssumption ==
  /\ IsFiniteSet(Workers) /\ None \notin Workers
  /\ Capacity \in Nat \ {0} /\ MaxFrames \in Nat
  /\ Faults \subseteq {"convert", "sink"}

Frames == 1 .. MaxFrames

VARIABLES
  captured,        \* number of the last frame captured
  queue,
  pc,              \* where each thread is
  frame_in,        \* the frame each thread works on, 0 for none
  lock,            \* of the Source<AVFrame>
  stop_condition,
  stopped,         \* stop() has joined all the threads
  delivered,       \* frames the encoder got, in its order (history)
  lost             \* frames freed because of a full queue or a failure (history)

vars == <<captured, queue, pc, frame_in, lock, stop_condition, stopped,
          delivered, lost>>

Init ==
  /\ captured = 0
  /\ queue = <<>>
  /\ pc = [w \in Workers |-> "loop"]
  /\ frame_in = [w \in Workers |-> 0]
  /\ lock = None
  /\ stop_condition = FALSE
  /\ stopped = FALSE
  /\ delivered = <<>>
  /\ lost = {}

\* Mutant: the oldest frame makes room, but the newest is freed.
HandleDroppingOldest ==
  /\ captured < MaxFrames
  /\ captured' = captured + 1
  /\ \/ /\ Len(queue) < Capacity
        /\ queue' = Append(queue, captured + 1)
        /\ UNCHANGED lost
     \/ /\ Len(queue) = Capacity
        /\ queue' = Append(Tail(queue), captured + 1)
        /\ lost' = lost \cup {captured + 1}
  /\ UNCHANGED <<pc, frame_in, lock, stop_condition, stopped, delivered>>

\* Mutant: the queue grows.
HandleGrowing ==
  /\ captured < MaxFrames
  /\ captured' = captured + 1
  /\ queue' = Append(queue, captured + 1)
  /\ UNCHANGED <<pc, frame_in, lock, stop_condition, stopped, delivered, lost>>

\* handle, in the grabber thread: try_enqueue the frame, or free it.
Handle ==
  /\ captured < MaxFrames
  /\ captured' = captured + 1
  /\ \/ /\ Len(queue) < Capacity
        /\ queue' = Append(queue, captured + 1)
        /\ UNCHANGED lost
     \/ /\ Len(queue) = Capacity
        /\ lost' = lost \cup {captured + 1}
        /\ UNCHANGED queue
  /\ UNCHANGED <<pc, frame_in, lock, stop_condition, stopped, delivered>>

-----------------------------------------------------------------------------
(* A thread of the pool: run.                                              *)

PoolUnchanged == UNCHANGED <<captured, stop_condition, stopped>>

\* Mutant: the flag is not looked at.
LoopForever(w) ==
  /\ pc[w] = "loop"
  /\ pc' = [pc EXCEPT ![w] = "wait"]
  /\ UNCHANGED <<queue, frame_in, lock, delivered, lost>>
  /\ PoolUnchanged

\* while (!stop_condition)
Loop(w) ==
  /\ pc[w] = "loop"
  /\ pc' = [pc EXCEPT ![w] = IF stop_condition THEN "done" ELSE "wait"]
  /\ UNCHANGED <<queue, frame_in, lock, delivered, lost>>
  /\ PoolUnchanged

\* Mutant: the newest frame is taken.
DequeueNewest(w) ==
  /\ pc[w] = "wait"
  /\ queue # <<>>
  /\ frame_in' = [frame_in EXCEPT ![w] = Last(queue)]
  /\ queue' = Front(queue)
  /\ pc' = [pc EXCEPT ![w] = "convert"]
  /\ UNCHANGED <<lock, delivered, lost>>
  /\ PoolUnchanged

\* wait_dequeue_timed gives a frame...
Dequeue(w) ==
  /\ pc[w] = "wait"
  /\ queue # <<>>
  /\ frame_in' = [frame_in EXCEPT ![w] = Head(queue)]
  /\ queue' = Tail(queue)
  /\ pc' = [pc EXCEPT ![w] = "convert"]
  /\ UNCHANGED <<lock, delivered, lost>>
  /\ PoolUnchanged

\* ... or none came within 100 ms.
Timeout(w) ==
  /\ pc[w] = "wait"
  /\ queue = <<>>
  /\ pc' = [pc EXCEPT ![w] = "loop"]
  /\ UNCHANGED <<queue, frame_in, lock, delivered, lost>>
  /\ PoolUnchanged

Convert(w) ==
  /\ pc[w] = "convert"
  /\ pc' = [pc EXCEPT ![w] = "forward"]
  /\ UNCHANGED <<queue, frame_in, lock, delivered, lost>>
  /\ PoolUnchanged

\* av_frame_get_buffer fails: the exception ends the thread.
ConvertFails(w) ==
  /\ "convert" \in Faults
  /\ pc[w] = "convert"
  /\ lost' = lost \cup {frame_in[w]}
  /\ frame_in' = [frame_in EXCEPT ![w] = 0]
  /\ pc' = [pc EXCEPT ![w] = "done"]
  /\ UNCHANGED <<queue, lock, delivered>>
  /\ PoolUnchanged

\* forward takes the lock and calls handle of the encoder...
Forward(w) ==
  /\ pc[w] = "forward"
  /\ lock = None
  /\ lock' = w
  /\ pc' = [pc EXCEPT ![w] = "handle"]
  /\ UNCHANGED <<queue, frame_in, delivered, lost>>
  /\ PoolUnchanged

\* Mutant: the lock is not given back.
DeliverLocked(w) ==
  /\ pc[w] = "handle"
  /\ delivered' = Append(delivered, frame_in[w])
  /\ frame_in' = [frame_in EXCEPT ![w] = 0]
  /\ pc' = [pc EXCEPT ![w] = "loop"]
  /\ UNCHANGED <<queue, lock, lost>>
  /\ PoolUnchanged

\* ... which takes the frame.
Deliver(w) ==
  /\ pc[w] = "handle"
  /\ delivered' = Append(delivered, frame_in[w])
  /\ frame_in' = [frame_in EXCEPT ![w] = 0]
  /\ lock' = None
  /\ pc' = [pc EXCEPT ![w] = "loop"]
  /\ UNCHANGED <<queue, lost>>
  /\ PoolUnchanged

\* Or it throws: the thread ends, and the lock is never given back.
SinkThrows(w) ==
  /\ "sink" \in Faults
  /\ pc[w] = "handle"
  /\ lost' = lost \cup {frame_in[w]}
  /\ frame_in' = [frame_in EXCEPT ![w] = 0]
  /\ pc' = [pc EXCEPT ![w] = "done"]
  /\ UNCHANGED <<queue, lock, delivered>>
  /\ PoolUnchanged

WorkerStep(w) ==
  Loop(w) \/ Dequeue(w) \/ Timeout(w) \/ Convert(w) \/ Forward(w) \/ Deliver(w)

-----------------------------------------------------------------------------
(* stop, in the main thread.                                               *)

Stop ==
  /\ ~stop_condition
  /\ stop_condition' = TRUE
  /\ UNCHANGED <<captured, queue, pc, frame_in, lock, stopped, delivered, lost>>

\* Mutant: one thread is joined, not all.
JoinOne ==
  /\ stop_condition /\ ~stopped
  /\ \E w \in Workers : pc[w] = "done"
  /\ stopped' = TRUE
  /\ UNCHANGED <<captured, queue, pc, frame_in, lock, stop_condition, delivered,
                 lost>>

Join ==
  /\ stop_condition /\ ~stopped
  /\ \A w \in Workers : pc[w] = "done"
  /\ stopped' = TRUE
  /\ UNCHANGED <<captured, queue, pc, frame_in, lock, stop_condition, delivered,
                 lost>>

Next ==
  \/ Handle
  \/ \E w \in Workers : WorkerStep(w) \/ ConvertFails(w) \/ SinkThrows(w)
  \/ Stop
  \/ Join

Spec == Init /\ [][Next]_vars

\* The threads are scheduled, and a thread that finds the spinlock free again
\* and again gets it. Nothing makes the grabber capture or main stop.
Fairness ==
  /\ \A w \in Workers : WF_vars(WorkerStep(w)) /\ SF_vars(Forward(w))
  /\ WF_vars(Join)

FairSpec == Spec /\ Fairness

-----------------------------------------------------------------------------
(* Properties.                                                             *)

\* Type invariant.
TypeOK ==
  /\ captured \in 0 .. MaxFrames
  /\ queue \in Seq(Frames) /\ Len(queue) <= Capacity
  /\ pc \in [Workers -> {"loop", "wait", "convert", "forward", "handle", "done"}]
  /\ frame_in \in [Workers -> 0 .. MaxFrames]
  /\ lock \in Workers \cup {None}
  /\ stop_condition \in BOOLEAN /\ stopped \in BOOLEAN
  /\ delivered \in Seq(Frames)
  /\ lost \subseteq Frames

InHand == {frame_in[w] : w \in Workers} \ {0}

\* A frame is delivered once, and no frame disappears unless it was freed:
\* the queue, the threads, the encoder and the freed ones share all the frames.
OneFate ==
  /\ IsInjective(delivered) /\ IsInjective(queue)
  /\ LET fates == <<ToSet(delivered), InHand, ToSet(queue), lost>>
     IN /\ UNION Range(fates) = 1 .. captured
        /\ \A i, j \in 1 .. 4 : i # j => fates[i] \cap fates[j] = {}

\* The encoder stamps the frames in the order it gets them, so frames may swap
\* places on their way through the pool. But whatever the pace of the threads,
\* no more frames are ever late than there are other threads, and all of them are
\* in the hands of a thread.
BoundedOvertaking ==
  \A d \in ToSet(delivered) :
    LET late == {f \in InHand \cup ToSet(queue) : f < d}
    IN late \subseteq InHand /\ Cardinality(late) < Cardinality(Workers)

\* After stop() nothing more reaches the encoder: its context may be freed.
QuietAfterStop == [][stopped => UNCHANGED delivered]_vars

\* A sink threw in one of the threads: the lock of the source is never given back.
LockLeaked == lock \in Workers /\ pc[lock] = "done"

\* Every thread has ended: nobody is left to take a frame from the queue.
PoolDead == \A w \in Workers : pc[w] = "done"

\* A frame that was queued reaches the encoder, unless it is freed for want of
\* memory, the converter is stopped, or exceptions ended the delivery. One exception
\* out of the sink is enough for that, since it leaves the lock behind; a conversion
\* that fails ends its own thread only, and the others deliver what is queued.
QueuedDelivered ==
  \A f \in Frames :
    f \in ToSet(queue)
      ~> f \in ToSet(delivered) \cup lost \/ stop_condition \/ LockLeaked
         \/ PoolDead

\* stop() returns, unless a sink threw in one thread and another one spins on
\* the lock that was left behind.
StopCompletes ==
  stop_condition
    ~> stopped \/ (LockLeaked /\ \E w \in Workers : pc[w] = "forward")
=============================================================================
