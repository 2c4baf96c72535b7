------------------------ MODULE FrameConverterProofs ------------------------
(***************************************************************************)
(* Theorems about FrameConverter, for any pool of threads, queue capacity, *)
(* number of frames and failures: its types, that every frame has one      *)
(* fate, how far frames may overtake each other, and that nothing comes    *)
(* after stop().                                                           *)
(***************************************************************************)
EXTENDS FrameConverter, TLAPS, FiniteSetTheorems

\* A thread has a frame from the moment it takes it to its end.
Working == \A w \in Workers : pc[w] \in {"convert", "forward", "handle"} <=> frame_in[w] # 0

\* No two threads have the same frame.
OneOwner == \A v, w \in Workers : frame_in[v] = frame_in[w] /\ frame_in[v] # 0 => v = w

\* The queue is in the order of capture, and what is in it is newer than what was
\* taken from it.
Queued ==
  /\ \A i, j \in DOMAIN queue : i < j => queue[i] < queue[j]
  /\ \A i \in DOMAIN queue : /\ \A w \in Workers : frame_in[w] < queue[i]
                             /\ \A d \in ToSet(delivered) : d < queue[i]

\* Once a frame was delivered, there is a thread with no older one in its hands: the
\* one that delivered it, for it takes only newer ones.
Passed ==
  \A d \in ToSet(delivered) : \E w \in Workers : frame_in[w] = 0 \/ d < frame_in[w]

Joined == stopped => \A w \in Workers : pc[w] = "done"

\* OneFate, without injectivity of the queue, which Queued has.
Parted ==
  /\ IsInjective(delivered)
  /\ ToSet(delivered) \cup InHand \cup ToSet(queue) \cup lost = 1 .. captured
  /\ ToSet(delivered) \cap InHand = {}
  /\ lost \cap (ToSet(delivered) \cup InHand \cup ToSet(queue)) = {}

IInv == TypeOK /\ Working /\ OneOwner /\ Queued /\ Passed /\ Joined /\ Parted

-----------------------------------------------------------------------------
\* What a queue holds after an element was appended...
LEMMA AppendSet ==
  ASSUME NEW S, NEW q \in Seq(S), NEW e \in S
  PROVE  ToSet(Append(q, e)) = ToSet(q) \cup {e}
<1>1. /\ DOMAIN q = 1 .. Len(q) /\ DOMAIN Append(q, e) = 1 .. Len(q) + 1
      /\ \A i \in 1 .. Len(q) : Append(q, e)[i] = q[i]
      /\ Append(q, e)[Len(q) + 1] = e /\ Len(q) \in Nat
  OBVIOUS
<1> QED BY <1>1 DEF ToSet

\* ... and before its head was taken.
LEMMA TailSet ==
  ASSUME NEW S, NEW q \in Seq(S), q # <<>>
  PROVE  ToSet(q) = {Head(q)} \cup ToSet(Tail(q))
<1>1. /\ DOMAIN q = 1 .. Len(q) /\ DOMAIN Tail(q) = 1 .. Len(q) - 1
      /\ \A i \in 1 .. Len(q) - 1 : Tail(q)[i] = q[i + 1]
      /\ Head(q) = q[1] /\ Len(q) \in Nat \ {0}
  OBVIOUS
<1>2. ASSUME NEW i \in 1 .. Len(q) PROVE q[i] \in {Head(q)} \cup ToSet(Tail(q))
  <2>1. CASE i = 1
    BY <1>1, <2>1
  <2>2. CASE i # 1
    <3>1. i - 1 \in 1 .. Len(q) - 1 /\ Tail(q)[i - 1] = q[i]
      BY <1>1, <2>2
    <3> QED BY <1>1, <3>1 DEF ToSet
  <2> QED BY <2>1, <2>2
<1>3. ASSUME NEW i \in 1 .. Len(q) - 1 PROVE Tail(q)[i] \in ToSet(q)
  <2>1. i + 1 \in 1 .. Len(q)
    BY <1>1
  <2> QED BY <1>1, <2>1 DEF ToSet
<1> QED BY <1>1, <1>2, <1>3 DEF ToSet

-----------------------------------------------------------------------------
(* Every step keeps the invariant.                                         *)

\* The invariant holds at the beginning.
LEMMA InitIInv == Init => IInv
<1> SUFFICES ASSUME Init PROVE IInv
  OBVIOUS
<1> USE FrameConverterAssumption DEF Init
<1>1. TypeOK
  <2>1. queue \in Seq(Frames) /\ Len(queue) = 0 /\ delivered \in Seq(Frames)
    OBVIOUS
  <2>2. stop_condition \in BOOLEAN /\ stopped \in BOOLEAN
    OBVIOUS
  <2>3. /\ pc \in [Workers -> {"loop", "wait", "convert", "forward", "handle", "done"}]
        /\ frame_in \in [Workers -> 0 .. MaxFrames]
    OBVIOUS
  <2> QED BY <2>1, <2>2, <2>3 DEF TypeOK
<1>2. Working /\ OneOwner /\ Joined
  BY DEF Working, OneOwner, Joined
<1>3. ToSet(<<>>) = {} /\ InHand = {}
  BY DEF ToSet, InHand
<1>4. Queued /\ Passed /\ Parted
  BY <1>3 DEF Queued, Passed, Parted, IsInjective
<1> QED BY <1>1, <1>2, <1>4 DEF IInv

\* What steps of a thread that take and give no frame keep.
LEMMA PcOnly ==
  ASSUME IInv, NEW w \in Workers, TypeOK', PoolUnchanged,
         UNCHANGED <<queue, frame_in, delivered, lost>>, pc[w] # "done",
         \A v \in Workers \ {w} : pc'[v] = pc[v],
         pc[w] \in {"convert", "forward", "handle"}
           <=> pc'[w] \in {"convert", "forward", "handle"}
  PROVE  IInv'
<1>1. InHand' = InHand
  BY DEF InHand
<1>2. Working' /\ OneOwner' /\ Joined'
  BY DEF IInv, Working, OneOwner, Joined, PoolUnchanged
<1>3. Queued' /\ Passed' /\ Parted'
  BY <1>1 DEF IInv, Queued, Passed, Parted, PoolUnchanged
<1> QED BY <1>2, <1>3 DEF IInv

\* What is in the hands of the threads after one of them gave its frame away.
LEMMA HandGives ==
  ASSUME IInv, NEW w \in Workers, frame_in[w] # 0,
         frame_in' = [frame_in EXCEPT ![w] = 0]
  PROVE  /\ frame_in[w] \in Frames /\ frame_in[w] \in InHand
         /\ InHand' = InHand \ {frame_in[w]}
         /\ OneOwner'
<1>1. /\ frame_in \in [Workers -> 0 .. MaxFrames] /\ MaxFrames \in Nat
      /\ frame_in'[w] = 0 /\ \A v \in Workers \ {w} : frame_in'[v] = frame_in[v]
  BY FrameConverterAssumption DEF IInv, TypeOK
<1> QED BY <1>1 DEF IInv, OneOwner, InHand, Frames

\* A thread whose frame is freed: for want of a buffer, or since the encoder threw.
LEMMA LosePreserves ==
  ASSUME NEW w \in Workers, IInv, ConvertFails(w) \/ SinkThrows(w)
  PROVE  IInv'
<1> USE FrameConverterAssumption DEF PoolUnchanged
<1>1. /\ frame_in[w] # 0 /\ pc[w] \in {"convert", "handle"}
      /\ frame_in' = [frame_in EXCEPT ![w] = 0]
      /\ pc' = [pc EXCEPT ![w] = "done"]
      /\ lost' = lost \cup {frame_in[w]}
      /\ UNCHANGED <<captured, queue, lock, stop_condition, stopped, delivered>>
  BY DEF ConvertFails, SinkThrows, IInv, Working
<1>2. /\ frame_in[w] \in Frames /\ frame_in[w] \in InHand
      /\ InHand' = InHand \ {frame_in[w]} /\ OneOwner'
  BY <1>1, HandGives
<1>3. TypeOK' /\ Working' /\ Joined'
  BY <1>1, <1>2 DEF IInv, TypeOK, Working, Joined
<1>4. Queued'
  BY <1>1 DEF IInv, Queued, TypeOK, Frames
<1>5. Passed'
  BY <1>1 DEF IInv, Passed, TypeOK
<1>6. frame_in[w] \notin ToSet(delivered) \cup ToSet(queue)
  <2>1. \A i \in DOMAIN queue : frame_in[w] < queue[i] /\ queue[i] \in Nat
    BY DEF IInv, Queued, TypeOK, Frames
  <2>2. frame_in[w] \notin ToSet(queue)
    BY <1>2, <2>1 DEF ToSet, Frames
  <2> QED BY <1>2, <2>2 DEF IInv, Parted
<1>7. Parted'
  BY <1>1, <1>2, <1>6 DEF IInv, Parted
<1> QED BY <1>2, <1>3, <1>4, <1>5, <1>7 DEF IInv

\* A thread that takes the head of the queue becomes the owner of that frame alone.
LEMMA DequeuePreserves ==
  ASSUME NEW w \in Workers, IInv, Dequeue(w)
  PROVE  IInv'
<1> USE FrameConverterAssumption DEF PoolUnchanged
<1>1. /\ queue \in Seq(Frames) /\ queue # <<>> /\ Len(queue) \in Nat \ {0}
      /\ DOMAIN queue = 1 .. Len(queue) /\ DOMAIN Tail(queue) = 1 .. Len(queue) - 1
      /\ 1 \in DOMAIN queue /\ Head(queue) = queue[1] /\ Head(queue) \in Frames
      /\ Tail(queue) \in Seq(Frames) /\ Len(Tail(queue)) <= Capacity
      /\ \A i \in DOMAIN Tail(queue) :
           Tail(queue)[i] = queue[i + 1] /\ i + 1 \in DOMAIN queue /\ 1 < i + 1
      /\ \A i \in DOMAIN queue : queue[i] \in Nat /\ queue[i] # 0
  BY SMTT(30) DEF IInv, TypeOK, Dequeue, Frames
<1>2. /\ frame_in[w] = 0 /\ pc[w] = "wait"
      /\ frame_in' = [frame_in EXCEPT ![w] = Head(queue)]
      /\ frame_in'[w] = Head(queue)
      /\ \A v \in Workers \ {w} : frame_in'[v] = frame_in[v]
      /\ \A v \in Workers : frame_in[v] \in Nat
      /\ queue' = Tail(queue)
      /\ pc' = [pc EXCEPT ![w] = "convert"]
      /\ UNCHANGED <<captured, lock, stop_condition, stopped, delivered, lost>>
  <2>1. /\ pc[w] = "wait"
        /\ frame_in' = [frame_in EXCEPT ![w] = Head(queue)]
        /\ queue' = Tail(queue)
        /\ pc' = [pc EXCEPT ![w] = "convert"]
        /\ UNCHANGED <<captured, lock, stop_condition, stopped, delivered, lost>>
    BY DEF Dequeue
  <2>2. frame_in \in [Workers -> 0 .. MaxFrames]
    BY DEF IInv, TypeOK
  <2>3. frame_in[w] = 0
    BY <2>1 DEF IInv, Working
  <2>4. /\ frame_in'[w] = Head(queue)
        /\ \A v \in Workers \ {w} : frame_in'[v] = frame_in[v]
        /\ \A v \in Workers : frame_in[v] \in Nat
    BY <2>1, <2>2
  <2> QED BY <2>1, <2>3, <2>4
<1>3. TypeOK' /\ Working' /\ Joined'
  BY <1>1, <1>2 DEF IInv, TypeOK, Working, Joined, Frames
<1>4. \A v \in Workers : frame_in[v] < Head(queue)
  BY <1>1 DEF IInv, Queued
<1>5. OneOwner'
  BY <1>1, <1>2, <1>4 DEF IInv, OneOwner
<1>6. Queued'
  <2>1. ASSUME NEW i \in DOMAIN Tail(queue)
        PROVE  /\ \A v \in Workers : frame_in'[v] < Tail(queue)[i]
               /\ \A d \in ToSet(delivered) : d < Tail(queue)[i]
    BY <1>1, <1>2 DEF IInv, Queued
  <2>2. ASSUME NEW i \in DOMAIN Tail(queue), NEW j \in DOMAIN Tail(queue), i < j
        PROVE  Tail(queue)[i] < Tail(queue)[j]
    <3>1. i + 1 < j + 1 /\ i + 1 \in DOMAIN queue /\ j + 1 \in DOMAIN queue
      BY <1>1, <2>2
    <3> QED BY <1>1, <3>1 DEF IInv, Queued
  <2> QED BY <1>2, <2>1, <2>2 DEF Queued
<1>7. Passed'
  <2>1. \A d \in ToSet(delivered) : d < Head(queue)
    BY <1>1 DEF IInv, Queued
  <2> QED BY <1>2, <2>1 DEF Passed
<1>8. Parted'
  <2>1. ToSet(queue) = {Head(queue)} \cup ToSet(queue')
    BY <1>1, <1>2, TailSet
  <2>2. InHand' = InHand \cup {Head(queue)}
    BY <1>1, <1>2 DEF InHand
  <2>3. \A d \in ToSet(delivered) : d # Head(queue)
    BY <1>1 DEF IInv, Queued
  <2> QED BY <1>2, <2>1, <2>2, <2>3 DEF IInv, Parted
<1> QED BY <1>3, <1>5, <1>6, <1>7, <1>8 DEF IInv

\* A frame that is forwarded leaves the hand of its thread and keeps its one fate.
LEMMA DeliverPreserves ==
  ASSUME NEW w \in Workers, IInv, Deliver(w)
  PROVE  IInv'
<1> USE FrameConverterAssumption DEF PoolUnchanged
<1>1. /\ frame_in[w] # 0 /\ pc[w] = "handle"
      /\ frame_in' = [frame_in EXCEPT ![w] = 0]
      /\ frame_in'[w] = 0
      /\ pc' = [pc EXCEPT ![w] = "loop"]
      /\ delivered' = Append(delivered, frame_in[w])
      /\ UNCHANGED <<captured, queue, stop_condition, stopped, lost>> /\ lock' = None
      /\ delivered \in Seq(Frames)
  BY DEF Deliver, IInv, Working, TypeOK
<1>2. /\ frame_in[w] \in Frames /\ frame_in[w] \in InHand
      /\ InHand' = InHand \ {frame_in[w]} /\ OneOwner'
  BY <1>1, HandGives
<1>3. TypeOK' /\ Working' /\ Joined'
  BY <1>1, <1>2 DEF IInv, TypeOK, Working, Joined, Frames
<1>4. ToSet(delivered') = ToSet(delivered) \cup {frame_in[w]}
  BY <1>1, <1>2, AppendSet
<1>5. Queued'
  BY <1>1, <1>4 DEF IInv, Queued, TypeOK, Frames
<1>6. Passed'
  BY <1>1, <1>4 DEF IInv, Passed, TypeOK
<1>7. frame_in[w] \notin ToSet(delivered) \cup ToSet(queue) \cup lost
  <2>1. \A i \in DOMAIN queue : frame_in[w] < queue[i] /\ queue[i] \in Nat
    BY DEF IInv, Queued, TypeOK, Frames
  <2>2. frame_in[w] \notin ToSet(queue)
    BY <1>2, <2>1 DEF ToSet, Frames
  <2> QED BY <1>2, <2>2 DEF IInv, Parted
<1>8. IsInjective(delivered')
  <2>1. /\ DOMAIN delivered = 1 .. Len(delivered) /\ Len(delivered) \in Nat
        /\ DOMAIN delivered' = 1 .. Len(delivered) + 1
        /\ \A i \in 1 .. Len(delivered) : delivered'[i] = delivered[i]
        /\ delivered'[Len(delivered) + 1] = frame_in[w]
    BY <1>1
  <2>2. \A i \in 1 .. Len(delivered) : delivered[i] # frame_in[w]
    BY <1>7, <2>1 DEF ToSet
  <2> QED BY <2>1, <2>2 DEF IInv, Parted, IsInjective
<1>9. Parted'
  BY <1>1, <1>2, <1>4, <1>7, <1>8 DEF IInv, Parted
<1> QED BY <1>2, <1>3, <1>5, <1>6, <1>9 DEF IInv

\* handle, in the grabber: the frame is the newest.
LEMMA HandlePreserves ==
  ASSUME IInv, Handle
  PROVE  IInv'
<1> USE FrameConverterAssumption
<1>1. /\ captured \in Nat /\ captured < MaxFrames /\ captured' = captured + 1
      /\ captured + 1 \in Frames /\ queue \in Seq(Frames)
      /\ UNCHANGED <<pc, frame_in, lock, stop_condition, stopped, delivered>>
  BY DEF Handle, IInv, TypeOK, Frames
<1>2. \A x \in ToSet(delivered) \cup InHand \cup ToSet(queue) \cup lost :
        x \in Nat /\ x <= captured
  BY <1>1 DEF IInv, Parted
<1>3. Working' /\ OneOwner' /\ Joined' /\ Passed' /\ InHand' = InHand
  BY <1>1 DEF IInv, Working, OneOwner, Joined, Passed, InHand
<1>4. 1 .. captured' = 1 .. captured \cup {captured + 1}
  BY <1>1
<1>5. CASE Len(queue) < Capacity /\ queue' = Append(queue, captured + 1) /\ lost' = lost
  <2>1. TypeOK'
    BY <1>1, <1>5 DEF IInv, TypeOK
  <2>2. ToSet(queue') = ToSet(queue) \cup {captured + 1}
    BY <1>1, <1>5, AppendSet
  <2>3. Parted'
    BY <1>1, <1>2, <1>3, <1>4, <1>5, <2>2 DEF IInv, Parted
  <2>4. /\ DOMAIN queue = 1 .. Len(queue) /\ Len(queue) \in Nat
        /\ DOMAIN queue' = 1 .. Len(queue) + 1
        /\ \A i \in 1 .. Len(queue) : /\ queue'[i] = queue[i]
                                      /\ queue[i] \in Nat /\ queue[i] <= captured
        /\ queue'[Len(queue) + 1] = captured + 1
    BY <1>1, <1>2, <1>5 DEF ToSet
  <2>5. \A w \in Workers : frame_in[w] \in Nat /\ frame_in[w] <= captured
    BY <1>1, <1>2, SMTT(30) DEF InHand, IInv, TypeOK
  <2>6. Queued'
    <3>1. ASSUME NEW i \in DOMAIN queue', NEW j \in DOMAIN queue', i < j
          PROVE  queue'[i] < queue'[j]
      BY <1>1, <2>4, <3>1 DEF IInv, Queued
    <3>2. ASSUME NEW i \in DOMAIN queue'
          PROVE  /\ \A w \in Workers : frame_in'[w] < queue'[i]
                 /\ \A d \in ToSet(delivered') : d < queue'[i]
      BY <1>1, <1>2, <2>4, <2>5 DEF IInv, Queued
    <3> QED BY <3>1, <3>2 DEF Queued
  <2> QED BY <1>3, <2>1, <2>3, <2>6 DEF IInv
<1>6. CASE Len(queue) = Capacity /\ lost' = lost \cup {captured + 1} /\ queue' = queue
  <2>1. TypeOK'
    BY <1>1, <1>6 DEF IInv, TypeOK
  <2>2. Parted'
    BY <1>1, <1>2, <1>3, <1>4, <1>6 DEF IInv, Parted
  <2>3. Queued'
    BY <1>1, <1>6 DEF IInv, Queued
  <2> QED BY <1>3, <2>1, <2>2, <2>3 DEF IInv
<1> QED BY <1>5, <1>6 DEF Handle

\* Every step of the grabber, the pool and main keeps the invariant.
LEMMA NextIInv == IInv /\ [Next]_vars => IInv'
<1> SUFFICES ASSUME IInv, [Next]_vars PROVE IInv'
  OBVIOUS
<1> USE FrameConverterAssumption
<1>1. CASE Handle
  BY <1>1, HandlePreserves
<1>2. ASSUME NEW w \in Workers, Loop(w) \/ Timeout(w) \/ Convert(w) \/ Forward(w)
      PROVE  IInv'
  <2>1. TypeOK'
    BY <1>2 DEF IInv, TypeOK, Loop, Timeout, Convert, Forward, PoolUnchanged
  <2>2. /\ PoolUnchanged /\ UNCHANGED <<queue, frame_in, delivered, lost>>
        /\ pc[w] # "done" /\ \A v \in Workers \ {w} : pc'[v] = pc[v]
        /\ pc[w] \in {"convert", "forward", "handle"}
             <=> pc'[w] \in {"convert", "forward", "handle"}
    BY <1>2 DEF IInv, TypeOK, Loop, Timeout, Convert, Forward
  <2> QED BY <2>1, <2>2, PcOnly
<1>3. ASSUME NEW w \in Workers, Dequeue(w) \/ Deliver(w) PROVE IInv'
  BY <1>3, DequeuePreserves, DeliverPreserves
<1>4. ASSUME NEW w \in Workers, ConvertFails(w) \/ SinkThrows(w) PROVE IInv'
  BY <1>4, LosePreserves
<1>5. CASE Stop \/ Join
  <2>1. TypeOK'
    BY <1>5 DEF IInv, TypeOK, Stop, Join
  <2>2. Working' /\ OneOwner'
    BY <1>5 DEF IInv, Working, OneOwner, Stop, Join
  <2>3. Joined'
    BY <1>5 DEF IInv, Joined, Stop, Join
  <2>4. Queued' /\ Passed' /\ Parted'
    BY <1>5 DEF IInv, Queued, Passed, Parted, InHand, Stop, Join
  <2> QED BY <2>1, <2>2, <2>3, <2>4 DEF IInv
<1>6. CASE UNCHANGED vars
  BY <1>6
  DEF IInv, vars, TypeOK, Working, OneOwner, Queued, Passed, Joined, Parted, InHand
<1> QED BY <1>1, <1>2, <1>3, <1>4, <1>5, <1>6 DEF Next, WorkerStep

-----------------------------------------------------------------------------
(* The theorems.                                                           *)

\* The inductive invariant of the converter: who has which frame, and that threads
\* take only frames newer than all that were taken before.
THEOREM ConverterCorrect == Spec => []IInv
BY InitIInv, NextIInv, PTL DEF Spec

\* The converter keeps its types (FrameConverter).
THEOREM TypeCorrect == Spec => []TypeOK
<1>1. IInv => TypeOK
  BY DEF IInv
<1> QED BY <1>1, ConverterCorrect, PTL

\* No frame is lost, doubled or freed twice (handle, run).
THEOREM FateCorrect == Spec => []OneFate
<1>1. ASSUME IInv PROVE OneFate
  <2> DEFINE fates == <<ToSet(delivered), InHand, ToSet(queue), lost>>
  <2>1. /\ \A i \in DOMAIN queue : i \in Nat /\ queue[i] \in Nat
        /\ \A w \in Workers : frame_in[w] \in Nat
        /\ \A d \in ToSet(delivered) : d \in Nat
    BY <1>1, FrameConverterAssumption DEF IInv, TypeOK, Frames, ToSet
  <2>2. IsInjective(queue)
    <3>1. ASSUME NEW i \in DOMAIN queue, NEW j \in DOMAIN queue, queue[i] = queue[j]
          PROVE  i = j
      BY <1>1, <2>1, <3>1 DEF IInv, Queued
    <3> QED BY <3>1 DEF IsInjective
  <2>3. ToSet(queue) \cap (ToSet(delivered) \cup InHand) = {}
    <3>1. \A x \in ToSet(queue) : \E i \in DOMAIN queue : x = queue[i]
      BY DEF ToSet
    <3>2. \A x \in InHand : \E w \in Workers : x = frame_in[w]
      BY DEF InHand
    <3> QED BY <1>1, <2>1, <3>1, <3>2 DEF IInv, Queued
  <2>4. /\ fates[1] = ToSet(delivered) /\ fates[2] = InHand
        /\ fates[3] = ToSet(queue) /\ fates[4] = lost /\ DOMAIN fates = 1 .. 4
    OBVIOUS
  <2>5. \A i, j \in 1 .. 4 : i # j => fates[i] \cap fates[j] = {}
    <3> HIDE DEF fates
    <3> SUFFICES ASSUME NEW i \in 1 .. 4, NEW j \in 1 .. 4, i < j
                 PROVE  fates[i] \cap fates[j] = {}
      OBVIOUS
    <3> QED BY <1>1, <2>3, <2>4 DEF IInv, Parted
  <2>6. UNION Range(fates) = 1 .. captured
    <3>1. Range(fates) = {fates[1], fates[2], fates[3], fates[4]}
      BY <2>4 DEF Range
    <3> QED BY <1>1, <2>4, <3>1 DEF IInv, Parted
  <2> QED BY <1>1, <2>2, <2>5, <2>6 DEF IInv, Parted, OneFate
<1> QED BY <1>1, ConverterCorrect, PTL

\* Frames swap places only within the pool: when a frame was delivered, fewer older ones
\* are late than there are threads (run, in several threads).
THEOREM OvertakingBounded == Spec => []BoundedOvertaking
<1>1. ASSUME IInv, NEW d \in ToSet(delivered)
      PROVE  LET late == {f \in InHand \cup ToSet(queue) : f < d}
             IN late \subseteq InHand /\ Cardinality(late) < Cardinality(Workers)
  <2> DEFINE late == {f \in InHand \cup ToSet(queue) : f < d}
  <2>1. /\ \A i \in DOMAIN queue : queue[i] \in Nat
        /\ \A v \in Workers : frame_in[v] \in Nat
        /\ d \in Nat
    BY <1>1, FrameConverterAssumption DEF IInv, TypeOK, Frames, ToSet
  <2>2. late \subseteq InHand
    BY <1>1, <2>1 DEF IInv, Queued, ToSet
  <2>3. PICK w \in Workers : frame_in[w] = 0 \/ d < frame_in[w]
    BY <1>1 DEF IInv, Passed
  <2> DEFINE owner == [f \in late |-> CHOOSE v \in Workers : frame_in[v] = f]
  <2>4. ASSUME NEW f \in late
        PROVE  owner[f] \in Workers \ {w} /\ frame_in[owner[f]] = f
    <3>1. f \in InHand /\ f < d
      BY <2>2
    <3>2. f # 0 /\ \E v \in Workers : frame_in[v] = f
      BY <3>1 DEF InHand
    <3>3. owner[f] \in Workers /\ frame_in[owner[f]] = f
      BY <3>2
    <3>4. owner[f] # w
      BY <2>1, <2>3, <3>1, <3>2, <3>3
    <3> QED BY <3>3, <3>4
  <2>5. owner \in Injection(late, Workers \ {w})
    <3>1. owner \in [late -> Workers \ {w}]
      BY <2>4
    <3>2. \A e, f \in late : owner[e] = owner[f] => e = f
      BY <2>4
    <3> HIDE DEF owner, late
    <3> QED BY <3>1, <3>2 DEF Injection, IsInjective
  <2>6. /\ IsFiniteSet(Workers \ {w})
        /\ Cardinality(Workers \ {w}) = Cardinality(Workers) - 1
        /\ Cardinality(Workers) \in Nat
    BY FrameConverterAssumption, FS_RemoveElement, FS_CardinalityType
  <2>7. Cardinality(late) <= Cardinality(Workers \ {w}) /\ IsFiniteSet(late)
    <3> HIDE DEF owner, late
    <3> QED BY <2>5, <2>6, FS_Injection
  <2>8. Cardinality(late) \in Nat
    <3> HIDE DEF owner, late
    <3> QED BY <2>7, FS_CardinalityType
  <2> QED
    <3> HIDE DEF owner, late
    <3>1. Cardinality(late) < Cardinality(Workers)
      BY <2>6, <2>7, <2>8
    <3> QED BY <2>2, <3>1 DEF late
<1>2. IInv => BoundedOvertaking
  BY <1>1 DEF BoundedOvertaking
<1> QED BY <1>2, ConverterCorrect, PTL

\* Nothing reaches the encoder after stop() (stop, which joins all the threads).
THEOREM StopQuiets == Spec => QuietAfterStop
<1>1. ASSUME IInv, [Next]_vars, stopped PROVE UNCHANGED delivered
  BY <1>1
  DEF IInv, Joined, Next, Handle, WorkerStep, Loop, Dequeue, Timeout, Convert, Forward,
      Deliver, ConvertFails, SinkThrows, Stop, Join, vars
<1>2. IInv /\ [Next]_vars => [stopped => UNCHANGED delivered]_vars
  BY <1>1
<1> QED BY <1>2, ConverterCorrect, PTL DEF Spec, QuietAfterStop

=============================================================================
