--------------------------- MODULE RtpSenderProofs ---------------------------
(***************************************************************************)
(* Theorems about RtpSender, for any senders, queue capacity, number of    *)
(* packets and failures: its types, that a sender that was destroyed is    *)
(* never called, that every clone has one fate, and that what a client     *)
(* gets implements Stream.                                                 *)
(***************************************************************************)
EXTENDS RtpSender, TLAPS

\* Who is attached follows from how far the server is with each sender.
AttachedOf == sinks = {s \in Senders : life[s] \in {"attached", "stopping", "stopped"}}

\* The loop of forward runs over sinks that stay attached, for it has the lock.
ForwardPhase ==
  /\ unserved \subseteq sinks
  /\ unserved # {} => lock = Encoder
  /\ lock = Encoder => forwarded > 0

\* A thread has a packet in its hands exactly while it writes.
Writing == \A s \in Senders : pc[s] = "write" <=> packet[s] # 0

\* The last packet that a sender may have been given.
Offered(s) == IF s \in unserved THEN forwarded - 1 ELSE forwarded

\* What was written, what is being written and what is queued continue each other
\* in ascending order, up to n.
Line(w, p, q, n) ==
  /\ \A i, j \in DOMAIN w : i < j => w[i] < w[j]
  /\ \A i, j \in DOMAIN q : i < j => q[i] < q[j]
  /\ \A i \in DOMAIN w : /\ w[i] <= n
                         /\ p # 0 => w[i] < p
                         /\ \A j \in DOMAIN q : w[i] < q[j]
  /\ \A j \in DOMAIN q : q[j] <= n /\ (p # 0 => p < q[j])
  /\ p <= n

Lined == \A s \in Senders : Line(written[s], packet[s], queue[s], Offered(s))

\* What is on its way or was written.
Alive(w, p, q) == ToSet(w) \cup ({p} \ {0}) \cup ToSet(q)

\* What was freed or leaked is neither.
Parted(s) ==
  /\ dropped[s] \cap Alive(written[s], packet[s], queue[s]) = {}
  /\ leaked[s] \cap (dropped[s] \cup Alive(written[s], packet[s], queue[s])) = {}

Given(s) == Alive(written[s], packet[s], queue[s]) \cup dropped[s] \cup leaked[s]

\* What was given to a sender is an interval, which ends with the last packet
\* offered as long as the sender is attached, and is empty before.
Interval(s) ==
  /\ \E first, last \in 0 .. forwarded :
       /\ Given(s) = first + 1 .. last
       /\ s \in sinks => last = Offered(s)
  /\ life[s] \in {"initialized", "started"} => Given(s) = {}

Fated == \A s \in Senders : Parted(s) /\ Interval(s)

IInv == TypeOK /\ AttachedOf /\ ForwardPhase /\ Writing /\ Lined /\ Fated

-----------------------------------------------------------------------------
\* What a queue holds after an element was appended...
LEMMA AppendSet ==
  ASSUME NEW S, NEW q \in Seq(S), NEW e \in S
  PROVE  ToSet(Append(q, e)) = ToSet(q) \cup {e}
<1>1. /\ DOMAIN q = 1 .. Len(q) /\ DOMAIN Append(q, e) = 1 .. Len(q) + 1
      /\ \A i \in 1 .. Len(q) : Append(q, e)[i] = q[i]
      /\ Append(q, e)[Len(q) + 1] = e /\ Len(q) \in Nat
  OBVIOUS
<1> QED BY <1>1 DEF ToSet

\* ... and before its head was taken.
LEMMA TailSet ==
  ASSUME NEW S, NEW q \in Seq(S), q # <<>>
  PROVE  ToSet(q) = {Head(q)} \cup ToSet(Tail(q))
<1>1. /\ DOMAIN q = 1 .. Len(q) /\ DOMAIN Tail(q) = 1 .. Len(q) - 1
      /\ \A i \in 1 .. Len(q) - 1 : Tail(q)[i] = q[i + 1]
      /\ Head(q) = q[1] /\ Len(q) \in Nat \ {0}
  OBVIOUS
<1>2. ASSUME NEW i \in 1 .. Len(q) PROVE q[i] \in {Head(q)} \cup ToSet(Tail(q))
  <2>1. CASE i = 1
    BY <1>1, <2>1
  <2>2. CASE i # 1
    <3>1. i - 1 \in 1 .. Len(q) - 1 /\ Tail(q)[i - 1] = q[i]
      BY <1>1, <2>2
    <3> QED BY <1>1, <3>1 DEF ToSet
  <2> QED BY <2>1, <2>2
<1>3. ASSUME NEW i \in 1 .. Len(q) - 1 PROVE Tail(q)[i] \in ToSet(q)
  <2>1. i + 1 \in 1 .. Len(q)
    BY <1>1
  <2> QED BY <1>1, <2>1 DEF ToSet
<1> QED BY <1>1, <1>2, <1>3 DEF ToSet

-----------------------------------------------------------------------------
(* Lemmas about lines.                                                     *)

\* A packet with the next number goes to the end of the line.
LEMMA LineAppend ==
  ASSUME NEW w \in Seq(Nat), NEW q \in Seq(Nat), NEW p \in Nat, NEW n \in Nat,
         Line(w, p, q, n)
  PROVE  Line(w, p, Append(q, n + 1), n + 1)
<1>1. /\ DOMAIN q = 1 .. Len(q) /\ DOMAIN Append(q, n + 1) = 1 .. Len(q) + 1
      /\ \A i \in 1 .. Len(q) : Append(q, n + 1)[i] = q[i]
      /\ Append(q, n + 1)[Len(q) + 1] = n + 1 /\ Len(q) \in Nat
      /\ \A i \in DOMAIN w : w[i] \in Nat
      /\ \A i \in DOMAIN q : q[i] \in Nat
  OBVIOUS
<1> QED BY <1>1, SMTT(30) DEF Line

\* The head of the queue is taken in hand.
LEMMA LineTake ==
  ASSUME NEW w \in Seq(Nat), NEW q \in Seq(Nat), NEW n \in Nat, q # <<>>,
         \A i \in DOMAIN q : q[i] # 0, Line(w, 0, q, n)
  PROVE  Line(w, Head(q), Tail(q), n)
<1>1. /\ DOMAIN q = 1 .. Len(q) /\ DOMAIN Tail(q) = 1 .. Len(q) - 1
      /\ Head(q) = q[1] /\ 1 \in DOMAIN q /\ Len(q) \in Nat
      /\ \A i \in DOMAIN Tail(q) : Tail(q)[i] = q[i + 1] /\ i + 1 \in DOMAIN q /\ 1 < i + 1
      /\ \A i \in DOMAIN w : w[i] \in Nat
      /\ \A i \in DOMAIN q : q[i] \in Nat
  OBVIOUS
<1>2. \A i, j \in DOMAIN Tail(q) : i < j => Tail(q)[i] < Tail(q)[j]
  <2> SUFFICES ASSUME NEW i \in DOMAIN Tail(q), NEW j \in DOMAIN Tail(q), i < j
               PROVE  q[i + 1] < q[j + 1]
    BY <1>1
  <2> QED BY <1>1 DEF Line
<1>3. \A j \in DOMAIN Tail(q) : /\ Head(q) < Tail(q)[j] /\ Tail(q)[j] <= n
                                /\ \A i \in DOMAIN w : w[i] < Tail(q)[j]
  <2> SUFFICES ASSUME NEW j \in DOMAIN Tail(q)
               PROVE  /\ q[1] < q[j + 1] /\ q[j + 1] <= n
                      /\ \A i \in DOMAIN w : w[i] < q[j + 1]
    BY <1>1
  <2> QED BY <1>1 DEF Line
<1>4. /\ Head(q) <= n
      /\ \A i \in DOMAIN w : w[i] <= n /\ w[i] < Head(q)
      /\ \A i, j \in DOMAIN w : i < j => w[i] < w[j]
  BY <1>1 DEF Line
<1> QED BY <1>2, <1>3, <1>4 DEF Line

\* What is in hand is written.
LEMMA LineWrite ==
  ASSUME NEW w \in Seq(Nat), NEW q \in Seq(Nat), NEW p \in Nat, NEW n \in Nat,
         p # 0, Line(w, p, q, n)
  PROVE  Line(Append(w, p), 0, q, n)
<1>1. /\ DOMAIN w = 1 .. Len(w) /\ DOMAIN Append(w, p) = 1 .. Len(w) + 1
      /\ \A i \in 1 .. Len(w) : Append(w, p)[i] = w[i]
      /\ Append(w, p)[Len(w) + 1] = p /\ Len(w) \in Nat
      /\ \A i \in DOMAIN w : w[i] \in Nat
      /\ \A i \in DOMAIN q : q[i] \in Nat
  OBVIOUS
<1> QED BY <1>1 DEF Line

\* A line without what is in hand, without its queue, or under a higher limit.
LEMMA LineWeaken ==
  ASSUME NEW w \in Seq(Nat), NEW q \in Seq(Nat), NEW p \in Nat, NEW n \in Nat,
         NEW m \in Nat, n <= m, Line(w, p, q, n)
  PROVE  Line(w, p, q, m) /\ Line(w, 0, q, n) /\ Line(w, p, <<>>, n)
<1>1. /\ \A i \in DOMAIN w : w[i] \in Nat
      /\ \A i \in DOMAIN q : q[i] \in Nat
      /\ DOMAIN <<>> = {}
  OBVIOUS
<1> QED BY <1>1 DEF Line

\* What is written, in hand and queued differs.
LEMMA LineApart ==
  ASSUME NEW w \in Seq(Nat), NEW q \in Seq(Nat), NEW p \in Nat, NEW n \in Nat,
         Line(w, p, q, n)
  PROVE  /\ IsInjective(w) /\ IsInjective(q)
         /\ ToSet(w) \cap ToSet(q) = {}
         /\ p # 0 => p \notin ToSet(w) \cup ToSet(q)
<1>1. /\ \A i \in DOMAIN w : i \in Nat /\ w[i] \in Nat
      /\ \A i \in DOMAIN q : i \in Nat /\ q[i] \in Nat
  OBVIOUS
<1>2. IsInjective(w) /\ IsInjective(q)
  <2>1. /\ \A i, j \in DOMAIN w : i < j => w[i] < w[j]
        /\ \A i, j \in DOMAIN q : i < j => q[i] < q[j]
    BY DEF Line
  <2>2. ASSUME NEW i \in DOMAIN w, NEW j \in DOMAIN w, w[i] = w[j] PROVE i = j
    <3>1. ~(i < j) /\ ~(j < i)
      BY <1>1, <2>1, <2>2
    <3> QED BY <1>1, <3>1
  <2>3. ASSUME NEW i \in DOMAIN q, NEW j \in DOMAIN q, q[i] = q[j] PROVE i = j
    <3>1. ~(i < j) /\ ~(j < i)
      BY <1>1, <2>1, <2>3
    <3> QED BY <1>1, <3>1
  <2> QED BY <2>2, <2>3 DEF IsInjective
<1>3. ASSUME NEW i \in DOMAIN w, NEW j \in DOMAIN q PROVE w[i] # q[j]
  BY <1>1 DEF Line
<1>4. p # 0 => (\A i \in DOMAIN w : w[i] # p) /\ (\A j \in DOMAIN q : q[j] # p)
  BY <1>1 DEF Line
<1> QED BY <1>2, <1>3, <1>4 DEF ToSet

-----------------------------------------------------------------------------
(* Every step keeps the invariant.                                         *)

\* The invariant holds at the beginning.
LEMMA InitIInv == Init => IInv
<1> SUFFICES ASSUME Init PROVE IInv
  OBVIOUS
<1> USE RtpSenderAssumption DEF Init
<1>1. TypeOK /\ AttachedOf /\ ForwardPhase /\ Writing
  BY DEF TypeOK, AttachedOf, ForwardPhase, Writing
<1>2. Lined
  BY DEF Lined, Line, Offered
<1>3. Fated
  <2> SUFFICES ASSUME NEW s \in Senders PROVE Parted(s) /\ Interval(s)
    BY DEF Fated
  <2>1. Given(s) = {}
    BY DEF Given, Alive, ToSet
  <2> QED BY <2>1 DEF Parted, Interval
<1> QED BY <1>1, <1>2, <1>3 DEF IInv

\* What a step of one sender must show; those of the others do not change.
LEMMA OneSender ==
  ASSUME IInv, NEW s \in Senders, UNCHANGED <<forwarded, unserved>>,
         \A t \in Senders \ {s} :
           /\ UNCHANGED <<written[t], packet[t], queue[t], dropped[t], leaked[t], life[t]>>
           /\ t \in sinks' <=> t \in sinks,
         Line(written[s], packet[s], queue[s], Offered(s))',
         Parted(s)', Interval(s)'
  PROVE  Lined' /\ Fated'
<1> SUFFICES ASSUME NEW t \in Senders, t # s
             PROVE  /\ Line(written[t], packet[t], queue[t], Offered(t))'
                    /\ Parted(t)' /\ Interval(t)'
  BY DEF Lined, Fated
<1>1. /\ Line(written[t], packet[t], queue[t], Offered(t))
      /\ Parted(t) /\ Interval(t)
  BY DEF IInv, Lined, Fated
<1>2. Offered(t)' = Offered(t) /\ Given(t)' = Given(t)
  BY DEF Offered, Given
<1> QED BY <1>1, <1>2 DEF Parted, Interval

\* The steps of a sender's own thread keep the invariant.
LEMMA WriterPreserves ==
  ASSUME NEW s \in Senders, IInv, WriterStep(s) \/ WriteFails(s)
  PROVE  IInv'
<1> USE RtpSenderAssumption DEF WriterUnchanged
<1>1. /\ Line(written[s], packet[s], queue[s], Offered(s))
      /\ Parted(s) /\ Interval(s)
  BY DEF IInv, Lined, Fated
<1>2. /\ written[s] \in Seq(Nat) /\ queue[s] \in Seq(Nat) /\ packet[s] \in Nat
      /\ queue[s] \in Seq(Packets) /\ written[s] \in Seq(Packets)
      /\ \A i \in DOMAIN queue[s] : queue[s][i] # 0
      /\ pc[s] = "write" => packet[s] \in Packets
      /\ pc[s] # "write" => packet[s] = 0
      /\ Offered(s) \in Nat
  BY DEF IInv, TypeOK, Packets, Writing, Offered, ForwardPhase
<1>3. CASE Loop(s) \/ Timeout(s)
  <2>1. TypeOK' /\ AttachedOf' /\ ForwardPhase' /\ Writing'
    <3>1. TypeOK'
      BY <1>3 DEF IInv, TypeOK, Loop, Timeout
    <3>2. AttachedOf' /\ ForwardPhase'
      BY <1>3 DEF IInv, AttachedOf, ForwardPhase, Loop, Timeout
    <3>3. Writing'
      BY <1>3 DEF IInv, TypeOK, Writing, Loop, Timeout
    <3> QED BY <3>1, <3>2, <3>3
  <2>2. UNCHANGED <<forwarded, unserved, sinks, written, packet, queue, dropped, leaked, life>>
    BY <1>3 DEF Loop, Timeout
  <2>3. Lined' /\ Fated'
    BY <2>2 DEF IInv, Lined, Fated, Parted, Interval, Given, Offered
  <2> QED BY <2>1, <2>3 DEF IInv
<1>4. CASE Dequeue(s)
  <2>1. TypeOK' /\ AttachedOf' /\ ForwardPhase' /\ Writing'
    <3>1. TypeOK'
      <4>1. queue[s] \in Seq(Packets) /\ queue[s] # <<>> /\ Len(queue[s]) <= Capacity
        BY <1>4 DEF IInv, TypeOK, Dequeue
      <4>2. Tail(queue[s]) \in Seq(Packets) /\ Len(Tail(queue[s])) <= Capacity
            /\ Head(queue[s]) \in Packets
        BY <4>1, RtpSenderAssumption
      <4>3. /\ queue' \in [Senders -> Seq(Packets)]
            /\ \A t \in Senders : Len(queue'[t]) <= Capacity
        BY <1>4, <4>2 DEF IInv, TypeOK, Dequeue
      <4>4. packet' \in [Senders -> 0 .. MaxPackets]
        BY <1>4, <4>2 DEF IInv, TypeOK, Dequeue, Packets
      <4>5. pc' \in [Senders -> {"none", "loop", "wait", "write", "done"}]
        BY <1>4 DEF IInv, TypeOK, Dequeue
      <4>6. UNCHANGED <<forwarded, lock, sinks, unserved, stop_condition, life, written,
                        dropped, leaked>>
        BY <1>4 DEF Dequeue, WriterUnchanged
      <4> QED BY <4>3, <4>4, <4>5, <4>6 DEF IInv, TypeOK
    <3>2. AttachedOf' /\ ForwardPhase'
      BY <1>4 DEF IInv, AttachedOf, ForwardPhase, Dequeue
    <3>3. Writing'
      BY <1>2, <1>4 DEF IInv, TypeOK, Writing, Dequeue, Packets
    <3> QED BY <3>1, <3>2, <3>3
  <2>2. /\ queue[s] # <<>> /\ packet[s] = 0
        /\ packet'[s] = Head(queue[s]) /\ queue'[s] = Tail(queue[s])
        /\ Head(queue[s]) # 0
        /\ UNCHANGED <<forwarded, unserved, sinks, written, dropped, leaked, life>>
        /\ \A t \in Senders \ {s} : UNCHANGED <<packet[t], queue[t]>>
    BY <1>2, <1>4 DEF IInv, TypeOK, Dequeue
  <2>3. Line(written[s], packet[s], queue[s], Offered(s))'
    BY <1>1, <1>2, <2>2, LineTake DEF Offered
  <2>4. Alive(written[s], packet[s], queue[s])' = Alive(written[s], packet[s], queue[s])
    BY <1>2, <2>2, TailSet DEF Alive
  <2>5. Parted(s)' /\ Interval(s)'
    BY <1>1, <2>2, <2>4 DEF Parted, Interval, Given, Offered
  <2> QED BY <2>1, <2>2, <2>3, <2>5, OneSender DEF IInv
<1>5. CASE Write(s)
  <2>1. TypeOK' /\ AttachedOf' /\ ForwardPhase' /\ Writing'
    <3>1. TypeOK'
      BY <1>2, <1>5 DEF IInv, TypeOK, Write, Packets
    <3>2. AttachedOf' /\ ForwardPhase'
      BY <1>5 DEF IInv, AttachedOf, ForwardPhase, Write
    <3>3. Writing'
      BY <1>2, <1>5 DEF IInv, TypeOK, Writing, Write, Packets
    <3> QED BY <3>1, <3>2, <3>3
  <2>2. /\ packet[s] \in Packets /\ packet[s] # 0
        /\ packet'[s] = 0 /\ written'[s] = Append(written[s], packet[s])
        /\ UNCHANGED <<forwarded, unserved, sinks, queue, dropped, leaked, life>>
        /\ \A t \in Senders \ {s} : UNCHANGED <<packet[t], written[t]>>
    BY <1>2, <1>5 DEF IInv, TypeOK, Write, Packets
  <2>3. Line(written[s], packet[s], queue[s], Offered(s))'
    BY <1>1, <1>2, <2>2, LineWrite DEF Offered
  <2>4. Alive(written[s], packet[s], queue[s])' = Alive(written[s], packet[s], queue[s])
    BY <1>2, <2>2, AppendSet DEF Alive
  <2>5. Parted(s)' /\ Interval(s)'
    BY <1>1, <2>2, <2>4 DEF Parted, Interval, Given, Offered
  <2> QED BY <2>1, <2>2, <2>3, <2>5, OneSender DEF IInv
<1>6. CASE WriteFails(s)
  <2>1. TypeOK' /\ AttachedOf' /\ ForwardPhase' /\ Writing'
    <3>1. TypeOK'
      <4>1. packet[s] \in Packets
        BY <1>2, <1>6 DEF WriteFails
      <4>2. leaked' \in [Senders -> SUBSET Packets]
        BY <1>6, <4>1 DEF IInv, TypeOK, WriteFails
      <4>3. /\ packet' \in [Senders -> 0 .. MaxPackets]
            /\ pc' \in [Senders -> {"none", "loop", "wait", "write", "done"}]
        BY <1>6, RtpSenderAssumption DEF IInv, TypeOK, WriteFails
      <4>4. UNCHANGED <<forwarded, lock, sinks, unserved, queue, stop_condition, life,
                        written, dropped>>
        BY <1>6 DEF WriteFails, WriterUnchanged
      <4> QED BY <4>2, <4>3, <4>4 DEF IInv, TypeOK
    <3>2. AttachedOf' /\ ForwardPhase'
      BY <1>6 DEF IInv, AttachedOf, ForwardPhase, WriteFails
    <3>3. Writing'
      BY <1>2, <1>6 DEF IInv, TypeOK, Writing, WriteFails, Packets
    <3> QED BY <3>1, <3>2, <3>3
  <2>2. /\ packet[s] # 0 /\ packet'[s] = 0 /\ leaked'[s] = leaked[s] \cup {packet[s]}
        /\ UNCHANGED <<forwarded, unserved, sinks, queue, dropped, written, life>>
        /\ \A t \in Senders \ {s} : UNCHANGED <<packet[t], leaked[t]>>
    BY <1>2, <1>6 DEF IInv, TypeOK, WriteFails, Packets
  <2>3. Line(written[s], packet[s], queue[s], Offered(s))'
    BY <1>1, <1>2, <2>2, LineWeaken DEF Offered
  <2>4. packet[s] \notin ToSet(written[s]) \cup ToSet(queue[s])
    BY <1>1, <1>2, <2>2, LineApart
  <2>5. /\ Alive(written[s], packet[s], queue[s])'
             = Alive(written[s], packet[s], queue[s]) \ {packet[s]}
        /\ packet[s] \in Alive(written[s], packet[s], queue[s])
    BY <2>2, <2>4 DEF Alive
  <2>6. Given(s)' = Given(s)
    BY <2>2, <2>5 DEF Given
  <2>7. Parted(s)'
    BY <1>1, <2>2, <2>5 DEF Parted
  <2>8. Interval(s)'
    BY <1>1, <2>2, <2>6 DEF Interval, Offered
  <2> QED BY <2>1, <2>2, <2>3, <2>7, <2>8, OneSender DEF IInv
<1> QED BY <1>3, <1>4, <1>5, <1>6 DEF WriterStep

\* forward: the packets are numbered anew, and come to one sender after the other.
LEMMA ForwardPreserves ==
  ASSUME IInv, Forward \/ ForwardStep
  PROVE  IInv'
<1> USE RtpSenderAssumption DEF ForwardUnchanged, Acquire, Release
<1>1. forwarded \in Nat /\ unserved \subseteq sinks /\ sinks \subseteq Senders
  BY DEF IInv, TypeOK, ForwardPhase
<1>2. CASE Forward
  <2>1. TypeOK' /\ AttachedOf' /\ ForwardPhase' /\ Writing'
    BY <1>2 DEF IInv, TypeOK, AttachedOf, ForwardPhase, Writing, Forward
  <2>2. \A s \in Senders : Offered(s) = forwarded /\ Offered(s)' >= forwarded
    BY <1>1, <1>2 DEF IInv, ForwardPhase, Forward, Offered
  <2>3. \A s \in Senders : /\ Offered(s)' \in Nat
                           /\ s \in sinks => Offered(s)' = forwarded
    BY <1>1, <1>2 DEF Forward, Offered
  <2>4. ASSUME NEW s \in Senders
        PROVE  /\ Line(written[s], packet[s], queue[s], Offered(s))'
               /\ Parted(s)' /\ Interval(s)'
    <3>1. /\ written[s] \in Seq(Nat) /\ queue[s] \in Seq(Nat) /\ packet[s] \in Nat
          /\ Line(written[s], packet[s], queue[s], forwarded)
          /\ Parted(s) /\ Interval(s)
      BY <2>2 DEF IInv, TypeOK, Packets, Lined, Fated
    <3>2. Line(written[s], packet[s], queue[s], Offered(s)')
      BY <3>1, <1>1, <2>2, <2>3, LineWeaken
    <3>3. Given(s)' = Given(s) /\ Parted(s)'
      BY <3>1, <1>2 DEF Given, Forward, Parted
    <3>4. Interval(s)'
      <4>1. PICK first \in 0 .. forwarded, last \in 0 .. forwarded :
              Given(s) = first + 1 .. last /\ (s \in sinks => last = forwarded)
        BY <3>1, <2>2 DEF Interval
      <4>2. first \in 0 .. forwarded' /\ last \in 0 .. forwarded'
        BY <1>1, <1>2 DEF Forward
      <4>3. s \in sinks' => last = Offered(s)'
        BY <1>2, <2>3, <4>1 DEF Forward
      <4> QED BY <1>2, <3>1, <3>3, <4>1, <4>2, <4>3 DEF Interval, Forward
    <3> QED BY <3>2, <3>3, <3>4, <1>2 DEF Forward
  <2> QED BY <2>1, <2>4 DEF IInv, Lined, Fated
<1>3. ASSUME NEW s \in Senders, Handle(s) PROVE IInv'
  <2>1. /\ s \in unserved /\ lock = Encoder /\ forwarded \in Packets
        /\ Offered(s) = forwarded - 1 /\ Offered(s)' = forwarded
        /\ forwarded - 1 \in Nat
    BY <1>1, <1>3 DEF IInv, TypeOK, ForwardPhase, Handle, Offered, Packets
  <2>2. /\ Line(written[s], packet[s], queue[s], forwarded - 1)
        /\ Parted(s) /\ Interval(s)
        /\ written[s] \in Seq(Nat) /\ queue[s] \in Seq(Nat) /\ packet[s] \in Nat
        /\ queue[s] \in Seq(Packets) /\ Len(queue[s]) <= Capacity
    BY <2>1 DEF IInv, Lined, Fated, TypeOK, Packets
  <2>3. TypeOK' /\ AttachedOf' /\ ForwardPhase' /\ Writing'
    <3>1. TryEnqueue(s) \in Seq(Packets) /\ Len(TryEnqueue(s)) <= Capacity
      BY <2>1, <2>2 DEF TryEnqueue
    <3>2. \A t \in Senders : queue'[t] \in Seq(Packets) /\ Len(queue'[t]) <= Capacity
      BY <1>3, <3>1 DEF IInv, TypeOK, Handle
    <3>3. queue' \in [Senders -> Seq(Packets)]
      BY <1>3, <3>1 DEF IInv, TypeOK, Handle
    <3> QED
      BY <1>3, <2>1, <3>2, <3>3, SMTT(30)
      DEF IInv, TypeOK, AttachedOf, ForwardPhase, Writing, Handle
  <2>4. PICK first \in 0 .. forwarded : Given(s) = first + 1 .. forwarded - 1
    BY <1>1, <2>1, <2>2 DEF Interval
  <2>5. forwarded \notin Given(s)
    BY <1>1, <2>4
  <2>6. /\ Line(written[s], packet[s], queue[s], Offered(s))'
        /\ Parted(s)' /\ Given(s)' = Given(s) \cup {forwarded}
    <3>1. CASE Len(queue[s]) < Capacity
      <4>1. /\ queue'[s] = Append(queue[s], forwarded)
            /\ UNCHANGED <<written, packet, leaked, dropped[s]>>
        BY <1>3, <3>1, <2>2 DEF IInv, TypeOK, Handle, TryEnqueue
      <4>2. Line(written[s], packet[s], queue[s], Offered(s))'
        <5>1. (forwarded - 1) + 1 = forwarded
          BY <1>1
        <5> QED BY <2>1, <2>2, <4>1, <5>1, LineAppend
      <4>3. Alive(written[s], packet[s], queue[s])'
              = Alive(written[s], packet[s], queue[s]) \cup {forwarded}
        BY <2>1, <2>2, <4>1, AppendSet DEF Alive
      <4>4. Given(s)' = Given(s) \cup {forwarded}
        BY <4>1, <4>3 DEF Given
      <4>5. Parted(s)'
        BY <2>2, <2>5, <4>1, <4>3 DEF Parted, Given
      <4> QED BY <4>2, <4>4, <4>5
    <3>2. CASE Len(queue[s]) = Capacity
      <4>1. /\ queue'[s] = queue[s] /\ dropped'[s] = dropped[s] \cup {forwarded}
            /\ UNCHANGED <<written, packet, leaked>>
        BY <1>3, <3>2 DEF IInv, TypeOK, Handle, TryEnqueue
      <4>2. Line(written[s], packet[s], queue[s], Offered(s))'
        BY <1>1, <2>1, <2>2, <4>1, LineWeaken
      <4>3. Parted(s)' /\ Given(s)' = Given(s) \cup {forwarded}
        BY <2>2, <2>5, <4>1 DEF Parted, Given
      <4> QED BY <4>2, <4>3
    <3> QED BY <2>2, <3>1, <3>2
  <2>7. Interval(s)'
    <3>1. first \in 0 .. forwarded /\ forwarded \in 0 .. forwarded
      BY <1>1
    <3>2. CASE first = forwarded
      <4>1. Given(s)' = (forwarded - 1) + 1 .. forwarded
        BY <1>1, <2>4, <2>6, <3>2
      <4>2. forwarded - 1 \in 0 .. forwarded
        BY <1>1, <2>1
      <4> QED
        BY <1>1, <1>3, <2>1, <2>2, <3>1, <4>1, <4>2 DEF Interval, Handle, IInv, AttachedOf
    <3>3. CASE first # forwarded
      <4>1. Given(s)' = first + 1 .. forwarded
        BY <1>1, <2>4, <2>6, <3>3
      <4> QED
        BY <1>1, <1>3, <2>1, <2>2, <3>1, <4>1 DEF Interval, Handle, IInv, AttachedOf
    <3> QED BY <3>2, <3>3
  <2>8. ASSUME NEW t \in Senders, t # s
        PROVE  /\ Line(written[t], packet[t], queue[t], Offered(t))'
               /\ Parted(t)' /\ Interval(t)'
    <3>1. /\ UNCHANGED <<queue[t], dropped[t], written, packet, leaked, forwarded, life,
                         sinks>>
          /\ Offered(t)' = Offered(t)
      BY <1>3, <2>8 DEF IInv, TypeOK, Handle, Offered
    <3>2. /\ Line(written[t], packet[t], queue[t], Offered(t))
          /\ Parted(t) /\ Interval(t)
      BY DEF IInv, Lined, Fated
    <3> QED BY <3>1, <3>2 DEF Parted, Interval, Given
  <2> QED BY <2>3, <2>6, <2>7, <2>8 DEF IInv, Lined, Fated
<1>4. CASE EndForward
  <2>1. TypeOK' /\ AttachedOf' /\ ForwardPhase' /\ Writing'
    BY <1>4 DEF IInv, TypeOK, AttachedOf, ForwardPhase, Writing, EndForward
  <2>2. UNCHANGED <<forwarded, unserved, sinks, written, packet, queue, dropped, leaked, life>>
    BY <1>4 DEF EndForward
  <2>3. Lined' /\ Fated'
    BY <2>2 DEF IInv, Lined, Fated, Parted, Interval, Given, Offered
  <2> QED BY <2>1, <2>3 DEF IInv
<1> QED BY <1>2, <1>3, <1>4 DEF ForwardStep

\* The server: only AttachSink and Destroy touch what the invariant says of packets.
LEMMA ServerPreserves ==
  ASSUME NEW s \in Senders, IInv,
         Start(s) \/ AttachSink(s) \/ Stop(s) \/ RemovalStep(s)
  PROVE  IInv'
<1> USE RtpSenderAssumption DEF LifeUnchanged
<1>1. /\ Line(written[s], packet[s], queue[s], Offered(s))
      /\ Parted(s) /\ Interval(s)
      /\ written[s] \in Seq(Nat) /\ queue[s] \in Seq(Nat) /\ packet[s] \in Nat
      /\ queue[s] \in Seq(Packets) /\ Offered(s) \in Nat
      /\ forwarded \in Nat
  BY DEF IInv, Lined, Fated, TypeOK, Packets, Offered, ForwardPhase
<1>2. CASE Start(s)
  <2>1. pc[s] # "write"
    BY <1>1, <1>2 DEF IInv, Start, Interval, Given, Alive, Writing, TypeOK
  <2>2. TypeOK' /\ AttachedOf' /\ ForwardPhase' /\ Writing'
    BY <1>2, <2>1 DEF IInv, TypeOK, AttachedOf, ForwardPhase, Writing, Start
  <2>3. /\ UNCHANGED <<forwarded, unserved, sinks, written, packet, queue, dropped, leaked>>
        /\ life[s] = "initialized" /\ \A t \in Senders \ {s} : life'[t] = life[t]
    BY <1>2 DEF IInv, TypeOK, Start
  <2>4. Parted(s)' /\ Interval(s)'
    BY <1>1, <2>3 DEF Parted, Interval, Given, Offered
  <2>5. Line(written[s], packet[s], queue[s], Offered(s))'
    BY <1>1, <2>3 DEF Offered
  <2> QED BY <2>2, <2>3, <2>4, <2>5, OneSender DEF IInv
<1>3. CASE AttachSink(s)
  <2>1. TypeOK' /\ AttachedOf' /\ ForwardPhase' /\ Writing'
    BY <1>3 DEF IInv, TypeOK, AttachedOf, ForwardPhase, Writing, AttachSink
  <2>2. /\ UNCHANGED <<forwarded, unserved, written, packet, queue, dropped, leaked>>
        /\ life[s] = "started" /\ life'[s] = "attached"
        /\ \A t \in Senders \ {s} : life'[t] = life[t] /\ (t \in sinks' <=> t \in sinks)
        /\ s \notin unserved
    BY <1>3 DEF IInv, TypeOK, AttachSink, ForwardPhase, AttachedOf
  <2>3. Given(s)' = forwarded + 1 .. forwarded /\ Offered(s)' = forwarded
    BY <1>1, <2>2 DEF Interval, Given, Offered
  <2>4. Parted(s)' /\ Interval(s)'
    BY <1>1, <2>2, <2>3 DEF Parted, Interval
  <2>5. Line(written[s], packet[s], queue[s], Offered(s))'
    BY <1>1, <2>2 DEF Offered
  <2> QED BY <2>1, <2>2, <2>4, <2>5, OneSender DEF IInv
<1>4. CASE Stop(s) \/ Join(s) \/ DetachSink(s)
  <2>1. TypeOK' /\ AttachedOf' /\ ForwardPhase' /\ Writing'
    <3>1. TypeOK'
      BY <1>4 DEF IInv, TypeOK, Stop, Join, DetachSink
    <3>2. AttachedOf' /\ ForwardPhase'
      BY <1>4 DEF IInv, TypeOK, AttachedOf, ForwardPhase, Stop, Join, DetachSink
    <3>3. Writing'
      BY <1>4 DEF IInv, TypeOK, Writing, Stop, Join, DetachSink
    <3> QED BY <3>1, <3>2, <3>3
  <2>2. /\ UNCHANGED <<forwarded, unserved, written, packet, queue, dropped, leaked>>
        /\ life[s] \in {"attached", "stopping", "stopped"}
        /\ life'[s] \in {"stopping", "stopped", "detached"}
        /\ \A t \in Senders \ {s} : life'[t] = life[t] /\ (t \in sinks' <=> t \in sinks)
        /\ s \in sinks' => s \in sinks
    BY <1>4 DEF IInv, TypeOK, Stop, Join, DetachSink, AttachedOf
  <2>3. Parted(s)' /\ Interval(s)'
    BY <1>1, <2>2 DEF Parted, Interval, Given, Offered
  <2>4. Line(written[s], packet[s], queue[s], Offered(s))'
    BY <1>1, <2>2 DEF Offered
  <2> QED BY <2>1, <2>2, <2>3, <2>4, OneSender DEF IInv
<1>5. CASE Destroy(s)
  <2>1. TypeOK' /\ AttachedOf' /\ ForwardPhase' /\ Writing'
    <3>1. ToSet(queue[s]) \subseteq Packets
      BY <1>1 DEF ToSet
    <3> QED
      BY <1>5, <3>1 DEF IInv, TypeOK, AttachedOf, ForwardPhase, Writing, Destroy
  <2>2. /\ UNCHANGED <<forwarded, unserved, sinks, written, packet, dropped>>
        /\ queue'[s] = <<>> /\ leaked'[s] = leaked[s] \cup ToSet(queue[s])
        /\ life[s] = "detached" /\ life'[s] = "destroyed"
        /\ \A t \in Senders \ {s} : UNCHANGED <<life[t], queue[t], leaked[t]>>
    BY <1>5 DEF IInv, TypeOK, Destroy
  <2>3. Line(written[s], packet[s], queue[s], Offered(s))'
    BY <1>1, <2>2, LineWeaken DEF Offered
  <2>4. /\ Alive(written[s], packet[s], queue[s])'
             = Alive(written[s], packet[s], queue[s]) \ ToSet(queue[s])
        /\ ToSet(queue[s]) \subseteq Alive(written[s], packet[s], queue[s])
    <3>1. ToSet(<<>>) = {}
      BY DEF ToSet
    <3>2. /\ ToSet(written[s]) \cap ToSet(queue[s]) = {}
          /\ ({packet[s]} \ {0}) \cap ToSet(queue[s]) = {}
      BY <1>1, LineApart
    <3> QED BY <2>2, <3>1, <3>2 DEF Alive
  <2>5. Given(s)' = Given(s)
    BY <2>2, <2>4 DEF Given
  <2>6. Parted(s)'
    BY <1>1, <2>2, <2>4 DEF Parted
  <2>7. Interval(s)'
    BY <1>1, <2>2, <2>5 DEF Interval, Offered
  <2> QED BY <2>1, <2>2, <2>3, <2>6, <2>7, OneSender DEF IInv
<1> QED BY <1>2, <1>3, <1>4, <1>5 DEF RemovalStep

\* Every step of the encoder, the senders and the server keeps the invariant.
LEMMA NextIInv == IInv /\ [Next]_vars => IInv'
<1> SUFFICES ASSUME IInv, [Next]_vars PROVE IInv'
  OBVIOUS
<1>1. CASE Forward \/ ForwardStep
  BY <1>1, ForwardPreserves
<1>2. ASSUME NEW s \in Senders, WriterStep(s) \/ WriteFails(s) PROVE IInv'
  BY <1>2, WriterPreserves
<1>3. ASSUME NEW s \in Senders, Start(s) \/ AttachSink(s) \/ Stop(s) \/ RemovalStep(s)
      PROVE  IInv'
  BY <1>3, ServerPreserves
<1>4. CASE UNCHANGED vars
  <2>1. TypeOK'
    BY <1>4 DEF IInv, vars, TypeOK
  <2>2. AttachedOf' /\ ForwardPhase' /\ Writing'
    BY <1>4 DEF IInv, vars, AttachedOf, ForwardPhase, Writing
  <2>3. Lined' /\ Fated'
    BY <1>4 DEF IInv, vars, Lined, Fated, Parted, Interval, Given, Offered
  <2> QED BY <2>1, <2>2, <2>3 DEF IInv
<1> QED BY <1>1, <1>2, <1>3, <1>4 DEF Next

-----------------------------------------------------------------------------
(* The theorems.                                                           *)

\* The inductive invariant of the senders: who is attached, what the loop of forward
\* has left to serve, and the line of packets in each sender (RTPVideoSender,
\* RTPAudioSender, Source<AVPacket>).
THEOREM SendersCorrect == Spec => []IInv
BY InitIInv, NextIInv, PTL DEF Spec

\* The senders keep their types; their queues their capacity.
THEOREM TypeCorrect == Spec => []TypeOK
<1>1. IInv => TypeOK
  BY DEF IInv
<1> QED BY <1>1, SendersCorrect, PTL

\* No packet goes to a sender that was destroyed (detachSink, ~RTPVideoSender).
THEOREM DestructionCorrect == Spec => []DestroyedNeverCalled
<1>1. IInv => DestroyedNeverCalled
  BY DEF IInv, AttachedOf, ForwardPhase, DestroyedNeverCalled
<1> QED BY <1>1, SendersCorrect, PTL

\* Every clone has one fate (handle, run, the destructor).
THEOREM FateCorrect == Spec => []OneFate
<1>1. ASSUME IInv PROVE OneFate
  <2> SUFFICES ASSUME NEW s \in Senders
               PROVE  /\ \A i, j \in 1 .. 5 : i # j => Fates(s)[i] \cap Fates(s)[j] = {}
                      /\ IsInjective(written[s]) /\ IsInjective(queue[s])
                      /\ \E first, last \in 0 .. forwarded :
                           /\ Handled(s) = first + 1 .. last
                           /\ s \in sinks \ unserved => last = forwarded
                           /\ s \in unserved => last = forwarded - 1
    BY DEF OneFate
  <2>1. /\ Line(written[s], packet[s], queue[s], Offered(s))
        /\ Parted(s) /\ Interval(s)
        /\ written[s] \in Seq(Nat) /\ queue[s] \in Seq(Nat) /\ packet[s] \in Nat
        /\ Offered(s) \in Nat
    BY <1>1, RtpSenderAssumption
    DEF IInv, Lined, Fated, TypeOK, Packets, Offered, ForwardPhase
  <2>2. /\ IsInjective(written[s]) /\ IsInjective(queue[s])
        /\ ToSet(written[s]) \cap ToSet(queue[s]) = {}
        /\ ({packet[s]} \ {0}) \cap (ToSet(written[s]) \cup ToSet(queue[s])) = {}
    BY <2>1, LineApart
  <2>3. /\ Fates(s)[1] = ToSet(written[s]) /\ Fates(s)[2] = {packet[s]} \ {0}
        /\ Fates(s)[3] = ToSet(queue[s]) /\ Fates(s)[4] = dropped[s]
        /\ Fates(s)[5] = leaked[s] /\ DOMAIN Fates(s) = 1 .. 5
    BY DEF Fates
  <2>4. \A i, j \in 1 .. 5 : i # j => Fates(s)[i] \cap Fates(s)[j] = {}
    <3> SUFFICES ASSUME NEW i \in 1 .. 5, NEW j \in 1 .. 5, i < j
                 PROVE  Fates(s)[i] \cap Fates(s)[j] = {}
      OBVIOUS
    <3>1. CASE j \in {2, 3}
      BY <2>2, <2>3, <3>1
    <3>2. CASE j = 4
      BY <2>1, <2>3, <3>2 DEF Parted, Alive
    <3>3. CASE j = 5
      BY <2>1, <2>3, <3>3 DEF Parted, Alive
    <3> QED BY <3>1, <3>2, <3>3
  <2>5. Handled(s) = Given(s)
    <3>1. Range(Fates(s)) = {Fates(s)[1], Fates(s)[2], Fates(s)[3], Fates(s)[4],
                             Fates(s)[5]}
      BY <2>3 DEF Range
    <3> QED BY <2>3, <3>1 DEF Handled, Given, Alive
  <2> QED BY <1>1, <2>1, <2>2, <2>4, <2>5 DEF Interval, Offered, IInv, ForwardPhase
<1> QED BY <1>1, SendersCorrect, PTL

\* The way of the packets to a client implements an ordered, lossy stream (handle and run
\* of its sender).
THEOREM StreamImplemented == Spec => OrderedStream
<1> USE RtpSenderAssumption
<1>1. Init => Hop!Init
  BY DEF Init, Hop!Init, LastWritten
<1>2. ASSUME IInv, [Next]_vars
      PROVE  [Hop!Next]_<<forwarded, LastWritten(Observed)>>
  <2>1. CASE Forward
    BY <2>1 DEF Forward, ForwardUnchanged, Hop!Next, Hop!Offer, LastWritten
  <2>2. CASE Write(Observed)
    <3>1. /\ Line(written[Observed], packet[Observed], queue[Observed], Offered(Observed))
          /\ written[Observed] \in Seq(Nat)
          /\ \A i \in DOMAIN written[Observed] : written[Observed][i] \in Nat
          /\ packet[Observed] \in Nat \ {0} /\ forwarded \in Nat
          /\ forwarded' = forwarded
          /\ written'[Observed] = Append(written[Observed], packet[Observed])
      BY <1>2, <2>2
      DEF IInv, TypeOK, Packets, Lined, Writing, Write, WriterUnchanged
    <3>2. LastWritten(Observed)' = packet[Observed]
      BY <3>1 DEF LastWritten, Last
    <3>3. packet[Observed] <= forwarded
      BY <3>1 DEF Line, Offered
    <3>4. LastWritten(Observed) \in Nat /\ LastWritten(Observed) < packet[Observed]
      <4>1. CASE written[Observed] = <<>>
        BY <3>1, <4>1 DEF LastWritten
      <4>2. CASE written[Observed] # <<>>
        <5>1. Len(written[Observed]) \in DOMAIN written[Observed]
          BY <3>1, <4>2
        <5> QED BY <3>1, <4>2, <5>1 DEF Line, LastWritten, Last
      <4> QED BY <4>1, <4>2
    <3> QED BY <3>1, <3>2, <3>3, <3>4 DEF Hop!Next, Hop!See
  <2>3. CASE UNCHANGED <<forwarded, written[Observed]>>
    BY <2>3 DEF LastWritten
  <2>4. ASSUME NEW s \in Senders, WriterStep(s) \/ WriteFails(s)
        PROVE  Write(Observed) \/ UNCHANGED <<forwarded, written[Observed]>>
    BY <1>2, <2>4
    DEF IInv, TypeOK, WriterStep, Loop, Dequeue, Timeout, Write, WriteFails, WriterUnchanged
  <2>5. ASSUME NEW s \in Senders, Start(s) \/ AttachSink(s) \/ Stop(s) \/ RemovalStep(s)
        PROVE  UNCHANGED <<forwarded, written[Observed]>>
    BY <2>5 DEF Start, AttachSink, Stop, RemovalStep, Join, DetachSink, Destroy, LifeUnchanged
  <2>6. CASE ForwardStep
    <3>1. UNCHANGED <<forwarded, written[Observed]>>
      BY <2>6 DEF ForwardStep, Handle, EndForward, ForwardUnchanged
    <3> QED BY <3>1, <2>3
  <2>7. CASE UNCHANGED vars
    BY <2>3, <2>7 DEF vars
  <2> QED BY <1>2, <2>1, <2>2, <2>3, <2>4, <2>5, <2>6, <2>7 DEF Next
<1> QED BY <1>1, <1>2, SendersCorrect, PTL DEF Spec, OrderedStream, Hop!Spec

=============================================================================
