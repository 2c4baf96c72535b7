------------------------------ MODULE RtpSender ------------------------------
(***************************************************************************)
(* The way of encoded packets out of the server: the drain thread of one   *)
(* encoder, which gives a clone of every packet to each attached sender,   *)
(* one after the other under the spinlock of Source<AVPacket>, and the     *)
(* senders (RTPVideoSender, and RTPAudioSender, which differs from it in   *)
(* init only), each with a bounded queue and a thread that writes to the   *)
(* network.                                                                *)
(*                                                                         *)
(* The life of a sender is that of its session: the server starts it,      *)
(* attaches it, and later stops, detaches and destroys it, in this order,  *)
(* while the encoder goes on. Packets are numbered as they are forwarded.  *)
(***************************************************************************)
EXTENDS Naturals, Sequences, SequencesExt

CONSTANTS
  Senders,
  Encoder,      \* the drain thread of the encoder, as owner of the lock
  None,         \* no lock owner
  Observed,     \* the sender whose output is compared with Stream; any of them
  Capacity,     \* of the queue; 4 in the code
  MaxPackets,   \* bound on the packets forwarded
  Faults        \* {"write"} if av_interleaved_write_frame may fail

ASSUME RtpSenderAssumption ==
  /\ Observed \in Senders
  /\ None # Encoder
  /\ Capacity \in Nat \ {0} /\ MaxPackets \in Nat
  /\ Faults \subseteq {"write"}

Packets == 1 .. MaxPackets

VARIABLES
  forwarded,       \* number of the last packet handed to forward
  lock,            \* of the Source<AVPacket>
  sinks,           \* senders attached to the encoder
  unserved,        \* sinks that the loop of forward has not come to
  queue,           \* packets each sender has queued
  packet,          \* what each thread is writing, 0 for nothing
  pc,              \* where each thread is
  stop_condition,
  life,            \* how far the server is with each sender
  written,         \* packets each thread has written (history)
  dropped,         \* clones freed because a queue was full (history)
  leaked           \* clones nobody will ever free (history)

vars == <<forwarded, lock, sinks, unserved, queue, packet, pc, stop_condition, life, written,
          dropped, leaked>>

Init ==
  /\ forwarded = 0
  /\ lock = None
  /\ sinks = {} /\ unserved = {}
  /\ queue = [s \in Senders |-> <<>>]
  /\ packet = [s \in Senders |-> 0]
  /\ pc = [s \in Senders |-> "none"]
  /\ stop_condition = [s \in Senders |-> TRUE]
  /\ life = [s \in Senders |-> "initialized"]
  /\ written = [s \in Senders |-> <<>>]
  /\ dropped = [s \in Senders |-> {}]
  /\ leaked = [s \in Senders |-> {}]

-----------------------------------------------------------------------------
(* Source<AVPacket>::forward, in the drain thread.                         *)

\* spinlock::lock: whoever finds the flag down raises it.
Acquire(t) == lock = None /\ lock' = t

\* spinlock::unlock
Release == lock' = None

ForwardUnchanged == UNCHANGED <<sinks, packet, pc, stop_condition, life, written, leaked>>

Forward ==
  /\ forwarded < MaxPackets
  /\ Acquire(Encoder)
  /\ forwarded' = forwarded + 1
  /\ unserved' = sinks
  /\ UNCHANGED <<queue, dropped>>
  /\ ForwardUnchanged

\* Mutant: the clone that does not fit is queued in front.
TryEnqueueInFront(s) ==
  IF Len(queue[s]) < Capacity THEN Append(queue[s], forwarded)
  ELSE <<forwarded>> \o Front(queue[s])

\* Mutant: the queue grows.
TryEnqueueGrowing(s) == Append(queue[s], forwarded)

\* queue.try_enqueue(packet)
TryEnqueue(s) ==
  IF Len(queue[s]) < Capacity THEN Append(queue[s], forwarded) ELSE queue[s]

\* handle of the next sink: the clone is queued, or freed when the queue is full.
Handle(s) ==
  /\ lock = Encoder
  /\ s \in unserved
  /\ unserved' = unserved \ {s}
  /\ queue' = [queue EXCEPT ![s] = TryEnqueue(s)]
  /\ dropped' = [dropped EXCEPT ![s] = IF Len(queue[s]) = Capacity
                                        THEN @ \cup {forwarded} ELSE @]
  /\ UNCHANGED <<forwarded, lock>>
  /\ ForwardUnchanged

EndForward ==
  /\ lock = Encoder /\ unserved = {}
  /\ Release
  /\ UNCHANGED <<forwarded, unserved, queue, dropped>>
  /\ ForwardUnchanged

-----------------------------------------------------------------------------
(* The thread of a sender: run.                                            *)

WriterUnchanged ==
  UNCHANGED <<forwarded, lock, sinks, unserved, stop_condition, life, dropped>>

\* while (!stop_condition)
Loop(s) ==
  /\ pc[s] = "loop"
  /\ pc' = [pc EXCEPT ![s] = IF stop_condition[s] THEN "done" ELSE "wait"]
  /\ UNCHANGED <<queue, packet, written, leaked>>
  /\ WriterUnchanged

\* Mutant: the packet stays in the queue.
Peek(s) ==
  /\ pc[s] = "wait"
  /\ queue[s] # <<>>
  /\ packet' = [packet EXCEPT ![s] = Head(queue[s])]
  /\ pc' = [pc EXCEPT ![s] = "write"]
  /\ UNCHANGED <<queue, written, leaked>>
  /\ WriterUnchanged

\* wait_dequeue_timed gives a packet...
Dequeue(s) ==
  /\ pc[s] = "wait"
  /\ queue[s] # <<>>
  /\ packet' = [packet EXCEPT ![s] = Head(queue[s])]
  /\ queue' = [queue EXCEPT ![s] = Tail(@)]
  /\ pc' = [pc EXCEPT ![s] = "write"]
  /\ UNCHANGED <<written, leaked>>
  /\ WriterUnchanged

\* ... or none came within 100 ms.
Timeout(s) ==
  /\ pc[s] = "wait"
  /\ queue[s] = <<>>
  /\ pc' = [pc EXCEPT ![s] = "loop"]
  /\ UNCHANGED <<queue, packet, written, leaked>>
  /\ WriterUnchanged

\* Mutant: a write empties the queue.
WriteLast(s) ==
  /\ pc[s] = "write"
  /\ written' = [written EXCEPT ![s] = Append(@, packet[s])]
  /\ packet' = [packet EXCEPT ![s] = 0]
  /\ pc' = [pc EXCEPT ![s] = "wait"]
  /\ queue' = [queue EXCEPT ![s] = <<>>]
  /\ UNCHANGED leaked
  /\ WriterUnchanged

Write(s) ==
  /\ pc[s] = "write"
  /\ written' = [written EXCEPT ![s] = Append(@, packet[s])]
  /\ packet' = [packet EXCEPT ![s] = 0]
  /\ pc' = [pc EXCEPT ![s] = "loop"]
  /\ UNCHANGED <<queue, leaked>>
  /\ WriterUnchanged

\* The exception passes by av_packet_free and ends the thread; the sender stays
\* attached and its queue fills up.
WriteFails(s) ==
  /\ "write" \in Faults
  /\ pc[s] = "write"
  /\ leaked' = [leaked EXCEPT ![s] = @ \cup {packet[s]}]
  /\ packet' = [packet EXCEPT ![s] = 0]
  /\ pc' = [pc EXCEPT ![s] = "done"]
  /\ UNCHANGED <<queue, written>>
  /\ WriterUnchanged

-----------------------------------------------------------------------------
(* The server.                                                             *)

LifeUnchanged == UNCHANGED <<forwarded, lock, unserved, packet, written, dropped>>

Start(s) ==
  /\ life[s] = "initialized"
  /\ stop_condition' = [stop_condition EXCEPT ![s] = FALSE]
  /\ pc' = [pc EXCEPT ![s] = "loop"]
  /\ life' = [life EXCEPT ![s] = "started"]
  /\ UNCHANGED <<sinks, queue, leaked>>
  /\ LifeUnchanged

\* The lock is taken and given back in one step: whoever else wants to see the
\* sinks waits for it.
AttachSink(s) ==
  /\ life[s] = "started"
  /\ lock = None
  /\ sinks' = sinks \cup {s}
  /\ life' = [life EXCEPT ![s] = "attached"]
  /\ UNCHANGED <<queue, pc, stop_condition, leaked>>
  /\ LifeUnchanged

Stop(s) ==
  /\ life[s] = "attached"
  /\ stop_condition' = [stop_condition EXCEPT ![s] = TRUE]
  /\ life' = [life EXCEPT ![s] = "stopping"]
  /\ UNCHANGED <<sinks, queue, pc, leaked>>
  /\ LifeUnchanged

Join(s) ==
  /\ life[s] = "stopping"
  /\ pc[s] = "done"
  /\ life' = [life EXCEPT ![s] = "stopped"]
  /\ UNCHANGED <<sinks, queue, pc, stop_condition, leaked>>
  /\ LifeUnchanged

\* Mutant: the lock is not taken.
DetachUnlocked(s) ==
  /\ life[s] = "stopped"
  /\ sinks' = sinks \ {s}
  /\ life' = [life EXCEPT ![s] = "detached"]
  /\ UNCHANGED <<queue, pc, stop_condition, leaked>>
  /\ LifeUnchanged

DetachSink(s) ==
  /\ life[s] = "stopped"
  /\ lock = None
  /\ sinks' = sinks \ {s}
  /\ life' = [life EXCEPT ![s] = "detached"]
  /\ UNCHANGED <<queue, pc, stop_condition, leaked>>
  /\ LifeUnchanged

\* The destructor frees the queue, not the packets it points to.
Destroy(s) ==
  /\ life[s] = "detached"
  /\ leaked' = [leaked EXCEPT ![s] = @ \cup ToSet(queue[s])]
  /\ queue' = [queue EXCEPT ![s] = <<>>]
  /\ life' = [life EXCEPT ![s] = "destroyed"]
  /\ UNCHANGED <<sinks, pc, stop_condition>>
  /\ LifeUnchanged

-----------------------------------------------------------------------------
ForwardStep == (\E s \in Senders : Handle(s)) \/ EndForward

WriterStep(s) == Loop(s) \/ Dequeue(s) \/ Timeout(s) \/ Write(s)

RemovalStep(s) == Join(s) \/ DetachSink(s) \/ Destroy(s)

Next ==
  \/ Forward \/ ForwardStep
  \/ \E s \in Senders : \/ WriterStep(s) \/ WriteFails(s)
                        \/ Start(s) \/ AttachSink(s) \/ Stop(s) \/ RemovalStep(s)

Spec == Init /\ [][Next]_vars

\* Threads are scheduled, the server goes through with a removal, and gets the
\* spinlock that it finds free again and again. Nothing makes the encoder forward
\* a packet or the server attach or stop a sender.
Fairness ==
  /\ WF_vars(ForwardStep)
  /\ \A s \in Senders : /\ WF_vars(WriterStep(s)) /\ WF_vars(RemovalStep(s))
                        /\ SF_vars(DetachSink(s))

FairSpec == Spec /\ Fairness

-----------------------------------------------------------------------------
(* Properties.                                                             *)

\* Type invariant.
TypeOK ==
  /\ forwarded \in 0 .. MaxPackets
  /\ lock \in {None, Encoder}
  /\ sinks \subseteq Senders /\ unserved \subseteq Senders
  /\ queue \in [Senders -> Seq(Packets)]
  /\ \A s \in Senders : Len(queue[s]) <= Capacity
  /\ packet \in [Senders -> 0 .. MaxPackets]
  /\ pc \in [Senders -> {"none", "loop", "wait", "write", "done"}]
  /\ stop_condition \in [Senders -> BOOLEAN]
  /\ life \in [Senders -> {"initialized", "started", "attached", "stopping",
                           "stopped", "detached", "destroyed"}]
  /\ written \in [Senders -> Seq(Packets)]
  /\ dropped \in [Senders -> SUBSET Packets]
  /\ leaked \in [Senders -> SUBSET Packets]

LastWritten(s) == IF written[s] = <<>> THEN 0 ELSE Last(written[s])

Hop == INSTANCE Stream WITH offered <- forwarded, seen <- LastWritten(Observed)

\* Every client gets an ordered part of the stream of the encoder, whatever the
\* other clients, the queue and the removal of sessions do.
OrderedStream == Hop!Spec

\* What may have become of a clone: written, being written, queued, freed or leaked.
Fates(s) == <<ToSet(written[s]), {packet[s]} \ {0}, ToSet(queue[s]), dropped[s],
              leaked[s]>>

Handled(s) == UNION Range(Fates(s))

\* Each packet forwarded while a sender is attached has exactly one fate there:
\* none is lost on the way, and no clone is freed or written twice.
OneFate ==
  \A s \in Senders :
    /\ \A i, j \in 1 .. 5 : i # j => Fates(s)[i] \cap Fates(s)[j] = {}
    /\ IsInjective(written[s]) /\ IsInjective(queue[s])
    /\ \E first, last \in 0 .. forwarded :
         /\ Handled(s) = first + 1 .. last
         /\ s \in sinks \ unserved => last = forwarded
         /\ s \in unserved => last = forwarded - 1

\* The encoder never calls a sender that was destroyed: detachSink does not come
\* back to the removal of the session while forward is still in its loop.
DestroyedNeverCalled ==
  \A s \in Senders : life[s] = "destroyed" => s \notin sinks \cup unserved

\* A thread that is alive writes what is in its queue, although the senders of
\* other clients may be stuck, failing or on their way out.
QueuedWritten ==
  \A s \in Senders : \A p \in Packets :
    p \in ToSet(queue[s])
      ~> p \in ToSet(written[s]) \/ pc[s] = "done"

=============================================================================
