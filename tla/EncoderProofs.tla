---------------------------- MODULE EncoderProofs ----------------------------
(* Proofs about Encoder, for any set of feeders, any codec capacity and      *)
(* delay, and any faults of the external calls.                              *)
EXTENDS Encoder, SequenceTheorems, TLAPS

\* s is a run of consecutive pts that starts at a and stops before b.
Chain(s, a, b) ==
  /\ s = <<>> => a = b
  /\ s # <<>> => /\ s[1] = a
                 /\ NextPts(s[Len(s)]) = b
                 /\ \A i \in 1 .. Len(s) - 1 : s[i + 1] = NextPts(s[i])

\* A feeder that is inside handle(frame) owns the lock of the source.
SourceLocked ==
  \A f \in Feeders :
    pc[f] \in {"handle", "send", "sending", "sent"} => source_lock = f

\* The frame of a feeder inside feedImpl bears the current frame_id.
Stamped ==
  \A f \in Feeders : pc[f] \in {"send", "sending", "sent"} => pts[f] = frame_id

\* Which threads hold a packet, and that flush runs alone and blank comes last.
PacketControl ==
  /\ packet[Drain] # Blank
  /\ pc[Drain] = "forward" <=> packet[Drain] # None
  /\ pc[Main] = "flushforward" <=> packet[Main] # None
  /\ pc[Main] \notin {"run", "join"} => pc[Drain] = "done"
  /\ packet[Main] = Blank => draining /\ codec = <<>>
  /\ out = Blank => /\ draining /\ codec = <<>>
                    /\ pc[Main] \in {"flushed", "stopsource", "joinsource", "done"}

Holding == \E t \in {Drain, Main} : packet[t] \in Pts

\* The first pts the codec must hold, and the first it must not hold yet.
CodecStart == IF Holding THEN NextPts(NextOut) ELSE NextOut
Accepted == \E f \in Feeders : pc[f] = "sent" /\ ret[f] = "ok"
CodecEnd == IF Accepted THEN NextPts(frame_id) ELSE frame_id

\* From the last packet forwarded, through the packet in hand and the codec, to
\* frame_id: one run of consecutive pts.
OneChain ==
  /\ \A t \in {Drain, Main} : packet[t] \in Pts => packet[t] = NextOut
  /\ out # Blank => Chain(codec, CodecStart, CodecEnd)

IInv == TypeOK /\ SourceLocked /\ Stamped /\ PacketControl /\ OneChain

-----------------------------------------------------------------------------
(* Types.                                                                  *)

\* The pts wraps within its range.
LEMMA NextPtsType == ASSUME NEW p \in Pts PROVE NextPts(p) \in Pts
  BY EncoderAssumption, SMT DEF Pts, NextPts

\* The types hold at the beginning.
LEMMA InitType == Init => TypeOK
<1> SUFFICES ASSUME Init PROVE TypeOK
  OBVIOUS
<1>1. /\ pc \in [Threads -> FeederLabels \cup DrainLabels \cup MainLabels]
      /\ \A f \in Feeders : pc[f] \in FeederLabels
      /\ pc[Drain] \in DrainLabels
      /\ pc[Main] \in MainLabels
  BY EncoderAssumption
  DEF Init, Threads, FeederLabels, DrainLabels, MainLabels
<1>2. /\ source_lock \in Feeders \cup {None}
      /\ encoder_lock \in Feeders \cup {Drain, None}
      /\ packet \in [{Drain, Main} -> Pts \cup {None, Blank}]
      /\ out \in Pts \cup {None, Blank}
  BY DEF Init
<1>3. /\ frame_id \in Pts
      /\ pts \in [Feeders -> Pts]
      /\ ret \in [Feeders -> {"ok", "eagain", "eof", "error"}]
      /\ codec \in Seq(Pts)
  BY EncoderAssumption DEF Init, Pts
<1> QED BY <1>1, <1>2, <1>3 DEF Init, TypeOK

\* The steps of a feeder keep the types.
LEMMA FeederType ==
  ASSUME TypeOK, NEW f \in Feeders, FeederStep(f) PROVE TypeOK'
<1> USE EncoderAssumption
    DEF Threads, Goto, stopVars, feedVars, codecVars, FeederLabels, DrainLabels, MainLabels
<1>1. CASE NextFrame(f)
  BY <1>1 DEF TypeOK, NextFrame
<1>2. CASE FeederStops(f)
  BY <1>2 DEF TypeOK, FeederStops
<1>3. CASE Forward(f)
  BY <1>3 DEF TypeOK, Forward
<1>4. CASE Handle(f)
  BY <1>4 DEF TypeOK, Handle
<1>5. CASE EnterSend(f)
  BY <1>5 DEF TypeOK, EnterSend
<1>6. CASE SendFrame(f)
  BY <1>6 DEF TypeOK, SendFrame, SendOutcomes
<1>7. CASE AfterSend(f)
  <2>1. /\ pts' = [pts EXCEPT ![f] = 0] /\ 0 \in Pts
        /\ ret' = [ret EXCEPT ![f] = "ok"]
    BY <1>7 DEF AfterSend, Pts
  <2>2. /\ pts' \in [Feeders -> Pts]
        /\ ret' \in [Feeders -> {"ok", "eagain", "eof", "error"}]
    BY <2>1 DEF TypeOK
  <2>3. frame_id' \in Pts /\ source_lock' \in Feeders \cup {None}
    BY <1>7, NextPtsType DEF TypeOK, AfterSend
  <2>4. /\ pc' \in [Threads -> FeederLabels \cup DrainLabels \cup MainLabels]
        /\ \A g \in Feeders : pc'[g] \in FeederLabels
        /\ pc'[Drain] \in DrainLabels /\ pc'[Main] \in MainLabels
    BY <1>7, SMTT(30) DEF TypeOK, AfterSend, Notified
  <2>5. UNCHANGED <<source_alive, stop_condition, drain_stop_condition, initialized,
                    encoder_lock, codec, draining, packet, out>>
    BY <1>7 DEF AfterSend
  <2> QED BY <2>2, <2>3, <2>4, <2>5 DEF TypeOK
<1> QED BY <1>1, <1>2, <1>3, <1>4, <1>5, <1>6, <1>7 DEF FeederStep


\* What a successful avcodec_receive_packet takes.
LEMMA TakeType ==
  ASSUME TypeOK, "packet" \in ReceiveOutcomes
  PROVE  Head(codec) \in Pts /\ Tail(codec) \in Seq(Pts)
<1>1. codec \in Seq(Pts) /\ codec # <<>>
  BY DEF TypeOK, ReceiveOutcomes, Ready
<1> QED BY <1>1

\* The steps of the drain thread keep the types.
LEMMA DrainType == ASSUME TypeOK, DrainStep \/ SpuriousWakeup PROVE TypeOK'
<1> USE EncoderAssumption
    DEF Threads, Goto, DrainUnchanged, stopVars, feedVars, FeederLabels,
        DrainLabels, MainLabels
<1>1. CASE DrainLoop
  BY <1>1 DEF TypeOK, DrainLoop
<1>2. CASE EnterReceive
  BY <1>2 DEF TypeOK, EnterReceive
<1>3. CASE ReceivePacket
  <2>1. PICK r \in ReceiveOutcomes :
          \/ r = "packet" /\ TakePacket(Drain) /\ Goto(Drain, "forward")
          \/ /\ r # "packet"
             /\ UNCHANGED <<codec, packet>>
             /\ \E l \in DrainLabels : Goto(Drain, l)
    BY <1>3 DEF ReceivePacket
  <2>2. CASE r = "packet"
    <3>1. Head(codec) \in Pts /\ Tail(codec) \in Seq(Pts)
      BY <2>2, TakeType
    <3>2. TakePacket(Drain) /\ Goto(Drain, "forward")
      BY <2>1, <2>2
    <3>3. /\ encoder_lock' = None
          /\ UNCHANGED out
          /\ DrainUnchanged
      BY <1>3 DEF ReceivePacket
    <3> QED BY <3>1, <3>2, <3>3 DEF TypeOK, TakePacket
  <2>3. CASE r # "packet"
    BY <1>3, <2>1, <2>3 DEF TypeOK, ReceivePacket
  <2> QED BY <2>2, <2>3
<1>4. CASE FallAsleep
  BY <1>4 DEF TypeOK, FallAsleep
<1>5. CASE ForwardPacket
  BY <1>5 DEF TypeOK, ForwardPacket
<1>6. CASE SpuriousWakeup
  BY <1>6 DEF TypeOK, SpuriousWakeup
<1> QED BY <1>1, <1>2, <1>3, <1>4, <1>5, <1>6 DEF DrainStep

\* The steps of main's shutdown keep the types.
LEMMA MainType == ASSUME TypeOK, StopDrain \/ ShutdownStep PROVE TypeOK'
<1> USE EncoderAssumption
    DEF Threads, Goto, MainUnchanged, stopVars, codecVars, feedVars, FeederLabels,
        DrainLabels, MainLabels
<1>1. CASE StopDrain
  BY <1>1 DEF TypeOK, StopDrain
<1>2. CASE JoinDrain
  BY <1>2 DEF TypeOK, JoinDrain
<1>3. CASE SendEndOfStream
  BY <1>3 DEF TypeOK, SendEndOfStream
<1>4. CASE FlushReceive
  <2>1. PICK r \in ReceiveOutcomes :
          \/ r = "packet" /\ TakePacket(Main) /\ Goto(Main, "flushforward")
          \/ /\ r # "packet"
             /\ UNCHANGED codec
             /\ packet' = packet \/ packet' = [packet EXCEPT ![Main] = Blank]
             /\ \E l \in MainLabels : Goto(Main, l)
    BY <1>4 DEF FlushReceive
  <2>2. CASE r = "packet"
    <3>1. Head(codec) \in Pts /\ Tail(codec) \in Seq(Pts)
      BY <2>2, TakeType
    <3>2. TakePacket(Main) /\ Goto(Main, "flushforward")
      BY <2>1, <2>2
    <3>3. /\ UNCHANGED <<stopVars, draining, out>>
          /\ MainUnchanged
      BY <1>4 DEF FlushReceive
    <3> QED BY <3>1, <3>2, <3>3 DEF TypeOK, TakePacket
  <2>3. CASE r # "packet"
    BY <1>4, <2>1, <2>3 DEF TypeOK, FlushReceive
  <2> QED BY <2>1, <2>2, <2>3
<1>5. CASE FlushForward
  BY <1>5 DEF TypeOK, FlushForward
<1>6. CASE EndFlush
  BY <1>6 DEF TypeOK, EndFlush
<1>7. CASE StopSource
  BY <1>7 DEF TypeOK, StopSource
<1>8. CASE JoinSource
  BY <1>8 DEF TypeOK, JoinSource
<1> QED BY <1>1, <1>2, <1>3, <1>4, <1>5, <1>6, <1>7, <1>8 DEF ShutdownStep

\* Every step keeps the types.
LEMMA NextType == TypeOK /\ [Next]_vars => TypeOK'
<1> SUFFICES ASSUME TypeOK, [Next]_vars PROVE TypeOK'
  OBVIOUS
<1>1. CASE \E f \in Feeders : FeederStep(f)
  BY <1>1, FeederType
<1>2. CASE SourceDies
  BY <1>2 DEF TypeOK, SourceDies, stopVars, feedVars, codecVars
<1>3. CASE DrainStep \/ SpuriousWakeup
  BY <1>3, DrainType
<1>4. CASE StopDrain \/ ShutdownStep
  BY <1>4, MainType
<1>5. CASE Ended \/ UNCHANGED vars
  BY <1>5 DEF TypeOK, Ended, vars
<1> QED BY <1>1, <1>2, <1>3, <1>4, <1>5 DEF Next

\* Every variable keeps its type.
THEOREM TypeCorrect == Spec => []TypeOK
<1>1. Init => TypeOK
  BY InitType
<1>2. TypeOK /\ [Next]_vars => TypeOK'
  BY NextType
<1> QED BY <1>1, <1>2, PTL DEF Spec

-----------------------------------------------------------------------------
(* Chains.                                                                 *)

\* A chain of stamps that is continued by the stamp after its last one is a chain.
LEMMA ChainAppend ==
  ASSUME NEW s \in Seq(Pts), NEW a \in Pts, NEW b \in Pts, Chain(s, a, b)
  PROVE  Chain(Append(s, b), a, NextPts(b))
<1> DEFINE t == Append(s, b)
<1>1. t \in Seq(Pts) /\ t # <<>> /\ Len(t) = Len(s) + 1 /\ t[Len(t)] = b
      /\ \A i \in 1 .. Len(s) : t[i] = s[i]
  OBVIOUS
<1>2. CASE s = <<>>
  BY <1>1, <1>2 DEF Chain
<1>3. CASE s # <<>>
  <2>1. Len(s) \in Nat /\ Len(s) > 0
    BY <1>3
  <2>2. t[1] = a
    BY <1>1, <1>3, <2>1 DEF Chain
  <2>3. ASSUME NEW i \in 1 .. Len(s) PROVE t[i + 1] = NextPts(t[i])
    <3>1. CASE i = Len(s)
      BY <1>1, <1>3, <2>1, <3>1 DEF Chain
    <3>2. CASE i # Len(s)
      <4>1. i \in 1 .. Len(s) - 1 /\ i + 1 \in 1 .. Len(s)
        BY <2>1, <3>2
      <4> QED BY <1>1, <1>3, <4>1 DEF Chain
    <3> QED BY <3>1, <3>2
  <2>4. Len(t) - 1 = Len(s)
    BY <1>1, <2>1
  <2> HIDE DEF t
  <2> QED BY <1>1, <2>2, <2>3, <2>4 DEF Chain
<1> QED BY <1>2, <1>3

\* A chain of stamps without its first is the chain that begins with the next one.
LEMMA ChainTail ==
  ASSUME NEW s \in Seq(Pts), NEW a \in Pts, NEW b \in Pts, Chain(s, a, b),
         s # <<>>
  PROVE  Head(s) = a /\ Chain(Tail(s), NextPts(a), b)
<1> DEFINE t == Tail(s)
<1>1. /\ Len(s) \in Nat /\ Len(s) > 0
      /\ Head(s) = s[1]
      /\ t \in Seq(Pts) /\ Len(t) = Len(s) - 1
      /\ \A i \in 1 .. Len(t) : t[i] = s[i + 1]
  OBVIOUS
<1> HIDE DEF t
<1>2. s[1] = a /\ NextPts(s[Len(s)]) = b
      /\ \A i \in 1 .. Len(s) - 1 : s[i + 1] = NextPts(s[i])
  BY DEF Chain
<1>3. CASE Len(s) = 1
  <2>1. t = <<>>
    BY <1>1, <1>3, EmptySeq
  <2> QED BY <1>1, <1>2, <1>3, <2>1 DEF Chain, t
<1>4. CASE Len(s) > 1
  <2>1. t # <<>> /\ Len(t) \in Nat /\ Len(t) > 0
    BY <1>1, <1>4, EmptySeq
  <2>2. t[1] = NextPts(a)
    BY <1>1, <1>2, <1>4
  <2>3. t[Len(t)] = s[Len(s)]
    BY <1>1, <2>1
  <2>4. \A i \in 1 .. Len(t) - 1 : t[i + 1] = NextPts(t[i])
    <3> TAKE i \in 1 .. Len(t) - 1
    <3>1. /\ i + 1 \in 1 .. Len(t) /\ i \in 1 .. Len(t)
          /\ i + 1 \in 1 .. Len(s) - 1
      BY <1>1, <2>1
    <3> QED BY <1>1, <1>2, <3>1
  <2> QED BY <1>1, <1>2, <2>1, <2>2, <2>3, <2>4 DEF Chain, t
<1> QED BY <1>1, <1>3, <1>4

-----------------------------------------------------------------------------
(* The inductive invariant.                                                *)

Inside(f) == pc[f] \in {"handle", "send", "sending", "sent"}

\* The lock of the source lets one feeder at a time into handle(frame).
LEMMA OneInside ==
  ASSUME SourceLocked, NEW f \in Feeders, NEW g \in Feeders, Inside(f), Inside(g)
  PROVE  f = g
  BY DEF SourceLocked, Inside

\* The ends of the chain in the codec are stamps.
LEMMA EndTypes ==
  ASSUME TypeOK
  PROVE  /\ NextOut \in Pts \/ out = Blank
         /\ out # Blank => CodecStart \in Pts
         /\ CodecEnd \in Pts
<1>1. frame_id \in Pts /\ out \in Pts \cup {None, Blank} /\ 0 \in Pts
  BY EncoderAssumption DEF TypeOK, Pts
<1>2. NextPts(frame_id) \in Pts /\ (NextOut \in Pts \/ out = Blank)
  BY <1>1, NextPtsType DEF NextOut
<1>3. NextOut \in Pts => NextPts(NextOut) \in Pts
  BY NextPtsType
<1> QED BY <1>1, <1>2, <1>3 DEF CodecStart, CodecEnd

\* A step that touches neither the codec, nor the packets, nor the sinks.
LEMMA SameChain ==
  ASSUME OneChain, UNCHANGED <<codec, packet, out>>, CodecEnd' = CodecEnd
  PROVE  OneChain'
<1>1. CodecStart' = CodecStart /\ NextOut' = NextOut
  BY DEF CodecStart, Holding, NextOut
<1> QED BY <1>1 DEF OneChain, Chain

\* The invariant holds at the beginning.
LEMMA InitIInv == Init => IInv
<1> SUFFICES ASSUME Init PROVE IInv
  OBVIOUS
<1>1. TypeOK
  BY InitType
<1>2. \A f \in Feeders : pc[f] = "next"
  BY EncoderAssumption DEF Init, Threads
<1>3. pc[Drain] = "loop" /\ pc[Main] = "run"
  BY EncoderAssumption DEF Init, Threads
<1>4. packet[Drain] = None /\ packet[Main] = None /\ out = None
  BY DEF Init
<1>5. SourceLocked /\ Stamped
  BY <1>2 DEF SourceLocked, Stamped
<1>6. PacketControl
  BY <1>3, <1>4, EncoderAssumption DEF PacketControl
<1>7. None \notin Pts
  BY EncoderAssumption DEF Pts
<1>8. ~Holding /\ ~Accepted
  BY <1>2, <1>4, <1>7 DEF Holding, Accepted
<1>9. OneChain
  <2>1. \A t \in {Drain, Main} : packet[t] \notin Pts
    BY <1>8 DEF Holding
  <2>2. CodecStart = 0 /\ CodecEnd = 0 /\ codec = <<>>
    BY <1>4, <1>8 DEF CodecStart, CodecEnd, NextOut, Init
  <2> QED BY <2>1, <2>2 DEF OneChain, Chain
<1> QED BY <1>1, <1>5, <1>6, <1>9 DEF IInv

\* A step of the only feeder inside handle(frame), or of one that enters.
LEMMA InsideStep ==
  ASSUME SourceLocked, NEW f \in Feeders,
         Inside(f) \/ source_lock = None, None \notin Feeders,
         \A g \in Feeders \ {f} : pc'[g] = pc[g],
         Inside(f)' => source_lock' = f,
         pc'[f] \in {"send", "sending", "sent"} => pts'[f] = frame_id'
  PROVE  /\ SourceLocked' /\ Stamped'
         /\ \A g \in Feeders \ {f} : ~Inside(g) /\ ~Inside(g)'
<1>1. \A g \in Feeders \ {f} : ~Inside(g) /\ ~Inside(g)'
  BY OneInside DEF SourceLocked, Inside
<1> QED BY <1>1 DEF SourceLocked, Stamped, Inside

\* A step of a feeder may wake up the drain thread and may add to an open codec.
LEMMA ControlStep ==
  ASSUME PacketControl, pc'[Main] = pc[Main],
         pc'[Drain] = pc[Drain] \/ (pc[Drain] = "waiting" /\ pc'[Drain] = "pred"),
         UNCHANGED <<packet, out, draining>>, codec' = codec \/ ~draining
  PROVE  PacketControl'
  BY DEF PacketControl

\* The steps of a feeder.
LEMMA FeederInv ==
  ASSUME IInv, NEW f \in Feeders, FeederStep(f) PROVE IInv'
<1>1. TypeOK'
  BY FeederType DEF IInv
<1>2. TypeOK /\ SourceLocked /\ Stamped /\ PacketControl /\ OneChain
  BY DEF IInv
<1>3. f \notin {Drain, Main} /\ Drain # Main /\ {None, Drain} \cap Feeders = {}
  BY EncoderAssumption
<1>4. pc \in [Threads -> FeederLabels \cup DrainLabels \cup MainLabels]
      /\ f \in Threads /\ Drain \in Threads /\ Main \in Threads
      /\ \A g \in Feeders : g \in Threads
  BY <1>2 DEF TypeOK, Threads
<1>5. ASSUME \E l \in FeederLabels \ {"handle", "send", "sending", "sent"} : Goto(f, l),
             ~Inside(f), source_lock' = source_lock,
             UNCHANGED <<feedVars, codec, draining, packet, out>>
      PROVE  IInv'
  <2>1. PICK l \in FeederLabels \ {"handle", "send", "sending", "sent"} :
          pc' = [pc EXCEPT ![f] = l]
    BY <1>5 DEF Goto
  <2>2. pc'[f] = l /\ \A t \in Threads \ {f} : pc'[t] = pc[t]
    BY <1>4, <2>1
  <2>3. SourceLocked' /\ Stamped'
    BY <1>2, <1>4, <1>5, <2>2 DEF SourceLocked, Stamped, feedVars
  <2>4. PacketControl'
    BY <1>2, <1>3, <1>4, <1>5, <2>2 DEF PacketControl
  <2>5. Accepted' <=> Accepted
    BY <1>4, <1>5, <2>1, <2>2 DEF Accepted, Inside, feedVars
  <2>6. OneChain'
    BY <1>2, <1>5, <2>5, SameChain DEF CodecEnd, feedVars
  <2> QED BY <1>1, <2>3, <2>4, <2>6 DEF IInv
<1>6. CASE NextFrame(f)
  BY <1>5, <1>6 DEF NextFrame, FeederLabels, Inside, codecVars
<1>7. CASE FeederStops(f)
  BY <1>5, <1>7 DEF FeederStops, FeederLabels, Inside, codecVars
<1>8. ASSUME NEW l \in FeederLabels, Goto(f, l),
             Inside(f) \/ source_lock = None,
             l # "next" => source_lock' = f,
             l \in {"send", "sending"} => pts'[f] = frame_id',
             l # "sent", pc[f] # "sent", frame_id' = frame_id,
             UNCHANGED <<codec, draining, packet, out>>
      PROVE  IInv'
  <2>1. pc'[f] = l /\ \A t \in Threads \ {f} : pc'[t] = pc[t]
    BY <1>4, <1>8 DEF Goto
  <2>2. /\ SourceLocked' /\ Stamped'
        /\ \A g \in Feeders \ {f} : ~Inside(g) /\ ~Inside(g)'
    BY <1>2, <1>3, <1>4, <1>8, <2>1, InsideStep DEF Inside
  <2>3. PacketControl'
    BY <1>2, <1>3, <1>4, <1>8, <2>1, ControlStep
  <2>4. ~Accepted /\ ~Accepted'
    BY <1>8, <2>1, <2>2 DEF Accepted, Inside
  <2>5. OneChain'
    BY <1>2, <1>8, <2>4, SameChain DEF CodecEnd
  <2> QED BY <1>1, <2>2, <2>3, <2>5 DEF IInv
<1>9. CASE Forward(f)
  BY <1>8, <1>9 DEF Forward, FeederLabels, feedVars, codecVars
<1>10. CASE Handle(f)
  <2>1. Inside(f)
    BY <1>10 DEF Handle, Inside
  <2>2. CASE Goto(f, "send") /\ pts' = [pts EXCEPT ![f] = frame_id]
             /\ UNCHANGED source_lock
    <3>1. pts'[f] = frame_id /\ source_lock' = f
      BY <1>2, <2>1, <2>2 DEF TypeOK, SourceLocked, Inside
    <3> QED BY <1>8, <1>10, <2>1, <2>2, <3>1 DEF Handle, FeederLabels, codecVars
  <2>3. CASE Goto(f, "next")
    BY <1>8, <1>10, <2>1, <2>3 DEF Handle, FeederLabels, codecVars
  <2> QED BY <1>10, <2>2, <2>3 DEF Handle
<1>11. CASE EnterSend(f)
  <2>1. Inside(f) /\ source_lock = f /\ pts[f] = frame_id
    BY <1>2, <1>11 DEF EnterSend, Inside, SourceLocked, Stamped
  <2> QED BY <1>8, <1>11, <2>1 DEF EnterSend, FeederLabels, feedVars, codecVars
<1>12. CASE SendFrame(f)
  <2>1. pc'[f] = "sent" /\ \A t \in Threads \ {f} : pc'[t] = pc[t]
    BY <1>4, <1>12 DEF SendFrame, Goto
  <2>2. Inside(f) /\ source_lock = f /\ pts[f] = frame_id
    BY <1>2, <1>12 DEF SendFrame, Inside, SourceLocked, Stamped
  <2>3. UNCHANGED <<source_lock, frame_id, pts, draining, packet, out>>
    BY <1>12 DEF SendFrame
  <2>4. PICK r \in SendOutcomes :
          /\ ret' = [ret EXCEPT ![f] = r]
          /\ codec' = IF r = "ok" THEN Append(codec, pts[f]) ELSE codec
    BY <1>12 DEF SendFrame
  <2>5. ret'[f] = r /\ (r = "ok" => ~draining)
    BY <1>2, <2>4 DEF TypeOK, SendOutcomes
  <2>6. /\ SourceLocked' /\ Stamped'
        /\ \A g \in Feeders \ {f} : ~Inside(g) /\ ~Inside(g)'
    BY <1>2, <1>3, <1>4, <2>1, <2>2, <2>3, InsideStep DEF Inside
  <2>7. PacketControl'
    BY <1>2, <1>3, <1>4, <2>1, <2>3, <2>4, <2>5, ControlStep
  <2>8. ~Accepted /\ (Accepted' <=> r = "ok")
    BY <1>12, <2>1, <2>5, <2>6 DEF SendFrame, Accepted, Inside
  <2>9. CASE r = "ok"
    <3>1. codec' = Append(codec, frame_id) /\ CodecEnd = frame_id
          /\ CodecEnd' = NextPts(frame_id)
      BY <2>2, <2>3, <2>4, <2>8, <2>9 DEF CodecEnd
    <3>2. CodecStart' = CodecStart /\ NextOut' = NextOut
      BY <2>3 DEF CodecStart, Holding, NextOut
    <3>3. ASSUME out # Blank
          PROVE  Chain(Append(codec, frame_id), CodecStart, NextPts(frame_id))
      <4>1. Chain(codec, CodecStart, frame_id)
        BY <1>2, <3>1, <3>3 DEF OneChain
      <4>2. codec \in Seq(Pts) /\ CodecStart \in Pts /\ frame_id \in Pts
        BY <1>2, <3>3, EndTypes DEF TypeOK
      <4> QED BY <4>1, <4>2, ChainAppend
    <3>4. OneChain'
      BY <1>2, <2>3, <3>1, <3>2, <3>3 DEF OneChain, Chain
    <3> QED BY <1>1, <2>6, <2>7, <3>4 DEF IInv
  <2>10. CASE r # "ok"
    <3>1. OneChain'
      BY <1>2, <2>3, <2>4, <2>8, <2>10, SameChain DEF CodecEnd
    <3> QED BY <1>1, <2>6, <2>7, <3>1 DEF IInv
  <2> QED BY <2>9, <2>10
<1>13. CASE AfterSend(f)
  <2>1. Inside(f) /\ source_lock = f /\ pc[f] = "sent"
    BY <1>2, <1>13 DEF AfterSend, Inside, SourceLocked
  <2>2. /\ pc'[f] \in {"next", "done"}
        /\ \A t \in Threads \ {f, Drain} : pc'[t] = pc[t]
        /\ pc'[Drain] = pc[Drain] \/ (pc[Drain] = "waiting" /\ pc'[Drain] = "pred")
    BY <1>3, <1>4, <1>13 DEF AfterSend, Notified
  <2>3. UNCHANGED <<codec, draining, packet, out>>
    BY <1>13 DEF AfterSend, codecVars
  <2>4. /\ SourceLocked' /\ Stamped'
        /\ \A g \in Feeders \ {f} : ~Inside(g) /\ ~Inside(g)'
    BY <1>2, <1>3, <1>4, <2>1, <2>2, InsideStep DEF Inside
  <2>5. PacketControl'
    BY <1>2, <1>3, <1>4, <2>2, <2>3, ControlStep
  <2>6. ~Accepted' /\ (Accepted <=> ret[f] = "ok")
    BY <2>1, <2>2, <2>4 DEF Accepted, Inside
  <2>7. frame_id' = IF ret[f] = "ok" THEN NextPts(frame_id) ELSE frame_id
    BY <1>13 DEF AfterSend
  <2>8. OneChain'
    BY <1>2, <2>3, <2>6, <2>7, SameChain DEF CodecEnd
  <2> QED BY <1>1, <2>4, <2>5, <2>8 DEF IInv
<1> QED BY <1>6, <1>7, <1>9, <1>10, <1>11, <1>12, <1>13 DEF FeederStep

\* A step of the drain thread or of main: the feeders do not notice.
LEMMA OtherStep ==
  ASSUME TypeOK, NEW t \in {Drain, Main}, NEW l, Goto(t, l),
         UNCHANGED <<source_lock, feedVars>>
  PROVE  /\ pc'[t] = l /\ \A u \in Threads \ {t} : pc'[u] = pc[u]
         /\ SourceLocked <=> SourceLocked'
         /\ Stamped <=> Stamped'
         /\ CodecEnd' = CodecEnd
<1>1. pc'[t] = l /\ \A u \in Threads \ {t} : pc'[u] = pc[u]
  BY DEF TypeOK, Goto, Threads
<1>2. \A f \in Feeders : pc'[f] = pc[f]
  BY <1>1, EncoderAssumption DEF Threads
<1>3. UNCHANGED <<source_lock, frame_id, pts, ret>>
  BY DEF feedVars
<1>4. Accepted' <=> Accepted
  BY <1>2, <1>3 DEF Accepted
<1> QED BY <1>1, <1>2, <1>3, <1>4 DEF SourceLocked, Stamped, CodecEnd

\* The packet taken is the next one for the sinks.
LEMMA TakeStep ==
  ASSUME IInv, TypeOK', NEW t \in {Drain, Main}, "packet" \in ReceiveOutcomes,
         TakePacket(t), UNCHANGED out, CodecEnd' = CodecEnd,
         packet[Drain] = None, packet[Main] = None, out # Blank
  PROVE  OneChain' /\ \A u \in {Drain, Main} : packet'[u] \in IF u = t THEN Pts ELSE {None}
<1>1. TypeOK /\ OneChain /\ None \notin Pts
  BY EncoderAssumption DEF IInv, Pts
<1>2. codec \in Seq(Pts) /\ codec # <<>>
  BY <1>1 DEF TypeOK, ReceiveOutcomes, Ready
<1>3. CodecStart = NextOut /\ NextOut' = NextOut /\ NextOut \in Pts
      /\ CodecEnd \in Pts
  BY <1>1, EndTypes DEF CodecStart, Holding, NextOut
<1>4. Head(codec) = NextOut /\ Chain(Tail(codec), NextPts(NextOut), CodecEnd)
  BY <1>1, <1>2, <1>3, ChainTail DEF OneChain
<1>5. packet' = [packet EXCEPT ![t] = NextOut] /\ codec' = Tail(codec)
  BY <1>4 DEF TakePacket
<1>6. packet'[t] = NextOut /\ \A u \in {Drain, Main} \ {t} : packet'[u] = None
  BY <1>1, <1>5 DEF TypeOK
<1>7. CodecStart' = NextPts(NextOut)
  BY <1>3, <1>6 DEF CodecStart, Holding
<1>8. Chain(codec', CodecStart', CodecEnd')
  BY <1>4, <1>5, <1>7
<1>9. \A u \in {Drain, Main} : packet'[u] \in Pts => packet'[u] = NextOut'
  BY <1>1, <1>3, <1>6
<1> QED BY <1>1, <1>3, <1>6, <1>8, <1>9 DEF OneChain, Chain

\* The packet in hand is forwarded, and no other is in hand.
LEMMA ForwardStep ==
  ASSUME IInv, TypeOK', NEW t \in {Drain, Main}, packet[t] \in Pts,
         \A u \in {Drain, Main} \ {t} : packet[u] = None,
         out' = packet[t], packet' = [packet EXCEPT ![t] = None],
         UNCHANGED codec, CodecEnd' = CodecEnd, out # Blank
  PROVE  OneChain' /\ out' = NextOut /\ out' # Blank
         /\ \A u \in {Drain, Main} : packet'[u] = None
<1>1. TypeOK /\ OneChain /\ None \notin Pts /\ Blank \notin Pts
  BY EncoderAssumption DEF IInv, Pts
<1>2. out' = NextOut /\ out' # None /\ out' # Blank
  BY <1>1 DEF OneChain
<1>3. \A u \in {Drain, Main} : packet'[u] = None
  BY <1>1 DEF TypeOK
<1>4. CodecStart = NextPts(NextOut)
  BY DEF CodecStart, Holding
<1>5. CodecStart' = NextPts(NextOut)
  <2>1. ~Holding' /\ NextOut' = NextPts(out')
    BY <1>1, <1>2, <1>3 DEF Holding, NextOut
  <2> QED BY <1>2, <2>1 DEF CodecStart
<1>6. Chain(codec, CodecStart, CodecEnd)
  BY <1>1 DEF OneChain
<1> QED BY <1>1, <1>2, <1>3, <1>4, <1>5, <1>6 DEF OneChain, Chain

\* The steps of the drain thread.
LEMMA DrainInv == ASSUME IInv, DrainStep \/ SpuriousWakeup PROVE IInv'
<1>1. TypeOK'
  BY DrainType DEF IInv
<1>2. TypeOK /\ SourceLocked /\ Stamped /\ PacketControl /\ OneChain
  BY DEF IInv
<1>3. Drain # Main /\ Drain \in Threads /\ Main \in Threads
      /\ None \notin Pts /\ Blank \notin Pts /\ None # Blank
  BY EncoderAssumption DEF Threads, Pts
<1>4. ASSUME \E l \in DrainLabels \ {"forward"} : Goto(Drain, l), DrainUnchanged,
             pc[Drain] \notin {"done", "forward"}, UNCHANGED <<codec, packet, out>>
      PROVE  IInv'
  <2>1. PICK l \in DrainLabels \ {"forward"} : Goto(Drain, l)
    BY <1>4
  <2>2. /\ pc'[Drain] = l /\ pc'[Main] = pc[Main]
        /\ SourceLocked' /\ Stamped' /\ CodecEnd' = CodecEnd
    BY <1>2, <1>3, <1>4, <2>1, OtherStep DEF DrainUnchanged
  <2>3. PacketControl'
    BY <1>2, <1>4, <2>2 DEF PacketControl, DrainUnchanged
  <2>4. OneChain'
    BY <1>2, <1>4, <2>2, SameChain
  <2> QED BY <1>1, <2>2, <2>3, <2>4 DEF IInv
<1>5. CASE DrainLoop
  BY <1>4, <1>5 DEF DrainLoop, DrainLabels
<1>6. CASE EnterReceive
  BY <1>4, <1>6 DEF EnterReceive, DrainLabels
<1>7. CASE FallAsleep
  BY <1>4, <1>7 DEF FallAsleep, DrainLabels
<1>8. CASE SpuriousWakeup
  BY <1>4, <1>8 DEF SpuriousWakeup, DrainLabels
<1>9. CASE ReceivePacket
  <2>1. PICK r \in ReceiveOutcomes :
          \/ r = "packet" /\ TakePacket(Drain) /\ Goto(Drain, "forward")
          \/ /\ r # "packet"
             /\ UNCHANGED <<codec, packet>>
             /\ \E l \in DrainLabels \ {"forward"} : Goto(Drain, l)
    BY <1>9 DEF ReceivePacket, DrainLabels
  <2>2. pc[Drain] \in {"trying", "predicate"} /\ UNCHANGED out /\ DrainUnchanged
    BY <1>9 DEF ReceivePacket
  <2>3. CASE r # "packet"
    BY <1>4, <2>1, <2>2, <2>3
  <2>4. CASE r = "packet"
    <3>1. TakePacket(Drain) /\ Goto(Drain, "forward")
      BY <2>1, <2>4
    <3>2. /\ pc'[Drain] = "forward" /\ pc'[Main] = pc[Main]
          /\ SourceLocked' /\ Stamped' /\ CodecEnd' = CodecEnd
      BY <1>2, <1>3, <2>2, <3>1, OtherStep DEF DrainUnchanged
    <3>3. /\ packet[Drain] = None /\ packet[Main] = None /\ out # Blank
          /\ pc[Main] \in {"run", "join"}
      BY <1>2, <2>2 DEF PacketControl
    <3>4. OneChain' /\ packet'[Drain] \in Pts /\ packet'[Main] = None
      BY <1>1, <1>3, <2>2, <2>4, <3>1, <3>2, <3>3, TakeStep
    <3>5. PacketControl'
      BY <1>2, <1>3, <2>2, <3>2, <3>3, <3>4 DEF PacketControl, DrainUnchanged
    <3> QED BY <1>1, <3>2, <3>4, <3>5 DEF IInv
  <2> QED BY <2>3, <2>4
<1>10. CASE ForwardPacket
  <2>1. pc[Drain] = "forward" /\ Goto(Drain, "loop") /\ DrainUnchanged
        /\ out' = packet[Drain] /\ packet' = [packet EXCEPT ![Drain] = None]
        /\ UNCHANGED codec
    BY <1>10 DEF ForwardPacket
  <2>2. /\ pc'[Drain] = "loop" /\ pc'[Main] = pc[Main]
        /\ SourceLocked' /\ Stamped' /\ CodecEnd' = CodecEnd
    BY <1>2, <1>3, <2>1, OtherStep DEF DrainUnchanged
  <2>3. /\ packet[Drain] \in Pts /\ packet[Main] = None /\ out # Blank
        /\ pc[Main] \in {"run", "join"}
    BY <1>2, <1>3, <2>1 DEF PacketControl, TypeOK
  <2>4. OneChain' /\ out' # Blank /\ packet'[Drain] = None /\ packet'[Main] = None
    BY <1>1, <1>3, <2>1, <2>2, <2>3, ForwardStep
  <2>5. PacketControl'
    BY <1>2, <1>3, <2>1, <2>2, <2>3, <2>4 DEF PacketControl, DrainUnchanged
  <2> QED BY <1>1, <2>2, <2>4, <2>5 DEF IInv
<1> QED BY <1>5, <1>6, <1>7, <1>8, <1>9, <1>10 DEF DrainStep

\* The steps of main.
LEMMA MainInv == ASSUME IInv, StopDrain \/ ShutdownStep PROVE IInv'
<1>1. TypeOK'
  BY MainType DEF IInv
<1>2. TypeOK /\ SourceLocked /\ Stamped /\ PacketControl /\ OneChain
  BY DEF IInv
<1>3. Drain # Main /\ Drain \in Threads /\ Main \in Threads
      /\ None \notin Pts /\ Blank \notin Pts /\ None # Blank
  BY EncoderAssumption DEF Threads, Pts
<1>4. ASSUME NEW l \in MainLabels \ {"run", "flushforward"}, Goto(Main, l), MainUnchanged,
             pc[Main] # "flushforward",
             l # "join" => pc[Drain] = "done",
             out = Blank => l \in {"flushed", "stopsource", "joinsource", "done"},
             UNCHANGED <<codec, packet, out>>, draining => draining'
      PROVE  IInv'
  <2>1. /\ pc'[Main] = l /\ pc'[Drain] = pc[Drain]
        /\ SourceLocked' /\ Stamped' /\ CodecEnd' = CodecEnd
    BY <1>2, <1>3, <1>4, OtherStep DEF MainUnchanged
  <2>2. PacketControl'
    BY <1>2, <1>4, <2>1 DEF PacketControl
  <2>3. OneChain'
    BY <1>2, <1>4, <2>1, SameChain
  <2> QED BY <1>1, <2>1, <2>2, <2>3 DEF IInv
<1>5. CASE StopDrain
  BY <1>2, <1>4, <1>5 DEF StopDrain, PacketControl, MainLabels, codecVars
<1>6. CASE JoinDrain
  BY <1>2, <1>4, <1>6 DEF JoinDrain, PacketControl, MainLabels, codecVars
<1>7. CASE SendEndOfStream
  <2>1. PICK r \in SendOutcomes :
          /\ draining' = (draining \/ r = "ok")
          /\ Goto(Main, IF r \in {"ok", "eagain"} THEN "receiving" ELSE "flushed")
    BY <1>7 DEF SendEndOfStream
  <2> QED BY <1>2, <1>4, <1>7, <2>1 DEF SendEndOfStream, PacketControl, MainLabels
<1>8. CASE EndFlush
  BY <1>2, <1>4, <1>8 DEF EndFlush, PacketControl, MainLabels, codecVars
<1>9. CASE StopSource
  BY <1>2, <1>4, <1>9 DEF StopSource, PacketControl, MainLabels, codecVars
<1>10. CASE JoinSource
  BY <1>2, <1>4, <1>10 DEF JoinSource, PacketControl, MainLabels, codecVars
<1>11. CASE FlushReceive
  <2>1. /\ pc[Main] = "receiving" /\ UNCHANGED <<stopVars, draining, out>>
        /\ MainUnchanged
    BY <1>11 DEF FlushReceive
  <2>2. /\ pc[Drain] = "done" /\ packet[Drain] = None /\ packet[Main] = None
        /\ out # Blank
    BY <1>2, <2>1 DEF PacketControl
  <2>3. CASE /\ "packet" \in ReceiveOutcomes /\ TakePacket(Main)
             /\ Goto(Main, "flushforward")
    <3>1. /\ pc'[Main] = "flushforward" /\ pc'[Drain] = pc[Drain]
          /\ SourceLocked' /\ Stamped' /\ CodecEnd' = CodecEnd
      BY <1>2, <1>3, <2>1, <2>3, OtherStep DEF MainUnchanged
    <3>2. OneChain' /\ packet'[Main] \in Pts /\ packet'[Drain] = None
      BY <1>1, <1>3, <2>1, <2>2, <2>3, <3>1, TakeStep
    <3>3. PacketControl'
      BY <1>2, <1>3, <2>1, <2>2, <3>1, <3>2 DEF PacketControl
    <3> QED BY <1>1, <3>1, <3>2, <3>3 DEF IInv
  <2>4. CASE /\ "eof" \in ReceiveOutcomes /\ Goto(Main, "flushforward")
             /\ packet' = [packet EXCEPT ![Main] = Blank] /\ UNCHANGED codec
    <3>1. /\ pc'[Main] = "flushforward" /\ pc'[Drain] = pc[Drain]
          /\ SourceLocked' /\ Stamped' /\ CodecEnd' = CodecEnd
      BY <1>2, <1>3, <2>1, <2>4, OtherStep DEF MainUnchanged
    <3>2. draining /\ codec = <<>>
      BY <2>4 DEF ReceiveOutcomes, Ready
    <3>3. packet'[Main] = Blank /\ packet'[Drain] = None
      BY <1>2, <1>3, <2>2, <2>4 DEF TypeOK
    <3>4. PacketControl'
      BY <1>2, <1>3, <2>1, <2>2, <2>4, <3>1, <3>2, <3>3 DEF PacketControl
    <3>5. ~Holding /\ ~Holding'
      BY <1>3, <2>2, <3>3 DEF Holding
    <3>6. CodecStart' = CodecStart
      BY <2>1, <3>5 DEF CodecStart, NextOut
    <3>7. OneChain'
      BY <1>2, <1>3, <2>1, <2>4, <3>1, <3>3, <3>6 DEF OneChain, Chain
    <3> QED BY <1>1, <3>1, <3>4, <3>7 DEF IInv
  <2>5. CASE Goto(Main, "flushed") /\ UNCHANGED <<codec, packet>>
    BY <1>4, <2>1, <2>2, <2>5 DEF MainLabels
  <2> QED BY <1>11, <2>3, <2>4, <2>5 DEF FlushReceive
<1>12. CASE FlushForward
  <2>1. /\ pc[Main] = "flushforward" /\ out' = packet[Main]
        /\ packet' = [packet EXCEPT ![Main] = None]
        /\ UNCHANGED <<codec, draining>> /\ MainUnchanged
        /\ Goto(Main, IF packet[Main] = Blank THEN "flushed" ELSE "receiving")
    BY <1>12 DEF FlushForward, codecVars
  <2>2. /\ pc'[Main] = IF packet[Main] = Blank THEN "flushed" ELSE "receiving"
        /\ pc'[Drain] = pc[Drain]
        /\ SourceLocked' /\ Stamped' /\ CodecEnd' = CodecEnd
    BY <1>2, <1>3, <2>1, OtherStep DEF MainUnchanged
  <2>3. /\ pc[Drain] = "done" /\ packet[Drain] = None /\ out # Blank
        /\ packet[Main] \in Pts \cup {Blank}
        /\ packet[Main] = Blank => draining /\ codec = <<>>
    BY <1>2, <2>1 DEF PacketControl, TypeOK
  <2>4. CASE packet[Main] \in Pts
    <3>1. OneChain' /\ out' # Blank /\ packet'[Drain] = None /\ packet'[Main] = None
      BY <1>1, <1>3, <2>1, <2>2, <2>3, <2>4, ForwardStep
    <3>2. PacketControl'
      BY <1>2, <1>3, <2>1, <2>2, <2>3, <2>4, <3>1 DEF PacketControl
    <3> QED BY <1>1, <2>2, <3>1, <3>2 DEF IInv
  <2>5. CASE packet[Main] = Blank
    <3>1. packet'[Drain] = None /\ packet'[Main] = None /\ out' = Blank
      BY <1>2, <1>3, <2>1, <2>3, <2>5 DEF TypeOK
    <3>2. PacketControl'
      BY <1>2, <1>3, <2>1, <2>2, <2>3, <2>5, <3>1 DEF PacketControl
    <3>3. OneChain'
      BY <1>3, <3>1 DEF OneChain
    <3> QED BY <1>1, <2>2, <3>2, <3>3 DEF IInv
  <2> QED BY <2>3, <2>4, <2>5
<1> QED BY <1>5, <1>6, <1>7, <1>8, <1>9, <1>10, <1>11, <1>12 DEF ShutdownStep

\* Every step of the feeders, the drain thread and main keeps the invariant.
LEMMA NextIInv == IInv /\ [Next]_vars => IInv'
<1> SUFFICES ASSUME IInv, [Next]_vars PROVE IInv'
  OBVIOUS
<1>1. TypeOK'
  BY NextType DEF IInv
<1>2. CASE \E f \in Feeders : FeederStep(f)
  BY <1>2, FeederInv
<1>3. CASE DrainStep \/ SpuriousWakeup
  BY <1>3, DrainInv
<1>4. CASE StopDrain \/ ShutdownStep
  BY <1>4, MainInv
<1>5. CASE SourceDies \/ Ended \/ UNCHANGED vars
  <2>1. UNCHANGED <<pc, source_lock, frame_id, pts, ret, codec, draining, packet, out>>
    BY <1>5 DEF SourceDies, Ended, vars, feedVars, codecVars
  <2>2. SourceLocked' /\ Stamped' /\ PacketControl'
    BY <2>1 DEF IInv, SourceLocked, Stamped, PacketControl
  <2>3. CodecEnd' = CodecEnd
    BY <2>1 DEF CodecEnd, Accepted
  <2>4. OneChain'
    BY <2>1, <2>3, SameChain DEF IInv
  <2> QED BY <1>1, <2>2, <2>4 DEF IInv
<1> QED BY <1>2, <1>3, <1>4, <1>5 DEF Next

\* Between frame_id and the sinks lies one run of consecutive pts.
THEOREM ChainCorrect == Spec => []IInv
<1>1. Init => IInv
  BY InitIInv
<1>2. IInv /\ [Next]_vars => IInv'
  BY NextIInv
<1> QED BY <1>1, <1>2, PTL DEF Spec

\* Whatever the threads do, and whatever fails, what the sinks see is in order.
THEOREM OrderCorrect == Spec => InOrder
<1> DEFINE Ordered == /\ out # Blank /\ out' \in {NextOut, Blank}
                      /\ out' = Blank => codec' = <<>>
<1>1. ASSUME IInv, [Next]_vars
      PROVE  [out' # out => Ordered]_vars
  <2> SUFFICES ASSUME out' # out PROVE Ordered
    OBVIOUS
  <2>1. CASE ForwardPacket
    <3>1. pc[Drain] = "forward" /\ out' = packet[Drain]
      BY <2>1 DEF ForwardPacket
    <3>2. packet[Drain] \in Pts /\ out # Blank
      BY <1>1, <3>1 DEF IInv, TypeOK, PacketControl
    <3>3. out' # Blank
      BY <3>1, <3>2, EncoderAssumption DEF Pts
    <3> QED BY <1>1, <3>1, <3>2, <3>3 DEF IInv, OneChain
  <2>2. CASE FlushForward
    <3>1. pc[Main] = "flushforward" /\ out' = packet[Main] /\ codec' = codec
      BY <2>2 DEF FlushForward, codecVars
    <3>2. packet[Main] \in Pts \cup {Blank} /\ out # Blank
      BY <1>1, <3>1 DEF IInv, TypeOK, PacketControl
    <3>3. packet[Main] = Blank => codec = <<>>
      BY <1>1 DEF IInv, PacketControl
    <3> QED BY <1>1, <3>1, <3>2, <3>3 DEF IInv, OneChain
  <2>3. CASE ~ForwardPacket /\ ~FlushForward
    <3>1. out' = out
      BY <1>1, <2>3
      DEF Next, FeederStep, NextFrame, FeederStops, Forward, Handle, EnterSend,
          SendFrame, AfterSend, SourceDies, DrainStep, DrainLoop, EnterReceive,
          ReceivePacket, FallAsleep, SpuriousWakeup, StopDrain, ShutdownStep,
          JoinDrain, SendEndOfStream, FlushReceive, EndFlush, StopSource,
          JoinSource, Ended, vars
    <3> QED BY <3>1
  <2> QED BY <2>1, <2>2, <2>3
<1>2. []IInv /\ [][Next]_vars => [][out' # out => Ordered]_vars
  BY <1>1, PTL
<1> QED BY <1>2, ChainCorrect, PTL DEF Spec, InOrder

-----------------------------------------------------------------------------
(* The codec is used by one thread at a time, but for flush.               *)

\* A feeder or the drain thread that is inside the codec owns encoder_lock.
EncoderLocked ==
  /\ \A f \in Feeders : pc[f] = "sending" => encoder_lock = f
  /\ pc[Drain] \in {"trying", "predicate"} => encoder_lock = Drain

\* What the others do leaves a thread outside of the codec outside.
LEMMA FeederLocked ==
  ASSUME TypeOK, EncoderLocked, NEW f \in Feeders, FeederStep(f)
  PROVE  EncoderLocked'
<1> USE EncoderAssumption DEF EncoderLocked, TypeOK, Threads, Goto
<1>1. CASE EnterSend(f)
  BY <1>1 DEF EnterSend, DrainLabels
<1>2. CASE SendFrame(f)
  BY <1>2 DEF SendFrame
<1>3. CASE NextFrame(f) \/ FeederStops(f) \/ Forward(f) \/ Handle(f)
  BY <1>3 DEF NextFrame, FeederStops, Forward, Handle
<1>4. CASE AfterSend(f)
  <2>1. /\ encoder_lock' = encoder_lock /\ pc'[f] # "sending"
        /\ \A g \in Feeders \ {f} : pc'[g] = pc[g]
        /\ pc'[Drain] = pc[Drain] \/ pc'[Drain] = "pred"
    BY <1>4 DEF AfterSend, Notified
  <2> QED BY <2>1
<1> QED BY <1>1, <1>2, <1>3, <1>4 DEF FeederStep

\* The drain thread enters and leaves the codec with the lock.
LEMMA DrainLocked ==
  ASSUME TypeOK, EncoderLocked, DrainStep \/ SpuriousWakeup
  PROVE  EncoderLocked'
<1> USE EncoderAssumption DEF EncoderLocked, TypeOK, Threads, Goto
<1>1. CASE EnterReceive
  BY <1>1 DEF EnterReceive
<1>2. CASE ReceivePacket
  BY <1>2 DEF ReceivePacket
<1>3. CASE DrainLoop \/ FallAsleep \/ SpuriousWakeup \/ ForwardPacket
  BY <1>3 DEF DrainLoop, FallAsleep, SpuriousWakeup, ForwardPacket
<1> QED BY <1>1, <1>2, <1>3 DEF DrainStep

\* Every step of the feeders, the drain thread and main keeps the codec locked.
LEMMA NextLocked == TypeOK /\ EncoderLocked /\ [Next]_vars => EncoderLocked'
<1> SUFFICES ASSUME TypeOK, EncoderLocked, [Next]_vars PROVE EncoderLocked'
  OBVIOUS
<1>1. CASE \E f \in Feeders : FeederStep(f)
  BY <1>1, FeederLocked
<1>2. CASE DrainStep \/ SpuriousWakeup
  BY <1>2, DrainLocked
<1>3. CASE StopDrain \/ ShutdownStep
  <2>1. encoder_lock' = encoder_lock
    BY <1>3 DEF StopDrain, ShutdownStep, JoinDrain, SendEndOfStream, FlushReceive,
                FlushForward, EndFlush, StopSource, JoinSource, MainUnchanged
  <2>2. \A t \in Feeders \cup {Drain} : pc'[t] = pc[t]
    BY <1>3, EncoderAssumption
    DEF TypeOK, Threads, Goto, StopDrain, ShutdownStep, JoinDrain, SendEndOfStream,
        FlushReceive, FlushForward, EndFlush, StopSource, JoinSource
  <2> QED BY <2>1, <2>2 DEF EncoderLocked
<1>4. CASE SourceDies \/ Ended \/ UNCHANGED vars
  BY <1>4 DEF EncoderLocked, SourceDies, Ended, vars
<1> QED BY <1>1, <1>2, <1>3, <1>4 DEF Next

\* encoder_lock lets one thread at a time into the codec (feedImpl, drainImpl).
THEOREM LockCorrect == Spec => []EncoderLocked
<1>1. Init => EncoderLocked
  BY EncoderAssumption DEF Init, EncoderLocked, Threads
<1> QED BY <1>1, NextLocked, TypeCorrect, PTL DEF Spec

\* Only flush of main, which does not take the lock, meets another thread inside the
\* codec, and that thread is a feeder: the drain thread has been joined (Encoder::stop).
THEOREM IntrusionCorrect == Spec => []OnlyFlushIntrudes
<1>1. IInv /\ EncoderLocked => OnlyFlushIntrudes
  <2> SUFFICES ASSUME IInv, EncoderLocked,
                      NEW t \in Threads, NEW u \in Threads,
                      t # u, InCodec(t), InCodec(u)
               PROVE  Main \in {t, u} /\ {t, u} \ {Main} \subseteq Feeders
    BY DEF OnlyFlushIntrudes
  <2>1. ASSUME NEW v \in Feeders \cup {Drain}, InCodec(v) PROVE encoder_lock = v
    BY <2>1, EncoderAssumption
    DEF InCodec, IInv, TypeOK, EncoderLocked, FeederLabels, DrainLabels
  <2>2. InCodec(Main) => ~InCodec(Drain)
    BY DEF InCodec, IInv, TypeOK, PacketControl, MainLabels
  <2> QED BY <2>1, <2>2 DEF Threads
<1> QED BY <1>1, ChainCorrect, LockCorrect, PTL
=============================================================================
