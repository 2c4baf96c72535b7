------------------------ MODULE CommandStreamProofs ------------------------
(***************************************************************************)
(* Theorems about CommandStream, for any buffer, padding and stream: its   *)
(* types, and the two bounds on what a fixed stream_buffer can do to the   *)
(* commands. What makes them inductive is that outside the parsing loop    *)
(* the buffer begins at the first byte not parsed, and with a frame that   *)
(* is not complete.                                                        *)
(*                                                                         *)
(* Then that the framing is exact and that the answers can be told apart.  *)
(* Both are about a recursive function on streams: a smallest position or  *)
(* length at which they fail takes the place of an induction.              *)
(***************************************************************************)
EXTENDS CommandStream, SequenceTheorems, WellFoundedInduction, TLAPS

Parsing == pc \notin {"select", "recv", "udp"}

\* select has told the truth about the UDP socket.
ReadyHolds == pc \in {"recv", "parse", "describe", "write"} /\ "udp" \in ready => pending > 0

\* While the client was never ahead, what it has on its way fits.
Paced ==
  /\ crowded \/ Outstanding <= Capacity - Padding
  /\ crowded \/ Len(buffer) <= Capacity - Padding
  /\ PacedClientLosesNothing

\* Outside of the parsing loop the buffer begins with an incomplete frame.
Waits ==
  ~Parsing =>
    /\ start_offset = 1
    /\ Len(buffer) >= HeaderSize =>
         /\ buffer[1] = Delimiter
         /\ HeaderSize + Base * buffer[2] + buffer[3] > Len(buffer)

IInv == TypeOK /\ ReadyHolds /\ Paced /\ Waits

-----------------------------------------------------------------------------
\* What the assumption on the constants gives, in the form the other proofs use.
LEMMA BaseFacts ==
  /\ Base \in Nat \ {0, 1} /\ Capacity \in Nat /\ Padding \in Nat
  /\ Capacity > HeaderSize + Padding /\ HeaderSize = 3
  /\ MaxDatagrams \in Nat /\ MaxPending \in Nat /\ SendRoom \in Nat \ {0}
  /\ Byte \subseteq Nat /\ Delimiter \in Byte /\ 0 \in Byte
<1>1. Base \in Nat /\ Base > 1 /\ Capacity \in Nat /\ Padding \in Nat
      /\ Capacity > HeaderSize + Padding
      /\ MaxDatagrams \in Nat /\ MaxPending \in Nat /\ SendRoom \in Nat \ {0}
  BY CommandStreamAssumption
<1>2. Base - 1 \in 0 .. Base - 1 /\ 0 \in 0 .. Base - 1 /\ 0 .. Base - 1 \subseteq Nat
  BY <1>1
<1> QED BY <1>1, <1>2 DEF HeaderSize, Byte, Delimiter

\* There is an answer, and its size is a number.
LEMMA SdpsFacts ==
  /\ Sdps \in Seq(Nat) /\ Len(Sdps) \in Nat \ {0}
  /\ \A i \in 1 .. Len(Sdps) : Sdps[i] \in Nat
<1>1. Sdps \in Seq(Nat) /\ Sdps # <<>>
  BY CommandStreamAssumption
<1>2. Len(Sdps) # 0
  BY <1>1, EmptySeq
<1> QED BY <1>1, <1>2

\* The product of two natural numbers is one: the solver needs it spelt out.
LEMMA ProductNat == ASSUME NEW a \in Nat, NEW b \in Nat PROVE a * b \in Nat
OBVIOUS

\* The bytes of a header lie in the buffer, and the next offset behind them.
LEMMA Header ==
  ASSUME TypeOK, HeaderComplete
  PROVE  /\ start_offset \in Nat \ {0} /\ Len(buffer) \in Nat
         /\ start_offset + 2 <= Len(buffer)
         /\ MsgSize \in Nat /\ NextOffset = start_offset + 3 + MsgSize
<1>1. buffer \in Seq(Byte) /\ Len(buffer) \in Nat /\ start_offset \in 1 .. Len(buffer) + 1
  BY DEF TypeOK
<1>2. start_offset + 2 <= Len(buffer) /\ start_offset \in Nat \ {0}
  BY <1>1, BaseFacts DEF HeaderComplete
<1>3. buffer[start_offset + 1] \in Byte /\ buffer[start_offset + 2] \in Byte
  BY <1>1, <1>2
<1>4. Base \in Nat /\ buffer[start_offset + 1] \in Nat /\ buffer[start_offset + 2] \in Nat
  BY <1>3, BaseFacts
<1>5. MsgSize \in Nat
  BY <1>4, ProductNat DEF MsgSize
<1> QED BY <1>1, <1>2, <1>5, BaseFacts DEF NextOffset

\* A message is a sequence of bytes.
LEMMA MessageTyped ==
  ASSUME NEW size \in Nat, NEW shifted \in BOOLEAN
  PROVE  Message(size, shifted) \in Seq(Byte)
<1>1. size % Base \in Byte
  <2>1. size % Base \in 0 .. Base - 1
    BY BaseFacts
  <2> QED BY <2>1 DEF Byte
<1>2. [i \in 1 .. size |-> 0] \in Seq(Byte)
  BY BaseFacts
<1>3. <<Delimiter, 0, IF shifted THEN 0 ELSE size % Base>> \in Seq(Byte)
  BY <1>1, BaseFacts
<1> QED BY <1>2, <1>3 DEF Message

\* The next part of an answer is one of them, and the thread stays with the stream.
LEMMA NextPartTyped ==
  ASSUME TypeOK, NextPart
  PROVE  part' \in 1 .. Len(Sdps) /\ pc' \in {"describe", "parse"}
BY SdpsFacts DEF TypeOK, NextPart

-----------------------------------------------------------------------------
\* The invariant holds when the session starts.
LEMMA InitInv == Init => IInv
<1> SUFFICES ASSUME Init PROVE IInv
  OBVIOUS
<1>1. TypeOK
  <2>1. <<>> \in Seq(Byte) /\ <<>> \in Seq(Seq(Byte)) /\ Len(<<>>) = 0
    OBVIOUS
  <2>2. 0 \in 0 .. MaxDatagrams /\ 0 \in 0 .. MaxPending /\ 1 \in 1 .. 0 + 1 /\ 0 <= Capacity
    BY BaseFacts
  <2>3. 1 \in 1 .. Len(Sdps) /\ 0 \in 0 .. SendRoom
    BY BaseFacts, SdpsFacts
  <2> QED BY <2>1, <2>2, <2>3 DEF Init, TypeOK
<1>2. ReadyHolds
  BY DEF Init, ReadyHolds
<1>3. Paced
  BY BaseFacts DEF Init, Paced, Outstanding, PacedClientLosesNothing
<1>4. Waits
  BY BaseFacts DEF Init, Waits, Parsing
<1> QED BY <1>1, <1>2, <1>3, <1>4 DEF IInv

\* The client.
LEMMA ClientInv == ASSUME IInv, Client PROVE IInv'
<1>1. TypeOK
  BY DEF IInv
<1>2. UNCHANGED <<buffer, start_offset, handled, answers, part, broken, lost, ready, pc>>
  BY DEF Client, SendByte, Close, ReadAnswer, SendDatagram, parseVars, writeVars
<1>3. Len(wire) \in Nat /\ Len(buffer) \in Nat /\ start_offset \in Nat
  BY <1>1 DEF TypeOK
<1>8. unread' \in 0 .. SendRoom
  <2>1. unread \in 0 .. SendRoom /\ SendRoom \in Nat
    BY <1>1, BaseFacts DEF TypeOK
  <2>2. unread' = unread \/ (unread > 0 /\ unread' = unread - 1)
    BY DEF Client, SendByte, Close, ReadAnswer, SendDatagram, parseVars, writeVars
  <2> QED BY <2>1, <2>2
<1>9. CASE ReadAnswer
  <2>1. UNCHANGED <<sent, wire, closed, crowded, offered, pending>>
    BY <1>9 DEF ReadAnswer, clientVars
  <2>2. TypeOK' /\ ReadyHolds'
    BY <1>1, <1>2, <1>8, <2>1 DEF TypeOK, IInv, ReadyHolds
  <2>3. Paced'
    BY <1>2, <2>1 DEF IInv, Paced, PacedClientLosesNothing, Outstanding
  <2>4. Waits'
    BY <1>2 DEF IInv, Waits, Parsing
  <2> QED BY <2>2, <2>3, <2>4 DEF IInv
<1>4. ASSUME NEW b \in Byte, SendByte(b) PROVE TypeOK' /\ ReadyHolds' /\ Paced'
  <2>1. sent' \in Seq(Byte) /\ wire' \in Seq(Byte) /\ Len(wire') = Len(wire) + 1
    BY <1>1, <1>4 DEF TypeOK, SendByte
  <2>7. crowded' \in BOOLEAN
    BY <1>4 DEF SendByte
  <2>2. TypeOK' /\ ReadyHolds'
    BY <1>1, <1>2, <1>4, <1>8, <2>1, <2>7 DEF TypeOK, SendByte, IInv, ReadyHolds
  <2>3. Outstanding' = Outstanding + 1
    BY <1>2, <1>3, <2>1 DEF Outstanding
  <2>4. (crowded => crowded') /\ (Outstanding + 1 > Capacity - Padding => crowded')
    BY <1>4 DEF SendByte
  <2>5. Outstanding \in Int
    BY <1>3 DEF Outstanding
  <2>6. crowded' \/ Outstanding' <= Capacity - Padding
    BY <2>3, <2>4, <2>5, BaseFacts
  <2> QED BY <1>2, <2>2, <2>4, <2>6 DEF IInv, Paced, PacedClientLosesNothing
<1>5. CASE Close
  <2>1. closed' \in BOOLEAN /\ UNCHANGED <<sent, wire, crowded, offered, pending>>
    BY <1>5 DEF Close
  <2>2. TypeOK' /\ ReadyHolds'
    BY <1>1, <1>2, <1>8, <2>1 DEF TypeOK, IInv, ReadyHolds
  <2>3. Paced'
    BY <1>2, <2>1 DEF IInv, Paced, PacedClientLosesNothing, Outstanding
  <2>4. Waits'
    BY <1>2 DEF IInv, Waits, Parsing
  <2> QED BY <2>2, <2>3, <2>4 DEF IInv
<1>6. CASE SendDatagram
  <2>1. offered' \in 0 .. MaxDatagrams /\ pending' \in 0 .. MaxPending /\ pending' > 0
    BY <1>1, <1>6, BaseFacts DEF TypeOK, SendDatagram
  <2>2. UNCHANGED <<sent, wire, closed, crowded>>
    BY <1>6 DEF SendDatagram
  <2>3. TypeOK' /\ ReadyHolds'
    BY <1>1, <1>2, <1>8, <2>1, <2>2 DEF TypeOK, IInv, ReadyHolds
  <2>4. Paced'
    BY <1>2, <2>2 DEF IInv, Paced, PacedClientLosesNothing, Outstanding
  <2>5. Waits'
    BY <1>2 DEF IInv, Waits, Parsing
  <2> QED BY <2>3, <2>4, <2>5 DEF IInv
<1>7. Waits'
  BY <1>2 DEF IInv, Waits, Parsing
<1> QED BY <1>4, <1>5, <1>6, <1>7, <1>9 DEF Client, IInv

\* select: only the place of the thread and what it found ready change.
LEMMA SelectInv == ASSUME IInv, Select PROVE IInv'
<1>1. UNCHANGED <<sent, wire, closed, crowded, offered, buffer, start_offset, handled,
                  answers, part, unread, broken, lost, pending>>
  BY DEF Select, clientVars, parseVars, writeVars
<1>2. ready' \subseteq {"tcp", "udp"} /\ ("udp" \in ready' <=> UdpReadable)
  BY DEF Select
<1>3. pc = "select" /\ pc' \in {"recv", "udp"} /\ (pc' = "udp" => UdpReadable)
  BY DEF Select
<1>4. TypeOK' /\ ReadyHolds'
  BY <1>1, <1>2, <1>3 DEF IInv, TypeOK, ReadyHolds, UdpReadable
<1>5. Paced'
  BY <1>1 DEF IInv, Paced, Outstanding, PacedClientLosesNothing
<1>6. Waits'
  BY <1>1, <1>3 DEF IInv, Waits, Parsing
<1> QED BY <1>4, <1>5, <1>6 DEF IInv

\* recv fills the free part of stream_buffer and no more.
LEMMA RecvInv == ASSUME IInv, Recv PROVE IInv'
<1>1. /\ pc = "recv" /\ pc' = "parse" /\ start_offset' = 1
      /\ buffer' = buffer \o SubSeq(wire, 1, Taken) /\ Taken > 0
      /\ wire' = SubSeq(wire, Taken + 1, Len(wire))
      /\ UNCHANGED <<sent, closed, crowded, offered, pending, handled, answers, part, unread, broken, lost, ready>>
  BY DEF Recv, writeVars
<1>2. /\ wire \in Seq(Byte) /\ buffer \in Seq(Byte)
      /\ Len(wire) \in Nat /\ Len(buffer) \in Nat /\ Len(buffer) <= Capacity
  BY DEF IInv, TypeOK
<1>3. Taken \in Nat /\ Taken <= Len(wire) /\ Taken <= Capacity - Len(buffer)
  BY <1>2, BaseFacts DEF Taken, Room
<1>4. /\ SubSeq(wire, 1, Taken) \in Seq(Byte) /\ Len(SubSeq(wire, 1, Taken)) = Taken
      /\ wire' \in Seq(Byte) /\ Len(wire') = Len(wire) - Taken
  BY <1>1, <1>2, <1>3
<1>5. buffer' \in Seq(Byte) /\ Len(buffer') = Len(buffer) + Taken
  BY <1>1, <1>2, <1>4
<1>6. start_offset' \in 1 .. Len(buffer') + 1 /\ Len(buffer') <= Capacity
  BY <1>1, <1>2, <1>3, <1>5, BaseFacts
<1>7. TypeOK'
  BY <1>1, <1>4, <1>5, <1>6 DEF IInv, TypeOK
<1>8. ReadyHolds'
  BY <1>1 DEF IInv, ReadyHolds
<1>9. Paced'
  <2>1. start_offset = 1
    BY <1>1 DEF IInv, Waits, Parsing
  <2>2. Outstanding = Len(wire) + Len(buffer) /\ Outstanding' = Outstanding
    <3>1. Outstanding = Len(wire) + Len(buffer) - 1 + 1
      BY <2>1 DEF Outstanding
    <3>2. Outstanding' = (Len(wire) - Taken) + (Len(buffer) + Taken) - 1 + 1
      BY <1>1, <1>4, <1>5 DEF Outstanding
    <3> QED BY <1>2, <1>3, <3>1, <3>2
  <2>3. Len(buffer') <= Outstanding
    BY <1>2, <1>3, <1>5, <2>2
  <2>4. crowded \/ Outstanding <= Capacity - Padding
    BY DEF IInv, Paced
  <2>5. crowded \/ Len(buffer') <= Capacity - Padding
    BY <1>2, <1>3, <1>5, <2>2, <2>3, <2>4, BaseFacts
  <2> QED BY <1>1, <2>2, <2>4, <2>5 DEF IInv, Paced, PacedClientLosesNothing
<1>10. Waits'
  BY <1>1 DEF Waits, Parsing
<1> QED BY <1>7, <1>8, <1>9, <1>10 DEF IInv

\* A connection that is closed or broken ends the session and leaves the buffer alone.
LEMMA RecvNothingInv == ASSUME IInv, RecvNothing \/ RecvFails PROVE IInv'
<1>1. /\ pc = "recv" /\ pc' \in {"select", "ended"}
      /\ UNCHANGED <<sent, wire, closed, crowded, offered, buffer, start_offset, handled,
                     answers, part, unread, broken, lost, pending, ready>>
  BY DEF RecvNothing, RecvFails, clientVars, parseVars, writeVars
<1>2. TypeOK' /\ ReadyHolds'
  BY <1>1 DEF IInv, TypeOK, ReadyHolds
<1>3. Paced'
  BY <1>1 DEF IInv, Paced, Outstanding, PacedClientLosesNothing
<1>4. Waits'
  BY <1>1 DEF IInv, Waits, Parsing
<1> QED BY <1>2, <1>3, <1>4 DEF IInv

\* Skipping a byte that is no delimiter keeps the offset inside of the buffer.
LEMMA ResyncInv == ASSUME IInv, Resync PROVE IInv'
<1>1. /\ pc = "parse" /\ HeaderComplete /\ start_offset' = start_offset + 1
      /\ UNCHANGED <<sent, wire, closed, crowded, offered, buffer, handled, answers, part, unread, broken, lost,
                     pending, ready, pc>>
  BY DEF Resync, clientVars, writeVars
<1>2. start_offset \in Nat \ {0} /\ Len(buffer) \in Nat /\ start_offset + 2 <= Len(buffer)
  BY <1>1, Header DEF IInv
<1>3. TypeOK' /\ ReadyHolds'
  BY <1>1, <1>2 DEF IInv, TypeOK, ReadyHolds
<1>4. Paced'
  <2>1. Len(wire) \in Nat
    BY DEF IInv, TypeOK
  <2>2. Outstanding \in Int /\ Outstanding' = Outstanding - 1
    BY <1>1, <1>2, <2>1 DEF Outstanding
  <2> QED BY <1>1, <2>2, BaseFacts DEF IInv, Paced, PacedClientLosesNothing
<1>5. Waits'
  BY <1>1 DEF Waits, Parsing
<1> QED BY <1>3, <1>4, <1>5 DEF IInv

\* A command that is handled was in the buffer as a whole.
LEMMA HandleCommandsInv == ASSUME IInv, HandleCommands PROVE IInv'
<1>1. /\ pc = "parse" /\ HeaderComplete /\ FrameComplete /\ start_offset' = NextOffset
      /\ handled' = Append(handled, Payload) /\ lost' = (lost \/ Refused)
      /\ UNCHANGED <<sent, wire, closed, crowded, offered, buffer, answers, part, unread,
                     broken, pending, ready>>
  BY DEF HandleCommands, clientVars, writeVars
<1>2. /\ start_offset \in Nat \ {0} /\ Len(buffer) \in Nat /\ start_offset + 2 <= Len(buffer)
      /\ MsgSize \in Nat /\ NextOffset = start_offset + 3 + MsgSize
  BY <1>1, Header DEF IInv
<1>3. NextOffset \in Nat /\ NextOffset - 1 <= Len(buffer)
  BY <1>1, <1>2 DEF FrameComplete
<1>4. buffer \in Seq(Byte) /\ handled \in Seq(Seq(Byte)) /\ lost \in BOOLEAN
  BY DEF IInv, TypeOK
<1>5. Payload \in Seq(Byte)
  BY <1>2, <1>3, <1>4, BaseFacts DEF Payload
<1>6. pc' \in {"parse", "describe"}
  BY DEF HandleCommands
<1>7. handled' \in Seq(Seq(Byte)) /\ lost' \in BOOLEAN
  BY <1>1, <1>4, <1>5
<1>8. start_offset' \in 1 .. Len(buffer) + 1
  BY <1>1, <1>2, <1>3
<1>9. TypeOK' /\ ReadyHolds'
  BY <1>1, <1>6, <1>7, <1>8 DEF IInv, TypeOK, ReadyHolds
<1>10. Paced'
  <2>1. Len(wire) \in Nat
    BY DEF IInv, TypeOK
  <2>2. Outstanding \in Int /\ Outstanding' \in Int /\ Outstanding' <= Outstanding
    BY <1>1, <1>2, <1>3, <2>1 DEF Outstanding
  <2>3. crowded \/ Outstanding' <= Capacity - Padding
    BY <2>2, BaseFacts DEF IInv, Paced
  <2>4. Refused => crowded
    BY <1>2, <1>3, BaseFacts DEF IInv, Paced, Refused
  <2> QED BY <1>1, <2>3, <2>4 DEF IInv, Paced, PacedClientLosesNothing
<1>11. Waits'
  BY <1>6 DEF Waits, Parsing
<1> QED BY <1>9, <1>10, <1>11 DEF IInv

\* The buffer begins with an incomplete frame once the rest has moved to its front.
LEMMA CompactInv == ASSUME IInv, Compact PROVE IInv'
<1>1. /\ pc = "parse" /\ (HeaderComplete => AtDelimiter /\ ~FrameComplete)
      /\ buffer' = SubSeq(buffer, start_offset, Len(buffer)) /\ start_offset' = 1
      /\ pc' = IF "udp" \in ready THEN "udp" ELSE "select"
      /\ UNCHANGED <<sent, wire, closed, crowded, offered, handled, answers, part, unread, broken, lost, pending,
                     ready>>
  BY DEF Compact, Parsed, AfterTcp, clientVars, writeVars
<1>2. /\ buffer \in Seq(Byte) /\ Len(buffer) \in Nat /\ Len(buffer) <= Capacity
      /\ start_offset \in 1 .. Len(buffer) + 1 /\ Len(wire) \in Nat
  BY DEF IInv, TypeOK
<1>3. /\ buffer' \in Seq(Byte) /\ Len(buffer') = Len(buffer) - start_offset + 1
      /\ \A i \in 1 .. Len(buffer') : buffer'[i] = buffer[start_offset + i - 1]
  BY <1>1, <1>2
<1>4. Len(buffer') <= Capacity /\ start_offset' \in 1 .. Len(buffer') + 1
  BY <1>1, <1>2, <1>3, BaseFacts
<1>5. TypeOK'
  BY <1>1, <1>3, <1>4 DEF IInv, TypeOK, ReadyHolds
<1>6. ReadyHolds'
  BY <1>1 DEF ReadyHolds
<1>7. Paced'
  <2>1. Outstanding' = Outstanding /\ Len(buffer') <= Len(buffer)
    BY <1>1, <1>2, <1>3 DEF Outstanding
  <2>2. crowded \/ Len(buffer') <= Capacity - Padding
    BY <1>2, <1>3, <2>1, BaseFacts DEF IInv, Paced
  <2> QED BY <1>1, <2>1, <2>2 DEF IInv, Paced, PacedClientLosesNothing
<1>8. Waits'
  <2> SUFFICES ASSUME Len(buffer') >= HeaderSize
               PROVE  /\ buffer'[1] = Delimiter
                      /\ HeaderSize + Base * buffer'[2] + buffer'[3] > Len(buffer')
    BY <1>1 DEF Waits
  <2>1. start_offset + 2 <= Len(buffer)
    BY <1>2, <1>3, BaseFacts
  <2>2. HeaderComplete
    BY <1>2, <2>1, BaseFacts DEF HeaderComplete
  <2>3. AtDelimiter /\ ~FrameComplete
    BY <1>1, <2>2
  <2>4. /\ buffer'[1] = buffer[start_offset] /\ buffer'[2] = buffer[start_offset + 1]
        /\ buffer'[3] = buffer[start_offset + 2]
    BY <1>2, <1>3, <2>1
  <2>5. MsgSize \in Nat /\ NextOffset = start_offset + 3 + MsgSize
    BY <2>2, Header DEF IInv
  <2>6. MsgSize = Base * buffer'[2] + buffer'[3]
    BY <2>4 DEF MsgSize
  <2>7. 3 + MsgSize > Len(buffer')
    BY <1>2, <1>3, <2>3, <2>5 DEF FrameComplete
  <2>8. buffer[start_offset + 1] \in Nat /\ buffer[start_offset + 2] \in Nat
    <3>1. start_offset + 1 \in 1 .. Len(buffer) /\ start_offset + 2 \in 1 .. Len(buffer)
      BY <1>2, <2>1
    <3>2. buffer[start_offset + 1] \in Byte /\ buffer[start_offset + 2] \in Byte
      BY <1>2, <3>1
    <3> QED BY <3>2, BaseFacts
  <2>9. Base * buffer'[2] \in Nat /\ buffer'[3] \in Nat
    BY <2>4, <2>8, ProductNat, BaseFacts
  <2>10. HeaderSize + Base * buffer'[2] + buffer'[3] = 3 + MsgSize
    BY <2>6, <2>9, BaseFacts
  <2> QED BY <2>3, <2>4, <2>7, <2>10 DEF AtDelimiter
<1> QED BY <1>5, <1>6, <1>7, <1>8 DEF IInv

\* A datagram does not touch the stream.
LEMMA HandleInputsInv == ASSUME IInv, HandleInputs PROVE IInv'
<1>1. /\ pc = "udp" /\ pc' = "select" /\ pending' = pending - 1
      /\ UNCHANGED <<sent, wire, closed, crowded, offered, buffer, start_offset, handled,
                     answers, part, unread, broken, lost, ready>>
  BY DEF HandleInputs, clientVars, parseVars, writeVars
<1>2. pending' \in 0 .. MaxPending
  BY <1>1, BaseFacts DEF IInv, TypeOK
<1>3. TypeOK' /\ ReadyHolds'
  BY <1>1, <1>2 DEF IInv, TypeOK, ReadyHolds
<1>4. Paced'
  BY <1>1 DEF IInv, Paced, Outstanding, PacedClientLosesNothing
<1>5. Waits'
  BY <1>1 DEF IInv, Waits, Parsing
<1> QED BY <1>3, <1>4, <1>5 DEF IInv

\* Describing and sending the answers does not touch the stream.
LEMMA WriteInv ==
  ASSUME IInv, Describe \/ WriteAnswer \/ WriteShort \/ WriteKills
  PROVE  IInv'
<1>1. /\ pc \in {"describe", "write"}
      /\ UNCHANGED <<sent, wire, closed, crowded, offered, buffer, start_offset, handled,
                     lost, pending, ready>>
  BY DEF Describe, WriteAnswer, WriteShort, WriteKills, clientVars, parseVars
<1>2. TypeOK
  BY DEF IInv
<1>3. part' \in 1 .. Len(Sdps) /\ pc' \in {"describe", "write", "parse", "ended", "killed"}
  BY <1>2, NextPartTyped
     DEF TypeOK, Describe, WriteAnswer, WriteShort, WriteKills, parseVars, writeVars
<1>4. unread' \in 0 .. SendRoom /\ broken' \in BOOLEAN
  <2>1. unread \in 0 .. SendRoom /\ SendRoom \in Nat /\ broken \in BOOLEAN
    BY <1>2, BaseFacts DEF TypeOK
  <2>2. unread' = unread \/ (unread < SendRoom /\ unread' = unread + 1)
    BY DEF Describe, WriteAnswer, WriteShort, WriteKills, parseVars, writeVars
  <2>3. broken' = broken \/ broken' = TRUE
    BY DEF Describe, WriteAnswer, WriteShort, WriteKills, parseVars, writeVars
  <2>4. unread' \in 0 .. SendRoom
    BY <2>1, <2>2
  <2>5. broken' \in BOOLEAN
    BY <2>1, <2>3
  <2> QED BY <2>4, <2>5
<1>5. answers' \in Seq(Seq(Byte))
  <2>1. CASE WriteAnswer
    <3>1. PICK shifted \in BOOLEAN : answers' = Append(answers, Message(Sdps[part], shifted))
      BY <2>1 DEF WriteAnswer
    <3>2. Message(Sdps[part], shifted) \in Seq(Byte)
      BY <1>2, SdpsFacts, MessageTyped DEF TypeOK
    <3>3. answers \in Seq(Seq(Byte))
      BY <1>2 DEF TypeOK
    <3> QED BY <3>1, <3>2, <3>3
  <2>2. CASE Describe \/ WriteShort \/ WriteKills
    BY <1>2, <2>2 DEF TypeOK, Describe, WriteShort, WriteKills, parseVars, writeVars
  <2> QED BY <2>1, <2>2
<1>6. TypeOK' /\ ReadyHolds'
  BY <1>1, <1>2, <1>3, <1>4, <1>5 DEF IInv, TypeOK, ReadyHolds
<1>7. Paced'
  BY <1>1 DEF IInv, Paced, Outstanding, PacedClientLosesNothing
<1>8. Waits'
  BY <1>3 DEF Waits, Parsing
<1> QED BY <1>6, <1>7, <1>8 DEF IInv

\* A step that changes nothing keeps the invariant.
LEMMA StutterInv == ASSUME IInv, UNCHANGED vars PROVE IInv'
<1>1. TypeOK' /\ ReadyHolds'
  BY DEF vars, IInv, TypeOK, ReadyHolds
<1>2. Paced' /\ Waits'
  BY DEF vars, IInv, Paced, Outstanding, PacedClientLosesNothing, Waits, Parsing
<1> QED BY <1>1, <1>2 DEF IInv

\* The inductive invariant of the session thread.
THEOREM SessionCorrect == Spec => []IInv
<1>1. IInv /\ [Next]_vars => IInv'
  BY ClientInv, SelectInv, RecvInv, RecvNothingInv, ResyncInv, HandleCommandsInv,
     CompactInv, HandleInputsInv, WriteInv, StutterInv DEF Next, Session
<1> QED BY InitInv, <1>1, PTL DEF Spec

\* The session thread keeps its types, and never reads behind stream_buffer.
THEOREM TypeCorrect == Spec => []TypeOK
<1>1. IInv => TypeOK
  BY DEF IInv
<1> QED BY SessionCorrect, <1>1, PTL

\* A client that is not ahead of the buffer loses no command, for any sizes.
THEOREM PacingSuffices == Spec => []PacedClientLosesNothing
<1>1. IInv => PacedClientLosesNothing
  BY DEF IInv, Paced
<1> QED BY SessionCorrect, <1>1, PTL

\* Only a frame that is longer than the buffer fills it for ever, for any sizes.
THEOREM WedgeExplained == Spec => []WedgedOnlyByOversized
<1>1. IInv => WedgedOnlyByOversized
  <2> SUFFICES ASSUME IInv, Wedged
               PROVE  /\ buffer[1] = Delimiter
                      /\ HeaderSize + Base * buffer[2] + buffer[3] > Capacity
    BY DEF WedgedOnlyByOversized
  <2>1. ~Parsing /\ Len(buffer) = Capacity /\ Len(buffer) >= HeaderSize
    BY BaseFacts DEF Wedged, Parsing
  <2> QED BY <2>1 DEF IInv, Waits
<1> QED BY SessionCorrect, <1>1, PTL

-----------------------------------------------------------------------------
(* Numbers.                                                                *)

\* Every set of natural numbers has a smallest element.
LEMMA Smallest ==
  ASSUME NEW T \in SUBSET Nat, T # {}
  PROVE  \E m \in T : \A n \in T : m <= n
<1> DEFINE R == {ss \in Nat \X Nat : ss[1] < ss[2]}
<1>1. IsWellFoundedOn(R, Nat)
  BY NatLessThanWellFounded DEF OpToRel
<1>2. \A x, y \in Nat : y < x => <<y, x>> \in R
  OBVIOUS
<1> HIDE DEF R
<1>3. \E x \in T : \A y \in T : <<y, x>> \notin R
  BY <1>1, WFMin
<1>4. \A x, y \in T : <<y, x>> \notin R => x <= y
  BY <1>2
<1> QED BY <1>3, <1>4

-----------------------------------------------------------------------------
(* The payloads of a stream, position by position.                         *)

\* What Payloads takes from position i on, given what it takes behind it.
Take(f, s, i) ==
  IF i + HeaderSize - 1 > Len(s) THEN <<>>
  ELSE IF s[i] # Delimiter THEN f[i + 1]
  ELSE IF Behind(s, i) - 1 > Len(s) THEN <<>>
  ELSE <<SubSeq(s, i + HeaderSize, Behind(s, i) - 1)>> \o f[Behind(s, i)]

Solves(f, s) == f = [i \in 1 .. Len(s) + 1 |-> Take(f, s, i)]
From(s) == CHOOSE f : Solves(f, s)

\* Payloads in these terms.
LEMMA PayloadsFrom == ASSUME NEW s PROVE Payloads(s) = From(s)[1]
BY Zenon DEF Payloads, From, Solves, Take

\* The position behind a frame whose header is complete.
LEMMA BehindNat ==
  ASSUME NEW s \in Seq(Byte), NEW i \in Nat \ {0}, i + 2 <= Len(s)
  PROVE  /\ Behind(s, i) \in Nat /\ i + 3 <= Behind(s, i)
         /\ Behind(s, i) = i + 3 + Base * s[i + 1] + s[i + 2]
<1>1. s[i + 1] \in Byte /\ s[i + 2] \in Byte
  OBVIOUS
<1>2. s[i + 1] \in Nat /\ s[i + 2] \in Nat /\ Base \in Nat /\ HeaderSize = 3
  BY <1>1, BaseFacts
<1>3. Base * s[i + 1] \in Nat
  BY <1>2, ProductNat
<1>4. Behind(s, i) = i + 3 + Base * s[i + 1] + s[i + 2]
  BY <1>2 DEF Behind
<1> QED BY <1>2, <1>3, <1>4

\* Take with the size of the header filled in.
LEMMA TakeForm ==
  ASSUME NEW f, NEW s \in Seq(Byte), NEW i \in Nat \ {0}
  PROVE  Take(f, s, i) =
           IF ~(i + 2 <= Len(s)) THEN <<>>
           ELSE IF s[i] # Delimiter THEN f[i + 1]
           ELSE IF ~(Behind(s, i) - 1 <= Len(s)) THEN <<>>
           ELSE <<SubSeq(s, i + 3, Behind(s, i) - 1)>> \o f[Behind(s, i)]
<1>1. i + HeaderSize = i + 3 /\ i + HeaderSize - 1 = i + 2
  BY BaseFacts
<1>2. i + 2 > Len(s) <=> ~(i + 2 <= Len(s))
  OBVIOUS
<1>3. i + 2 <= Len(s) =>
        (Behind(s, i) - 1 > Len(s) <=> ~(Behind(s, i) - 1 <= Len(s)))
  BY BehindNat
<1> QED BY <1>1, <1>2, <1>3, Zenon DEF Take

\* No header is complete.
LEMMA TakeShort ==
  ASSUME NEW f, NEW s \in Seq(Byte), NEW i \in Nat \ {0}, i + 2 > Len(s)
  PROVE  Take(f, s, i) = <<>>
<1>1. ~(i + 2 <= Len(s))
  OBVIOUS
<1> QED BY <1>1, TakeForm, Zenon

\* A byte is skipped.
LEMMA TakeSkip ==
  ASSUME NEW f, NEW s \in Seq(Byte), NEW i \in Nat \ {0}, i + 2 <= Len(s), s[i] # Delimiter
  PROVE  Take(f, s, i) = f[i + 1]
BY TakeForm, Zenon

\* The frame is not complete.
LEMMA TakeWait ==
  ASSUME NEW f, NEW s \in Seq(Byte), NEW i \in Nat \ {0}, i + 2 <= Len(s), s[i] = Delimiter,
         Behind(s, i) - 1 > Len(s)
  PROVE  Take(f, s, i) = <<>>
<1>1. ~(Behind(s, i) - 1 <= Len(s))
  BY BehindNat
<1> QED BY <1>1, TakeForm, Zenon

\* A frame is complete.
LEMMA TakeFrame ==
  ASSUME NEW f, NEW s \in Seq(Byte), NEW i \in Nat \ {0}, i + 2 <= Len(s), s[i] = Delimiter,
         Behind(s, i) - 1 <= Len(s)
  PROVE  Take(f, s, i) = <<SubSeq(s, i + 3, Behind(s, i) - 1)>> \o f[Behind(s, i)]
BY TakeForm, Zenon

\* f gives the payloads from position n on.
Partial(f, s, n) ==
  /\ f \in [n .. Len(s) + 1 -> Seq(Seq(Byte))]
  /\ \A i \in n .. Len(s) + 1 : f[i] = Take(f, s, i)

\* One position more.
LEMMA PartialNext ==
  ASSUME NEW s \in Seq(Byte), NEW n \in 1 .. Len(s), NEW g, Partial(g, s, n + 1)
  PROVE  \E h : Partial(h, s, n)
<1>1. Len(s) \in Nat /\ n \in Nat \ {0} /\ n <= Len(s) /\ <<>> \in Seq(Seq(Byte))
  OBVIOUS
<1>2. Take(g, s, n) \in Seq(Seq(Byte))
  <2>1. CASE n + 2 > Len(s)
    BY <1>1, <2>1, TakeShort, Zenon
  <2>2. CASE n + 2 <= Len(s) /\ s[n] # Delimiter
    <3>1. g[n + 1] \in Seq(Seq(Byte))
      BY <1>1 DEF Partial
    <3> QED BY <1>1, <2>2, <3>1, TakeSkip, Zenon
  <2>3. CASE n + 2 <= Len(s) /\ s[n] = Delimiter
    <3> DEFINE b == Behind(s, n)
    <3>1. b \in Nat /\ n + 3 <= b
      BY <1>1, <2>3, BehindNat
    <3>2. CASE b - 1 > Len(s)
      BY <1>1, <2>3, <3>2, TakeWait, Zenon
    <3>3. CASE b - 1 <= Len(s)
      <4>1. g[b] \in Seq(Seq(Byte))
        BY <1>1, <3>1, <3>3 DEF Partial
      <4>2. \A i \in n + 3 .. b - 1 : s[i] \in Byte
        BY <1>1, <3>1, <3>3
      <4>3. SubSeq(s, n + 3, b - 1) \in Seq(Byte)
        BY <1>1, <3>1, <4>2, SubSeqProperties
      <4>4. <<SubSeq(s, n + 3, b - 1)>> \o g[b] \in Seq(Seq(Byte))
        BY <4>1, <4>3
      <4>5. Take(g, s, n) = <<SubSeq(s, n + 3, b - 1)>> \o g[b]
        BY <1>1, <2>3, <3>3, TakeFrame
      <4> QED BY <4>4, <4>5
    <3> QED BY <1>1, <3>1, <3>2, <3>3
  <2> QED BY <1>1, <2>1, <2>2, <2>3
<1> DEFINE h == [i \in n .. Len(s) + 1 |-> IF i = n THEN Take(g, s, n) ELSE g[i]]
<1>3. /\ h \in [n .. Len(s) + 1 -> Seq(Seq(Byte))] /\ h[n] = Take(g, s, n)
      /\ \A i \in n + 1 .. Len(s) + 1 : h[i] = g[i]
  BY <1>1, <1>2 DEF Partial
<1> HIDE DEF h
<1>4. ASSUME NEW i \in n .. Len(s) + 1 PROVE Take(h, s, i) = Take(g, s, i)
  <2>1. i \in Nat \ {0}
    BY <1>1
  <2>2. i + 2 <= Len(s) => h[i + 1] = g[i + 1]
    BY <1>1, <1>3
  <2>3. i + 2 <= Len(s) => Behind(s, i) \in Nat /\ i + 3 <= Behind(s, i)
    BY <2>1, BehindNat
  <2>4. i + 2 <= Len(s) /\ Behind(s, i) - 1 <= Len(s) => h[Behind(s, i)] = g[Behind(s, i)]
    BY <1>1, <1>3, <2>3
  <2>5. CASE i + 2 > Len(s)
    BY <2>1, <2>5, TakeShort
  <2>6. CASE i + 2 <= Len(s) /\ s[i] # Delimiter
    BY <2>1, <2>2, <2>6, TakeSkip
  <2>7. CASE i + 2 <= Len(s) /\ s[i] = Delimiter /\ Behind(s, i) - 1 > Len(s)
    BY <2>1, <2>7, TakeWait
  <2>8. CASE i + 2 <= Len(s) /\ s[i] = Delimiter /\ Behind(s, i) - 1 <= Len(s)
    BY <2>1, <2>4, <2>8, TakeFrame, Zenon
  <2> QED BY <1>1, <2>3, <2>5, <2>6, <2>7, <2>8
<1>5. ASSUME NEW i \in n .. Len(s) + 1 PROVE h[i] = Take(h, s, i)
  BY <1>1, <1>3, <1>4 DEF Partial
<1> QED BY <1>3, <1>5 DEF Partial

\* Payloads are defined for every stream.
LEMMA PartialExists ==
  ASSUME NEW s \in Seq(Byte)
  PROVE  \E f : Partial(f, s, 1)
<1>1. Len(s) \in Nat /\ HeaderSize = 3
  BY BaseFacts
<1> DEFINE Bad == {d \in Nat : d <= Len(s) /\ ~ \E f : Partial(f, s, Len(s) + 1 - d)}
<1>2. Bad = {}
  <2> SUFFICES ASSUME Bad # {} PROVE FALSE
    OBVIOUS
  <2>1. PICK m \in Bad : \A n \in Bad : m <= n
    BY Smallest
  <2>2. m # 0
    <3> DEFINE f == [i \in Len(s) + 1 .. Len(s) + 1 |-> <<>>]
    <3>1. \A i \in Len(s) + 1 .. Len(s) + 1 : Take(f, s, i) = <<>>
      BY <1>1, TakeShort
    <3>2. Partial(f, s, Len(s) + 1)
      BY <1>1, <3>1 DEF Partial
    <3>3. Len(s) + 1 = Len(s) + 1 - 0
      BY <1>1
    <3> HIDE DEF f
    <3> QED BY <2>1, <3>2, <3>3
  <2>3. m - 1 \in Nat /\ m \in Nat /\ m <= Len(s) /\ m - 1 \notin Bad
    BY <2>1, <2>2
  <2>4. PICK g : Partial(g, s, Len(s) + 1 - (m - 1))
    BY <1>1, <2>3
  <2> DEFINE n == Len(s) + 1 - m
  <2>5. n \in 1 .. Len(s) /\ Len(s) + 1 - (m - 1) = n + 1
    BY <1>1, <2>2, <2>3
  <2> HIDE DEF n
  <2>6. \E h : Partial(h, s, n)
    BY <2>4, <2>5, PartialNext
  <2> QED BY <2>1, <2>6 DEF n
<1>3. Len(s) \notin Bad /\ Len(s) + 1 - Len(s) = 1
  BY <1>1, <1>2
<1> QED BY <1>1, <1>3

\* t is what is left of s behind its first k bytes.
Ends(s, k, t) == Len(s) = k + Len(t) /\ \A i \in 1 .. Len(t) : t[i] = s[k + i]

\* A part of the end of a stream is a part of the stream.
LEMMA SameBytes ==
  ASSUME NEW s \in Seq(Byte), NEW t \in Seq(Byte), NEW k \in Nat,
         Ends(s, k, t),
         NEW m \in Nat \ {0}, NEW n \in Int, n <= Len(t)
  PROVE  SubSeq(t, m, n) = SubSeq(s, k + m, k + n)
<1> DEFINE u == SubSeq(t, m, n)
           v == SubSeq(s, k + m, k + n)
<1>1. Len(s) \in Nat /\ Len(t) \in Nat /\ (k + n) - (k + m) + 1 = n - m + 1
      /\ k + m \in Int /\ k + n \in Int /\ (m <= n <=> k + m <= k + n)
      /\ Len(s) = k + Len(t)
  BY DEF Ends
<1>2. (\A j \in m .. n : t[j] \in Byte) /\ (\A j \in k + m .. k + n : s[j] \in Byte)
  BY <1>1
<1>3. /\ u \in Seq(Byte) /\ Len(u) = IF m <= n THEN n - m + 1 ELSE 0
      /\ \A j \in 1 .. n - m + 1 : u[j] = t[m + j - 1]
  BY <1>2, SubSeqProperties
<1>4. /\ v \in Seq(Byte) /\ Len(v) = IF m <= n THEN n - m + 1 ELSE 0
      /\ \A j \in 1 .. n - m + 1 : v[j] = s[k + m + j - 1]
  <2>1. /\ v \in Seq(Byte) /\ Len(v) = IF k + m <= k + n THEN (k + n) - (k + m) + 1 ELSE 0
        /\ \A j \in 1 .. (k + n) - (k + m) + 1 : v[j] = s[k + m + j - 1]
    BY <1>1, <1>2, SubSeqProperties
  <2> QED BY <1>1, <2>1
<1> HIDE DEF u, v
<1>5. ASSUME NEW j \in 1 .. Len(u) PROVE u[j] = v[j]
  <2>1. j \in 1 .. n - m + 1
    BY <1>3
  <2>3. m + j - 1 \in 1 .. Len(t) /\ k + (m + j - 1) = k + m + j - 1
    BY <1>1, <2>1
  <2>2. t[m + j - 1] = s[k + m + j - 1]
    BY <2>3 DEF Ends
  <2> QED BY <1>3, <1>4, <2>1, <2>2
<1>6. u = v
  BY <1>3, <1>4, <1>5, SeqEqual
<1> QED BY <1>6 DEF u, v

\* The bytes and the end of a frame, seen from the whole stream.
LEMMA BehindShift ==
  ASSUME NEW s \in Seq(Byte), NEW t \in Seq(Byte), NEW k \in Nat, Ends(s, k, t),
         NEW i \in Nat \ {0}, i + 2 <= Len(t)
  PROVE  /\ k + i \in Nat \ {0} /\ k + i + 2 <= Len(s) /\ t[i] = s[k + i]
         /\ Behind(s, k + i) = k + Behind(t, i)
<1>1. /\ i \in 1 .. Len(t) /\ i + 1 \in 1 .. Len(t) /\ i + 2 \in 1 .. Len(t)
      /\ k + i + 1 = k + (i + 1) /\ k + i + 2 = k + (i + 2)
      /\ k + i \in Nat \ {0} /\ k + i + 2 <= Len(s)
  BY DEF Ends
<1>2. t[i] = s[k + i] /\ t[i + 1] = s[k + i + 1] /\ t[i + 2] = s[k + i + 2]
  <2>1. \A j \in 1 .. Len(t) : t[j] = s[k + j]
    BY DEF Ends
  <2>2. t[i] = s[k + i] /\ t[i + 1] = s[k + (i + 1)] /\ t[i + 2] = s[k + (i + 2)]
    BY <1>1, <2>1
  <2> QED BY <1>1, <2>2
<1>3. Behind(t, i) = i + 3 + Base * t[i + 1] + t[i + 2]
  BY BehindNat
<1>4. Behind(s, k + i) = k + i + 3 + Base * t[i + 1] + t[i + 2]
  BY <1>1, <1>2, BehindNat
<1>5. t[i + 1] \in Byte /\ t[i + 2] \in Byte
  BY <1>1
<1>6. t[i + 2] \in Nat /\ Base * t[i + 1] \in Nat
  BY <1>5, ProductNat, BaseFacts
<1> DEFINE p == Base * t[i + 1]
           q == t[i + 2]
<1>7. p \in Nat /\ q \in Nat /\ Behind(t, i) = i + 3 + p + q
      /\ Behind(s, k + i) = k + i + 3 + p + q
  BY <1>3, <1>4, <1>6
<1> HIDE DEF p, q
<1> QED BY <1>1, <1>2, <1>7

\* At a position, the end of a stream gives what the stream gives, if it does so behind.
LEMMA ShiftStep ==
  ASSUME NEW s \in Seq(Byte), NEW t \in Seq(Byte), NEW k \in Nat, Ends(s, k, t),
         NEW f, NEW g, NEW i \in 1 .. Len(t) + 1,
         \A j \in i + 1 .. Len(t) + 1 : g[j] = f[k + j]
  PROVE  Take(g, t, i) = Take(f, s, k + i)
<1>1. /\ Len(s) \in Nat /\ Len(t) \in Nat /\ Len(s) = k + Len(t)
      /\ i \in Nat \ {0} /\ k + i \in Nat \ {0}
  BY DEF Ends
<1>2. CASE i + 2 > Len(t)
  <2>1. k + i + 2 > Len(s)
    BY <1>1, <1>2
  <2> QED BY <1>1, <1>2, <2>1, TakeShort
<1>3. CASE i + 2 <= Len(t)
  <2>1. /\ k + i + 2 <= Len(s) /\ t[i] = s[k + i]
        /\ Behind(s, k + i) = k + Behind(t, i)
        /\ Behind(t, i) \in Nat /\ i + 3 <= Behind(t, i)
    <3>1. Behind(t, i) \in Nat /\ i + 3 <= Behind(t, i)
      BY <1>1, <1>3, BehindNat
    <3>2. k + i + 2 <= Len(s) /\ t[i] = s[k + i] /\ Behind(s, k + i) = k + Behind(t, i)
      BY <1>1, <1>3, BehindShift
    <3> QED BY <3>1, <3>2
  <2>2. CASE t[i] # Delimiter
    <3>1. i + 1 \in i + 1 .. Len(t) + 1 /\ k + (i + 1) = k + i + 1
      BY <1>1, <1>3
    <3>2. g[i + 1] = f[k + i + 1]
      BY <3>1
    <3>3. Take(g, t, i) = g[i + 1]
      BY <1>1, <1>3, <2>2, TakeSkip
    <3>4. Take(f, s, k + i) = f[k + i + 1]
      BY <1>1, <2>1, <2>2, TakeSkip
    <3> QED BY <3>2, <3>3, <3>4
  <2>3. CASE t[i] = Delimiter /\ Behind(t, i) - 1 > Len(t)
    <3>1. Behind(s, k + i) - 1 > Len(s)
      BY <1>1, <2>1, <2>3
    <3>2. Take(g, t, i) = <<>>
      BY <1>1, <1>3, <2>3, TakeWait, Zenon
    <3>3. Take(f, s, k + i) = <<>>
      BY <1>1, <2>1, <2>3, <3>1, TakeWait, Zenon
    <3> QED BY <3>2, <3>3
  <2>4. CASE t[i] = Delimiter /\ Behind(t, i) - 1 <= Len(t)
    <3>1. PICK b \in Nat : b = Behind(t, i)
      BY <2>1
    <3>2. PICK e \in Nat : e = Behind(s, k + i)
      BY <1>1, <2>1
    <3>3. /\ b \in i + 1 .. Len(t) + 1 /\ e = k + b /\ e - 1 <= Len(s) /\ e - 1 = k + (b - 1)
          /\ i + 3 \in Nat \ {0} /\ b - 1 \in Int /\ b - 1 <= Len(t)
          /\ k + i + 3 = k + (i + 3)
      BY <1>1, <2>1, <2>4, <3>1, <3>2
    <3>4. g[b] = f[e]
      BY <3>3
    <3>5. SubSeq(t, i + 3, b - 1) = SubSeq(s, k + i + 3, e - 1)
      <4>1. PICK m \in Nat \ {0}, n \in Int : m = i + 3 /\ n = b - 1 /\ n <= Len(t)
        BY <3>3
      <4>4. \A x \in Nat \ {0}, y \in Int : y <= Len(t) => SubSeq(t, x, y) = SubSeq(s, k + x, k + y)
        BY SameBytes, Zenon
      <4>2. SubSeq(t, m, n) = SubSeq(s, k + m, k + n)
        BY <4>1, <4>4, Zenon
      <4>3. k + m = k + i + 3 /\ k + n = e - 1
        BY <3>3, <4>1
      <4> QED BY <4>1, <4>2, <4>3, Zenon
    <3>6. Take(g, t, i) = <<SubSeq(t, i + 3, b - 1)>> \o g[b]
      BY <1>1, <1>3, <2>4, <3>1, TakeFrame, Zenon
    <3>7. Take(f, s, k + i) = <<SubSeq(s, k + i + 3, e - 1)>> \o f[e]
      BY <1>1, <2>1, <2>4, <3>2, <3>3, TakeFrame, Zenon
    <3> QED BY <3>4, <3>5, <3>6, <3>7, Zenon
  <2> QED BY <1>1, <2>1, <2>2, <2>3, <2>4
<1> QED BY <1>1, <1>2, <1>3

\* The payloads of the end of a stream are those the stream gives from there.
LEMMA Shift ==
  ASSUME NEW s \in Seq(Byte), NEW t \in Seq(Byte), NEW k \in Nat,
         Ends(s, k, t),
         NEW f, Solves(f, s), NEW g, Solves(g, t)
  PROVE  \A i \in 1 .. Len(t) + 1 : g[i] = f[k + i]
<1>1. Len(s) \in Nat /\ Len(t) \in Nat /\ Len(s) = k + Len(t)
  BY DEF Ends
<1> DEFINE Bad == {d \in Nat : d <= Len(t) /\ g[Len(t) + 1 - d] # f[k + (Len(t) + 1 - d)]}
<1>2. Bad = {}
  <2> SUFFICES ASSUME Bad # {} PROVE FALSE
    OBVIOUS
  <2>1. PICK m \in Bad : \A n \in Bad : m <= n
    BY Smallest
  <2> DEFINE i == Len(t) + 1 - m
  <2>2. i \in 1 .. Len(t) + 1 /\ k + i \in 1 .. Len(s) + 1 /\ m \in Nat /\ i \in Nat \ {0}
    BY <1>1, <2>1
  <2>3. ASSUME NEW j \in i + 1 .. Len(t) + 1 PROVE g[j] = f[k + j]
    <3>1. Len(t) + 1 - j \in Nat /\ Len(t) + 1 - j < m /\ Len(t) + 1 - j <= Len(t)
      BY <1>1, <2>2
    <3>2. Len(t) + 1 - j \notin Bad
      BY <2>1, <2>2, <3>1
    <3>3. Len(t) + 1 - (Len(t) + 1 - j) = j
      BY <1>1
    <3> QED BY <3>1, <3>2, <3>3
  <2>4. g[i] # f[k + i]
    BY <2>1
  <2>5. g[i] = Take(g, t, i) /\ f[k + i] = Take(f, s, k + i)
    BY <2>2 DEF Solves
  <2> HIDE DEF i
  <2>6. Take(g, t, i) = Take(f, s, k + i)
    BY <2>2, <2>3, ShiftStep
  <2> QED BY <2>4, <2>5, <2>6
<1>3. ASSUME NEW i \in 1 .. Len(t) + 1 PROVE g[i] = f[k + i]
  <2>1. Len(t) + 1 - i \in Nat /\ Len(t) + 1 - i <= Len(t)
    BY <1>1
  <2>2. Len(t) + 1 - i \notin Bad
    BY <1>2
  <2>3. Len(t) + 1 - (Len(t) + 1 - i) = i
    BY <1>1
  <2> QED BY <2>1, <2>2, <2>3
<1> QED BY <1>3

\* The recursive function of Payloads exists, and has sequences of payloads as values.
LEMMA FromSolves ==
  ASSUME NEW s \in Seq(Byte)
  PROVE  Solves(From(s), s) /\ \A i \in 1 .. Len(s) + 1 : From(s)[i] \in Seq(Seq(Byte))
<1>1. PICK f : Partial(f, s, 1)
  BY PartialExists
<1>2. Solves(f, s)
  <2>1. f = [i \in 1 .. Len(s) + 1 |-> f[i]]
    BY <1>1 DEF Partial
  <2>2. \A i \in 1 .. Len(s) + 1 : f[i] = Take(f, s, i)
    BY <1>1 DEF Partial
  <2> QED BY <2>1, <2>2 DEF Solves
<1>3. Solves(From(s), s)
  BY <1>2 DEF From
<1>4. Ends(s, 0, s)
  BY DEF Ends
<1>5. ASSUME NEW i \in 1 .. Len(s) + 1 PROVE From(s)[i] \in Seq(Seq(Byte))
  <2>1. \A k \in Nat : Ends(s, k, s) =>
          \A j \in 1 .. Len(s) + 1 : From(s)[j] = f[k + j]
    BY <1>2, <1>3, Shift
  <2>2. From(s)[i] = f[0 + i]
    BY <1>4, <2>1
  <2>3. f[i] \in Seq(Seq(Byte)) /\ 0 + i = i
    BY <1>1 DEF Partial
  <2> QED BY <2>2, <2>3
<1> QED BY <1>3, <1>5

\* From a position on, a stream gives the payloads of what is left from there.
LEMMA PayloadsEnd ==
  ASSUME NEW s \in Seq(Byte), NEW t \in Seq(Byte), NEW k \in Nat, Ends(s, k, t)
  PROVE  From(s)[k + 1] = Payloads(t)
<1>1. 1 \in 1 .. Len(t) + 1
  OBVIOUS
<1>2. \A i \in 1 .. Len(t) + 1 : From(t)[i] = From(s)[k + i]
  BY FromSolves, Shift
<1>3. From(t)[1] = From(s)[k + 1]
  BY <1>1, <1>2
<1> QED BY <1>3, PayloadsFrom

\* The payloads of a stream are a sequence of byte sequences.
LEMMA PayloadsTyped == ASSUME NEW s \in Seq(Byte) PROVE Payloads(s) \in Seq(Seq(Byte))
<1>1. 1 \in 1 .. Len(s) + 1
  OBVIOUS
<1> QED BY <1>1, FromSolves, PayloadsFrom

\* What Payloads takes at the first position.
LEMMA PayloadsFirst ==
  ASSUME NEW s \in Seq(Byte)
  PROVE  Payloads(s) = Take(From(s), s, 1)
<1>1. 1 \in 1 .. Len(s) + 1
  OBVIOUS
<1>2. From(s) = [i \in 1 .. Len(s) + 1 |-> Take(From(s), s, i)]
  BY FromSolves DEF Solves
<1>3. From(s)[1] = Take(From(s), s, 1)
  BY <1>1, <1>2
<1> QED BY <1>3, PayloadsFrom

\* A stream that is shorter than a header holds no payload.
LEMMA PayloadsShort ==
  ASSUME NEW s \in Seq(Byte), Len(s) < 3
  PROVE  Payloads(s) = <<>>
<1>1. 1 \in Nat \ {0} /\ 1 + 2 > Len(s)
  OBVIOUS
<1> QED BY <1>1, PayloadsFirst, TakeShort

\* A first byte that is no delimiter is skipped.
LEMMA PayloadsSkip ==
  ASSUME NEW s \in Seq(Byte), NEW t \in Seq(Byte), Len(s) >= 3, s[1] # Delimiter,
         Ends(s, 1, t)
  PROVE  Payloads(s) = Payloads(t)
<1>1. 1 \in Nat \ {0} /\ 1 + 2 <= Len(s) /\ 1 \in Nat
  OBVIOUS
<1>2. Take(From(s), s, 1) = From(s)[1 + 1]
  BY <1>1, TakeSkip
<1>3. From(s)[1 + 1] = Payloads(t)
  BY <1>1, PayloadsEnd
<1> QED BY <1>2, <1>3, PayloadsFirst

\* A complete frame at the beginning gives its payload, and the rest gives the others.
LEMMA PayloadsFrame ==
  ASSUME NEW s \in Seq(Byte), NEW t \in Seq(Byte), Len(s) >= 3, s[1] = Delimiter,
         Behind(s, 1) - 1 <= Len(s), Ends(s, Behind(s, 1) - 1, t)
  PROVE  Payloads(s) = <<SubSeq(s, 4, Behind(s, 1) - 1)>> \o Payloads(t)
<1>1. 1 \in Nat \ {0} /\ 1 + 2 <= Len(s)
  OBVIOUS
<1>2. Take(From(s), s, 1) = <<SubSeq(s, 1 + 3, Behind(s, 1) - 1)>> \o From(s)[Behind(s, 1)]
  BY <1>1, TakeFrame
<1>3. Behind(s, 1) \in Nat /\ 1 + 3 <= Behind(s, 1)
  BY <1>1, BehindNat
<1>4. PICK k \in Nat : k = Behind(s, 1) - 1 /\ k + 1 = Behind(s, 1)
  BY <1>3
<1>5. From(s)[k + 1] = Payloads(t)
  BY <1>4, PayloadsEnd
<1>6. 1 + 3 = 4
  OBVIOUS
<1> QED BY <1>2, <1>4, <1>5, <1>6, PayloadsFirst

-----------------------------------------------------------------------------
(* Framing.                                                                *)

\* The bytes of the stream that no step has parsed yet.
Left == SubSeq(buffer, start_offset, Len(buffer)) \o wire

\* Whatever the client still sends, the commands found and those of the bytes left
\* are those of the whole stream.
Exact ==
  \A x \in Seq(Byte) : handled \o Payloads(Left \o x) = Payloads(sent \o x)

\* The bytes of a buffer from an offset on, with what follows the buffer.
Rest(q, a, w, x) == (SubSeq(q, a, Len(q)) \o w) \o x

Consists(r, q, a, n, w, x) ==
  /\ r \in Seq(Byte) /\ Len(r) = n + Len(w) + Len(x)
  /\ \A i \in 1 .. n : r[i] = q[a + i - 1]
  /\ \A i \in 1 .. Len(w) : r[n + i] = w[i]
  /\ \A i \in 1 .. Len(x) : r[n + Len(w) + i] = x[i]

\* They come one after the other.
LEMMA LeftBytes ==
  ASSUME NEW q \in Seq(Byte), NEW w \in Seq(Byte), NEW x \in Seq(Byte),
         NEW a \in 1 .. Len(q) + 1, NEW n \in Nat, a + n = Len(q) + 1
  PROVE  Consists(Rest(q, a, w, x), q, a, n, w, x)
<1> DEFINE p == SubSeq(q, a, Len(q))
           s == (p \o w) \o x
<1>1. /\ Len(q) \in Nat /\ Len(w) \in Nat /\ Len(x) \in Nat /\ n \in Nat
      /\ a \in Int /\ \A i \in a .. Len(q) : q[i] \in Byte
  OBVIOUS
<1>2. p \in Seq(Byte) /\ Len(p) = n /\ \A i \in 1 .. n : p[i] = q[a + i - 1]
  <2>1. /\ p \in Seq(Byte) /\ Len(p) = IF a <= Len(q) THEN Len(q) - a + 1 ELSE 0
        /\ \A i \in 1 .. Len(q) - a + 1 : p[i] = q[a + i - 1]
    BY <1>1, SubSeqProperties
  <2> HIDE DEF p
  <2> QED BY <1>1, <2>1
<1> HIDE DEF p
<1>3. /\ p \o w \in Seq(Byte) /\ Len(p \o w) = n + Len(w)
      /\ \A i \in 1 .. n + Len(w) : (p \o w)[i] = IF i <= n THEN p[i] ELSE w[i - n]
  <2>1. /\ p \o w \in Seq(Byte) /\ Len(p \o w) = Len(p) + Len(w)
        /\ \A i \in 1 .. Len(p) + Len(w) :
             (p \o w)[i] = IF i <= Len(p) THEN p[i] ELSE w[i - Len(p)]
    BY <1>2, ConcatProperties
  <2> QED BY <1>2, <2>1, Zenon
<1>4. /\ s \in Seq(Byte) /\ Len(s) = n + Len(w) + Len(x)
      /\ \A i \in 1 .. n + Len(w) + Len(x) :
           s[i] = IF i <= n + Len(w) THEN (p \o w)[i] ELSE x[i - (n + Len(w))]
  <2> DEFINE u == p \o w
  <2>1. u \in Seq(Byte) /\ Len(u) = n + Len(w)
    BY <1>3
  <2> HIDE DEF u
  <2>2. /\ u \o x \in Seq(Byte) /\ Len(u \o x) = Len(u) + Len(x)
        /\ \A i \in 1 .. Len(u) + Len(x) :
             (u \o x)[i] = IF i <= Len(u) THEN u[i] ELSE x[i - Len(u)]
    BY <2>1, ConcatProperties
  <2> QED BY <2>1, <2>2, Zenon DEF u
<1> HIDE DEF s
<1>5. ASSUME NEW i \in 1 .. n PROVE s[i] = q[a + i - 1]
  <2>1. i \in 1 .. n + Len(w) /\ i \in 1 .. n + Len(w) + Len(x)
    BY <1>1
  <2> QED BY <1>1, <1>2, <1>3, <1>4, <2>1
<1>6. ASSUME NEW i \in 1 .. Len(w) PROVE s[n + i] = w[i]
  <2>1. /\ n + i \in 1 .. n + Len(w) /\ n + i \in 1 .. n + Len(w) + Len(x)
        /\ ~(n + i <= n) /\ (n + i) - n = i /\ n + i <= n + Len(w)
    BY <1>1
  <2> QED BY <1>3, <1>4, <2>1
<1>7. ASSUME NEW i \in 1 .. Len(x) PROVE s[n + Len(w) + i] = x[i]
  <2>1. /\ n + Len(w) + i \in 1 .. n + Len(w) + Len(x)
        /\ ~(n + Len(w) + i <= n + Len(w)) /\ (n + Len(w) + i) - (n + Len(w)) = i
    BY <1>1
  <2> QED BY <1>4, <2>1
<1>8. s = Rest(q, a, w, x)
  BY DEF s, p, Rest
<1> QED BY <1>4, <1>5, <1>6, <1>7, <1>8 DEF Consists

\* Without its first k bytes it is what the buffer holds from the offset plus k on.
LEMMA LeftEnds ==
  ASSUME NEW q \in Seq(Byte), NEW w \in Seq(Byte), NEW x \in Seq(Byte),
         NEW a \in 1 .. Len(q) + 1, NEW k \in Nat, a + k <= Len(q) + 1
  PROVE  Ends(Rest(q, a, w, x), k, Rest(q, a + k, w, x))
<1> DEFINE s == Rest(q, a, w, x)
           t == Rest(q, a + k, w, x)
<1>1. /\ Len(q) \in Nat /\ Len(w) \in Nat /\ Len(x) \in Nat /\ a \in Nat
      /\ a + k \in 1 .. Len(q) + 1
  OBVIOUS
<1>2. PICK n \in Nat, m \in Nat :
        a + n = Len(q) + 1 /\ (a + k) + m = Len(q) + 1 /\ n = m + k
  <2>1. PICK m \in Nat : (a + k) + m = Len(q) + 1
    <3>1. Len(q) + 1 - (a + k) \in Nat /\ (a + k) + (Len(q) + 1 - (a + k)) = Len(q) + 1
      BY <1>1
    <3> QED BY <3>1
  <2>2. m + k \in Nat /\ a + (m + k) = Len(q) + 1
    BY <1>1, <2>1
  <2> QED BY <2>1, <2>2
<1>3. Consists(s, q, a, n, w, x)
  BY <1>2, LeftBytes
<1>4. Consists(t, q, a + k, m, w, x)
  BY <1>1, <1>2, LeftBytes
<1> HIDE DEF s, t
<1> USE DEF Consists
<1>5. ASSUME NEW i \in 1 .. Len(t) PROVE t[i] = s[k + i]
  <2>1. i \in Nat \ {0} /\ i <= m + Len(w) + Len(x)
    <3>1. Len(t) = m + Len(w) + Len(x)
      BY <1>4
    <3> QED BY <1>1, <1>2, <3>1
  <2>2. CASE i <= m
    <3>1. i \in 1 .. m /\ k + i \in 1 .. n /\ (a + k) + i - 1 = a + (k + i) - 1
      BY <1>1, <1>2, <2>1, <2>2
    <3> QED BY <1>3, <1>4, <3>1
  <2>3. CASE m < i /\ i <= m + Len(w)
    <3>1. PICK j \in 1 .. Len(w) : i = m + j
      <4>1. i - m \in 1 .. Len(w) /\ i = m + (i - m)
        BY <1>1, <1>2, <2>1, <2>3
      <4> QED BY <4>1
    <3>2. k + i = n + j
      BY <1>1, <1>2, <3>1
    <3> QED BY <1>3, <1>4, <3>1, <3>2
  <2>4. CASE m + Len(w) < i
    <3>1. PICK j \in 1 .. Len(x) : i = m + Len(w) + j
      <4>1. i - (m + Len(w)) \in 1 .. Len(x) /\ i = m + Len(w) + (i - (m + Len(w)))
        BY <1>1, <1>2, <2>1, <2>4
      <4> QED BY <4>1
    <3>2. k + i = n + Len(w) + j
      BY <1>1, <1>2, <3>1
    <3>3. t[i] = x[j]
      BY <1>4, <3>1
    <3>4. s[k + i] = x[j]
      BY <1>3, <3>1, <3>2
    <3> QED BY <3>3, <3>4
  <2>5. i <= m \/ (m < i /\ i <= m + Len(w)) \/ m + Len(w) < i
    BY <1>1, <1>2, <2>1
  <2> QED BY <2>2, <2>3, <2>4, <2>5, Zenon
<1>6. Len(s) = k + Len(t)
  BY <1>1, <1>2, <1>3, <1>4
<1> QED BY <1>5, <1>6 DEF Ends, s, t

\* What is left has a length.
LEMMA SlackExists ==
  ASSUME NEW a \in Nat, NEW b \in Nat, a + 2 <= b
  PROVE  \E n \in Nat : a + n = b + 1 /\ n >= 3
<1>1. b + 1 - a \in Nat /\ a + (b + 1 - a) = b + 1 /\ b + 1 - a >= 3
  OBVIOUS
<1> QED BY <1>1

\* What is left is a stream.
LEMMA RestTyped ==
  ASSUME NEW q \in Seq(Byte), NEW w \in Seq(Byte), NEW x \in Seq(Byte),
         NEW a \in 1 .. Len(q) + 1
  PROVE  Rest(q, a, w, x) \in Seq(Byte)
<1>1. PICK n \in Nat : a + n = Len(q) + 1
  <2>1. Len(q) + 1 - a \in Nat /\ a + (Len(q) + 1 - a) = Len(q) + 1
    OBVIOUS
  <2> QED BY <2>1
<1>2. Consists(Rest(q, a, w, x), q, a, n, w, x)
  BY <1>1, LeftBytes
<1> QED BY <1>2 DEF Consists

\* The client sends one byte more.
LEMMA SendByteExact ==
  ASSUME TypeOK, Exact, NEW b \in Byte, SendByte(b)
  PROVE  Exact'
<1> SUFFICES ASSUME NEW x \in Seq(Byte)
             PROVE  handled' \o Payloads(Left' \o x) = Payloads(sent' \o x)
  BY DEF Exact
<1>1. /\ sent' = Append(sent, b) /\ wire' = Append(wire, b)
      /\ UNCHANGED <<buffer, start_offset, handled>>
  BY DEF SendByte, parseVars
<1>2. sent \in Seq(Byte) /\ wire \in Seq(Byte) /\ <<b>> \in Seq(Byte)
      /\ <<b>> \o x \in Seq(Byte)
  BY DEF TypeOK
<1> DEFINE l == SubSeq(buffer, start_offset, Len(buffer))
<1>3. l \in Seq(Byte)
  <2>1. \A i \in start_offset .. Len(buffer) : buffer[i] \in Byte
    BY DEF TypeOK
  <2>2. start_offset \in Int /\ Len(buffer) \in Int
    BY DEF TypeOK
  <2> QED BY <2>1, <2>2, SubSeqProperties
<1>4. Left = l \o wire /\ Left' = l \o wire'
  BY <1>1 DEF Left
<1> HIDE DEF l
<1>5. sent' \o x = sent \o (<<b>> \o x)
  <2>1. sent' = sent \o <<b>>
    BY <1>1, <1>2, AppendIsConcat
  <2> QED BY <1>2, <2>1, ConcatAssociative
<1>6. Left' \o x = Left \o (<<b>> \o x)
  <2>1. wire' = wire \o <<b>>
    BY <1>1, <1>2, AppendIsConcat
  <2>2. l \o (wire \o <<b>>) = (l \o wire) \o <<b>>
    BY <1>2, <1>3, ConcatAssociative
  <2>3. l \o wire \in Seq(Byte)
    BY <1>2, <1>3, ConcatProperties
  <2>4. ((l \o wire) \o <<b>>) \o x = (l \o wire) \o (<<b>> \o x)
    BY <1>2, <2>3, ConcatAssociative
  <2> QED BY <1>4, <2>1, <2>2, <2>4
<1>7. handled \o Payloads(Left \o (<<b>> \o x)) = Payloads(sent \o (<<b>> \o x))
  BY <1>2 DEF Exact
<1> QED BY <1>1, <1>5, <1>6, <1>7

\* Receiving moves bytes from the network to the buffer.
LEMMA RecvExact ==
  ASSUME IInv, Exact, Recv
  PROVE  Exact'
<1>1. /\ pc = "recv" /\ start_offset' = 1 /\ Taken > 0
      /\ buffer' = buffer \o SubSeq(wire, 1, Taken)
      /\ wire' = SubSeq(wire, Taken + 1, Len(wire))
      /\ UNCHANGED <<sent, handled>>
  BY DEF Recv
<1>2. /\ wire \in Seq(Byte) /\ buffer \in Seq(Byte)
      /\ Len(wire) \in Nat /\ Len(buffer) \in Nat /\ Len(buffer) <= Capacity
  BY DEF IInv, TypeOK
<1>3. Taken \in Nat /\ Taken <= Len(wire)
  BY <1>2, BaseFacts DEF Taken, Room
<1>4. /\ SubSeq(wire, 1, Taken) \in Seq(Byte) /\ wire' \in Seq(Byte)
      /\ SubSeq(wire, 1, Taken) \o SubSeq(wire, Taken + 1, Len(wire)) = wire
  <2>1. (\A i \in 1 .. Taken : wire[i] \in Byte)
        /\ \A i \in Taken + 1 .. Len(wire) : wire[i] \in Byte
    BY <1>2, <1>3
  <2>2. SubSeq(wire, 1, Taken) \in Seq(Byte) /\ wire' \in Seq(Byte)
    BY <1>1, <1>2, <1>3, <2>1, SubSeqProperties
  <2>3. 1 \in 1 .. Len(wire) + 1 /\ Taken \in 1 - 1 .. Len(wire) /\ Len(wire) \in Taken .. Len(wire)
    BY <1>2, <1>3
  <2>4. SubSeq(wire, 1, Taken) \o SubSeq(wire, Taken + 1, Len(wire)) = SubSeq(wire, 1, Len(wire))
    BY <1>2, <2>3, ConcatAdjacentSubSeq
  <2>5. SubSeq(wire, 1, Len(wire)) = wire
    BY <1>2, SubSeqFull
  <2> QED BY <2>2, <2>4, <2>5
<1>5. start_offset = 1
  BY <1>1 DEF IInv, Waits, Parsing
<1>6. Left = buffer \o wire
  BY <1>2, <1>5, SubSeqFull DEF Left
<1>7. Left' = (buffer \o SubSeq(wire, 1, Taken)) \o wire'
  <2>1. buffer' \in Seq(Byte)
    BY <1>1, <1>2, <1>4, ConcatProperties
  <2>2. SubSeq(buffer', 1, Len(buffer')) = buffer'
    BY <2>1, SubSeqFull
  <2>3. Left' = SubSeq(buffer', start_offset', Len(buffer')) \o wire'
    BY DEF Left
  <2> QED BY <1>1, <2>2, <2>3
<1>8. (buffer \o SubSeq(wire, 1, Taken)) \o wire' = buffer \o (SubSeq(wire, 1, Taken) \o wire')
  <2>1. \A u, v, w \in Seq(Byte) : (u \o v) \o w = u \o (v \o w)
    BY ConcatAssociative
  <2> QED BY <1>2, <1>4, <2>1, Zenon
<1>9. Left' = Left
  BY <1>1, <1>4, <1>6, <1>7, <1>8
<1> QED BY <1>1, <1>9 DEF Exact

\* Moving the rest of the buffer to its front moves no byte of the stream.
LEMMA CompactExact ==
  ASSUME TypeOK, Exact, Compact
  PROVE  Exact'
<1>1. /\ buffer' = SubSeq(buffer, start_offset, Len(buffer)) /\ start_offset' = 1
      /\ UNCHANGED <<sent, wire, handled>>
  BY DEF Compact, clientVars
<1>2. buffer' \in Seq(Byte)
  <2>1. \A i \in start_offset .. Len(buffer) : buffer[i] \in Byte
    BY DEF TypeOK
  <2>2. start_offset \in Int /\ Len(buffer) \in Int
    BY DEF TypeOK
  <2> QED BY <1>1, <2>1, <2>2, SubSeqProperties
<1>3. SubSeq(buffer', 1, Len(buffer')) = buffer'
  BY <1>2, SubSeqFull
<1>4. Left' = SubSeq(buffer', start_offset', Len(buffer')) \o wire'
  BY DEF Left
<1>5. Left' = Left
  BY <1>1, <1>3, <1>4 DEF Left
<1> QED BY <1>1, <1>5 DEF Exact

\* A byte that begins no frame belongs to no command.
LEMMA ResyncExact ==
  ASSUME TypeOK, Exact, Resync
  PROVE  Exact'
<1> SUFFICES ASSUME NEW x \in Seq(Byte)
             PROVE  handled' \o Payloads(Left' \o x) = Payloads(sent' \o x)
  BY DEF Exact
<1>1. /\ HeaderComplete /\ ~AtDelimiter /\ start_offset' = start_offset + 1
      /\ UNCHANGED <<sent, wire, buffer, handled>>
  BY DEF Resync, clientVars
<1>2. /\ start_offset \in Nat \ {0} /\ Len(buffer) \in Nat /\ start_offset + 2 <= Len(buffer)
      /\ buffer \in Seq(Byte) /\ wire \in Seq(Byte)
  BY <1>1, Header DEF TypeOK
<1> DEFINE s == Rest(buffer, start_offset, wire, x)
           t == Rest(buffer, start_offset + 1, wire, x)
<1>3. Left \o x = s /\ Left' \o x = t
  BY <1>1 DEF Left, Rest
<1>4. /\ start_offset \in 1 .. Len(buffer) + 1 /\ start_offset + 1 \in 1 .. Len(buffer) + 1
      /\ start_offset + 1 <= Len(buffer) + 1 /\ 1 \in Nat
  BY <1>2
<1>5. PICK n \in Nat : start_offset + n = Len(buffer) + 1 /\ n >= 3
  BY <1>2, SlackExists
<1>6. Consists(s, buffer, start_offset, n, wire, x)
  BY <1>2, <1>4, <1>5, LeftBytes
<1>7. t \in Seq(Byte)
  BY <1>2, <1>4, RestTyped
<1>8. Ends(s, 1, t)
  BY <1>2, <1>4, LeftEnds
<1> HIDE DEF s, t
<1>9. s \in Seq(Byte) /\ Len(s) >= 3 /\ s[1] = buffer[start_offset]
  <2>1. Len(wire) \in Nat /\ Len(x) \in Nat /\ 1 \in 1 .. n
    BY <1>2, <1>5
  <2>2. s[1] = buffer[start_offset + 1 - 1] /\ start_offset + 1 - 1 = start_offset
    BY <1>2, <1>6, <2>1 DEF Consists
  <2> QED BY <1>5, <1>6, <2>1, <2>2 DEF Consists
<1>10. Payloads(s) = Payloads(t)
  BY <1>1, <1>7, <1>8, <1>9, PayloadsSkip DEF AtDelimiter
<1> QED BY <1>1, <1>3, <1>10 DEF Exact

\* What a step leaves alone that touches neither the stream nor the commands found.
LEMMA ElseExact ==
  ASSUME Exact, UNCHANGED <<buffer, start_offset, wire, sent, handled>>
  PROVE  Exact'
<1>1. Left' = Left
  BY DEF Left
<1> QED BY <1>1 DEF Exact

\* The payload of a frame of k bytes at an offset of a buffer is that at the beginning of r.
Holds(r, q, a, k) == SubSeq(r, 4, k) = SubSeq(q, a + 3, a + k - 1)

\* The payload of a complete frame, seen from what is left of the stream.
LEMMA PayloadLeft ==
  ASSUME NEW q \in Seq(Byte), NEW w \in Seq(Byte), NEW x \in Seq(Byte),
         NEW a \in Nat \ {0}, NEW k \in Nat, k >= 3, a + k <= Len(q) + 1
  PROVE  Holds(Rest(q, a, w, x), q, a, k)
<1> DEFINE s == Rest(q, a, w, x)
<1>1. /\ Len(q) \in Nat /\ Len(w) \in Nat /\ Len(x) \in Nat /\ a \in 1 .. Len(q) + 1
      /\ a + 3 \in Int /\ a + k - 1 \in Int /\ 4 \in Int /\ k \in Int
  OBVIOUS
<1>2. PICK n \in Nat : a + n = Len(q) + 1
  <2>1. Len(q) + 1 - a \in Nat /\ a + (Len(q) + 1 - a) = Len(q) + 1
    BY <1>1
  <2> QED BY <2>1
<1>3. Consists(s, q, a, n, w, x)
  BY <1>1, <1>2, LeftBytes
<1> HIDE DEF s
<1>4. k <= n
  BY <1>1, <1>2
<1>5. s \in Seq(Byte) /\ (\A i \in 1 .. n : s[i] = q[a + i - 1]) /\ n <= Len(s)
  BY <1>1, <1>2, <1>3 DEF Consists
<1> DEFINE u == SubSeq(s, 4, k)
           v == SubSeq(q, a + 3, a + k - 1)
<1>6. /\ u \in Seq(Byte) /\ Len(u) = k - 3
      /\ \A i \in 1 .. k - 3 : u[i] = s[i + 3]
  <2>1. \A i \in 4 .. k : s[i] \in Byte
    BY <1>1, <1>4, <1>5
  <2>2. /\ u \in Seq(Byte) /\ Len(u) = (IF 4 <= k THEN k - 4 + 1 ELSE 0)
        /\ \A i \in 1 .. k - 4 + 1 : u[i] = s[4 + i - 1]
    BY <1>1, <2>1, SubSeqProperties
  <2> HIDE DEF u
  <2>3. k - 4 + 1 = k - 3 /\ (~(4 <= k) => k - 3 = 0)
    OBVIOUS
  <2> QED BY <2>2, <2>3
<1>7. /\ v \in Seq(Byte) /\ Len(v) = k - 3
      /\ \A i \in 1 .. k - 3 : v[i] = q[a + 3 + i - 1]
  <2>1. \A i \in a + 3 .. a + k - 1 : q[i] \in Byte
    BY <1>1
  <2>2. /\ v \in Seq(Byte)
        /\ Len(v) = (IF a + 3 <= a + k - 1 THEN (a + k - 1) - (a + 3) + 1 ELSE 0)
        /\ \A i \in 1 .. (a + k - 1) - (a + 3) + 1 : v[i] = q[a + 3 + i - 1]
    BY <1>1, <2>1, SubSeqProperties
  <2> HIDE DEF v
  <2>3. (a + k - 1) - (a + 3) + 1 = k - 3 /\ (~(a + 3 <= a + k - 1) => k - 3 = 0)
    BY <1>1
  <2> QED BY <2>2, <2>3
<1> HIDE DEF u, v
<1>8. ASSUME NEW i \in 1 .. Len(u) PROVE u[i] = v[i]
  <2>0. Len(u) = k - 3 /\ i \in 1 .. Len(u)
    BY <1>6
  <2>1. i \in 1 .. k - 3 /\ i + 3 \in 1 .. n /\ a + (i + 3) - 1 = a + 3 + i - 1
    BY <1>1, <1>4, <2>0
  <2>2. s[i + 3] = q[a + (i + 3) - 1]
    BY <1>5, <2>1
  <2> QED BY <1>6, <1>7, <2>1, <2>2
<1>9. u = v
  BY <1>6, <1>7, <1>8, SeqEqual
<1> QED BY <1>9 DEF s, u, v, Holds

\* A command that is handled is the next one of the stream.
LEMMA HandleCommandsExact ==
  ASSUME TypeOK, Exact, HandleCommands
  PROVE  Exact'
<1> SUFFICES ASSUME NEW x \in Seq(Byte)
             PROVE  handled' \o Payloads(Left' \o x) = Payloads(sent' \o x)
  BY DEF Exact
<1>1. /\ HeaderComplete /\ AtDelimiter /\ FrameComplete /\ start_offset' = NextOffset
      /\ handled' = Append(handled, Payload)
      /\ UNCHANGED <<sent, wire, buffer>>
  BY DEF HandleCommands, clientVars
<1>2. /\ start_offset \in Nat \ {0} /\ Len(buffer) \in Nat /\ start_offset + 2 <= Len(buffer)
      /\ MsgSize \in Nat /\ NextOffset = start_offset + 3 + MsgSize
      /\ buffer \in Seq(Byte) /\ wire \in Seq(Byte) /\ handled \in Seq(Seq(Byte))
  BY <1>1, Header DEF TypeOK
<1>3. PICK k \in Nat : k >= 3 /\ NextOffset = start_offset + k /\ k = 3 + MsgSize
  <2>1. 3 + MsgSize \in Nat /\ 3 + MsgSize >= 3 /\ NextOffset = start_offset + (3 + MsgSize)
    BY <1>2
  <2> QED BY <2>1
<1>4. start_offset + k <= Len(buffer) + 1
  BY <1>1, <1>2, <1>3 DEF FrameComplete
<1> DEFINE s == Rest(buffer, start_offset, wire, x)
           t == Rest(buffer, start_offset + k, wire, x)
<1>5. Left \o x = s /\ Left' \o x = t
  BY <1>1, <1>3 DEF Left, Rest
<1>6. /\ start_offset \in 1 .. Len(buffer) + 1 /\ start_offset + k \in 1 .. Len(buffer) + 1
  BY <1>2, <1>3, <1>4
<1>7. PICK n \in Nat : start_offset + n = Len(buffer) + 1 /\ n >= 3
  BY <1>2, SlackExists
<1>8. Consists(s, buffer, start_offset, n, wire, x)
  BY <1>2, <1>6, <1>7, LeftBytes
<1>9. t \in Seq(Byte)
  BY <1>2, <1>6, RestTyped
<1>10. Ends(s, k, t)
  BY <1>2, <1>4, <1>6, LeftEnds
<1>11. SubSeq(s, 4, k) = SubSeq(buffer, start_offset + 3, start_offset + k - 1)
  <2>1. Holds(s, buffer, start_offset, k)
    BY <1>2, <1>3, <1>4, PayloadLeft
  <2> QED BY <2>1, Zenon DEF Holds
<1> HIDE DEF s, t
<1>12. /\ s \in Seq(Byte) /\ Len(s) \in Nat /\ Len(s) >= 3 /\ s[1] = buffer[start_offset]
       /\ s[2] = buffer[start_offset + 1] /\ s[3] = buffer[start_offset + 2]
  <2>1. Len(wire) \in Nat /\ Len(x) \in Nat /\ 1 \in 1 .. n /\ 2 \in 1 .. n /\ 3 \in 1 .. n
    BY <1>2, <1>7
  <2>2. start_offset + 1 - 1 = start_offset /\ start_offset + 2 - 1 = start_offset + 1
        /\ start_offset + 3 - 1 = start_offset + 2
    BY <1>2
  <2>3. s \in Seq(Byte) /\ Len(s) = n + Len(wire) + Len(x)
        /\ \A i \in 1 .. n : s[i] = buffer[start_offset + i - 1]
    BY <1>8 DEF Consists
  <2>4. /\ s[1] = buffer[start_offset + 1 - 1] /\ s[2] = buffer[start_offset + 2 - 1]
        /\ s[3] = buffer[start_offset + 3 - 1]
    BY <2>1, <2>3
  <2> QED BY <1>7, <2>1, <2>2, <2>3, <2>4
<1>13. Behind(s, 1) = k + 1
  <2>1. 1 + 1 = 2 /\ 1 + 2 = 3
    OBVIOUS
  <2>2. Behind(s, 1) = 1 + HeaderSize + Base * s[2] + s[3]
    BY <2>1, Zenon DEF Behind
  <2>3. Behind(s, 1) = 1 + 3 + Base * buffer[start_offset + 1] + buffer[start_offset + 2]
    BY <1>12, <2>2, BaseFacts
  <2>4. buffer[start_offset + 1] \in Byte /\ buffer[start_offset + 2] \in Byte
    BY <1>2
  <2>5. /\ Base * buffer[start_offset + 1] \in Nat /\ buffer[start_offset + 2] \in Nat
    BY <2>4, BaseFacts, ProductNat
  <2>6. 1 + 3 + Base * buffer[start_offset + 1] + buffer[start_offset + 2] = 4 + MsgSize
    BY <2>5 DEF MsgSize
  <2> QED BY <1>2, <1>3, <2>3, <2>6
<1>14. Ends(s, Behind(s, 1) - 1, t) /\ Behind(s, 1) - 1 = k
  <2>1. Behind(s, 1) - 1 = k
    BY <1>13
  <2> QED BY <1>10, <2>1
<1>15. k <= Len(s)
  <2>1. Len(t) \in Nat /\ Len(s) = k + Len(t)
    BY <1>9, <1>10 DEF Ends
  <2> QED BY <2>1
<1>16. Payloads(s) = <<SubSeq(s, 4, Behind(s, 1) - 1)>> \o Payloads(t)
  <2>1. s[1] = Delimiter /\ Behind(s, 1) - 1 <= Len(s)
    BY <1>1, <1>12, <1>14, <1>15 DEF AtDelimiter
  <2> QED BY <1>9, <1>12, <1>14, <2>1, PayloadsFrame
<1>17. Payload = SubSeq(buffer, start_offset + 3, start_offset + k - 1)
  <2>1. start_offset + HeaderSize = start_offset + 3 /\ NextOffset - 1 = start_offset + k - 1
    BY <1>2, <1>3, BaseFacts
  <2> QED BY <2>1, Zenon DEF Payload
<1>18. SubSeq(s, 4, Behind(s, 1) - 1) = Payload
  BY <1>11, <1>14, <1>17
<1>19. Payload \in Seq(Byte)
  <2>1. \A i \in start_offset + 3 .. start_offset + k - 1 : buffer[i] \in Byte
    BY <1>2, <1>3, <1>4
  <2>2. Payload = SubSeq(buffer, start_offset + 3, start_offset + k - 1)
    BY <1>17
  <2>3. start_offset + 3 \in Int /\ start_offset + k - 1 \in Int
    BY <1>2
  <2> QED BY <2>1, <2>2, <2>3, SubSeqProperties
<1>20. handled' \o Payloads(t) = handled \o Payloads(s)
  <2>1. <<Payload>> \in Seq(Seq(Byte)) /\ Payloads(t) \in Seq(Seq(Byte))
    BY <1>9, <1>19, PayloadsTyped
  <2>2. handled' = handled \o <<Payload>>
    BY <1>1, <1>2, <1>19, AppendIsConcat
  <2>3. \A u, v, w \in Seq(Seq(Byte)) : (u \o v) \o w = u \o (v \o w)
    BY ConcatAssociative
  <2>4. (handled \o <<Payload>>) \o Payloads(t) = handled \o (<<Payload>> \o Payloads(t))
    BY <1>2, <2>1, <2>3, Zenon
  <2> QED BY <1>16, <1>18, <2>2, <2>4, Zenon
<1>21. handled \o Payloads(Left \o x) = Payloads(sent \o x)
  BY DEF Exact
<1> QED BY <1>1, <1>5, <1>20, <1>21

\* Nothing is sent and nothing found when the session starts.
LEMMA InitExact == Init => Exact
<1> SUFFICES ASSUME Init, NEW x \in Seq(Byte)
             PROVE  handled \o Payloads(Left \o x) = Payloads(sent \o x)
  BY DEF Exact
<1>1. buffer = <<>> /\ wire = <<>> /\ sent = <<>> /\ handled = <<>> /\ start_offset = 1
  BY DEF Init
<1>2. <<>> \in Seq(Byte) /\ Len(<<>>) = 0 /\ <<>> \in Seq(Seq(Byte))
  OBVIOUS
<1>3. SubSeq(buffer, start_offset, Len(buffer)) = <<>>
  <2>1. SubSeq(buffer, 1, Len(buffer)) = buffer
    BY <1>1, <1>2, SubSeqFull
  <2> QED BY <1>1, <2>1
<1>4. Left = <<>>
  BY <1>1, <1>2, <1>3, ConcatEmptySeq DEF Left
<1>5. Left \o x = sent \o x
  BY <1>1, <1>4
<1>6. Payloads(sent \o x) \in Seq(Seq(Byte))
  <2>1. sent \o x \in Seq(Byte)
    BY <1>1, <1>2, ConcatProperties
  <2> QED BY <2>1, PayloadsTyped
<1>7. <<>> \o Payloads(sent \o x) = Payloads(sent \o x)
  BY <1>6, ConcatEmptySeq
<1> QED BY <1>1, <1>5, <1>7

\* No step loses, repeats or splits a command.
LEMMA NextExact == ASSUME IInv, Exact, [Next]_vars PROVE Exact'
<1>1. TypeOK
  BY DEF IInv
<1>2. CASE \E b \in Byte : SendByte(b)
  BY <1>1, <1>2, SendByteExact
<1>3. CASE Close \/ ReadAnswer \/ SendDatagram
  BY <1>3, ElseExact DEF Close, ReadAnswer, SendDatagram, clientVars, parseVars
<1>4. CASE Select \/ RecvNothing \/ RecvFails \/ HandleInputs
  BY <1>4, ElseExact DEF Select, RecvNothing, RecvFails, HandleInputs, clientVars, parseVars
<1>10. CASE Describe \/ WriteAnswer \/ WriteShort \/ WriteKills
  BY <1>10, ElseExact
     DEF Describe, WriteAnswer, WriteShort, WriteKills, clientVars, parseVars
<1>5. CASE UNCHANGED vars
  BY <1>5, ElseExact DEF vars
<1>6. CASE Recv
  BY <1>6, RecvExact
<1>7. CASE Compact
  BY <1>1, <1>7, CompactExact
<1>8. CASE Resync
  BY <1>1, <1>8, ResyncExact
<1>9. CASE HandleCommands
  BY <1>1, <1>9, HandleCommandsExact
<1> QED BY <1>2, <1>3, <1>4, <1>5, <1>6, <1>7, <1>8, <1>9, <1>10, Zenon DEF Next, Client, Session

\* Whatever the client sends next, the commands found are the first of the stream.
THEOREM StreamCorrect == Spec => []Exact
<1>1. Exact /\ IInv /\ [Next]_vars => Exact'
  BY NextExact
<1> QED BY InitExact, <1>1, SessionCorrect, PTL DEF Spec

\* The framing is exact, for every stream and every way to cut it into segments.
THEOREM FramingCorrect == Spec => []FramingExact
<1>1. TypeOK /\ Exact => FramingExact
  <2> SUFFICES ASSUME TypeOK, Exact PROVE FramingExact
    OBVIOUS
  <2>1. buffer \in Seq(Byte) /\ wire \in Seq(Byte) /\ sent \in Seq(Byte)
    BY DEF TypeOK
  <2>2. SubSeq(buffer, start_offset, Len(buffer)) \in Seq(Byte)
    <3>1. \A i \in start_offset .. Len(buffer) : buffer[i] \in Byte
      BY DEF TypeOK
    <3>2. start_offset \in Int /\ Len(buffer) \in Int
      BY DEF TypeOK
    <3> QED BY <3>1, <3>2, SubSeqProperties
  <2>3. Left \in Seq(Byte)
    BY <2>1, <2>2, ConcatProperties DEF Left
  <2>4. <<>> \in Seq(Byte) /\ Left \o <<>> = Left /\ sent \o <<>> = sent
    BY <2>1, <2>3, ConcatEmptySeq
  <2>5. handled \o Payloads(Left \o <<>>) = Payloads(sent \o <<>>)
    BY <2>4 DEF Exact
  <2> QED BY <2>4, <2>5 DEF FramingExact, Left
<1>2. IInv => TypeOK
  BY DEF IInv
<1> QED BY <1>1, <1>2, StreamCorrect, SessionCorrect, PTL

-----------------------------------------------------------------------------
(* Answers.                                                                *)

\* Joining byte sequences, or sequences of payloads, is associative.
LEMMA ConcatBytes == \A u, v, w \in Seq(Byte) : (u \o v) \o w = u \o (v \o w)
BY ConcatAssociative

\* The same for sequences of payloads.
LEMMA ConcatPayloads == \A u, v, w \in Seq(Seq(Byte)) : (u \o v) \o w = u \o (v \o w)
<1> DEFINE T == Seq(Byte)
<1>1. \A u, v, w \in Seq(T) : (u \o v) \o w = u \o (v \o w)
  <2> HIDE DEF T
  <2> QED BY ConcatAssociative
<1> QED BY <1>1

Zeros(n) == [i \in 1 .. n |-> 0]

\* s is n zeros and then x.
Padded(s, n, x) ==
  /\ s \in Seq(Byte) /\ Len(s) = n + Len(x)
  /\ \A i \in 1 .. n : s[i] = 0
  /\ \A i \in 1 .. Len(x) : s[n + i] = x[i]

\* The bytes of a text of zeros and of what follows it.
LEMMA ZerosBytes ==
  ASSUME NEW n \in Nat, NEW x \in Seq(Byte)
  PROVE  Padded(Zeros(n) \o x, n, x)
<1> DEFINE z == Zeros(n)
           s == z \o x
<1>1. z \in Seq(Byte) /\ Len(z) = n /\ \A i \in 1 .. n : z[i] = 0
  BY BaseFacts DEF Zeros
<1> HIDE DEF z
<1>2. /\ s \in Seq(Byte) /\ Len(s) = Len(z) + Len(x)
      /\ \A i \in 1 .. Len(z) + Len(x) : s[i] = IF i <= Len(z) THEN z[i] ELSE x[i - Len(z)]
  BY <1>1, ConcatProperties
<1> HIDE DEF s
<1>3. Len(x) \in Nat /\ Len(z) = n /\ Len(s) = n + Len(x)
  BY <1>1, <1>2
<1>4. ASSUME NEW i \in 1 .. n PROVE s[i] = 0
  <2>1. i \in 1 .. Len(z) + Len(x) /\ i <= Len(z)
    BY <1>3
  <2> QED BY <1>1, <1>2, <2>1
<1>5. ASSUME NEW i \in 1 .. Len(x) PROVE s[n + i] = x[i]
  <2>1. n + i \in 1 .. Len(z) + Len(x) /\ ~(n + i <= Len(z)) /\ (n + i) - Len(z) = i
    BY <1>3
  <2> QED BY <1>2, <2>1
<1> QED BY <1>2, <1>3, <1>4, <1>5 DEF Padded, s, z

\* One zero more.
LEMMA ZeroSkipped ==
  ASSUME NEW m \in Nat, NEW x \in Seq(Byte), NEW s, Padded(s, m + 1, x), NEW t, Padded(t, m, x),
         Payloads(t) = Payloads(x)
  PROVE  Payloads(s) = Payloads(x)
<1>1. /\ s \in Seq(Byte) /\ t \in Seq(Byte) /\ Len(s) = m + 1 + Len(x) /\ Len(t) = m + Len(x)
      /\ Len(x) \in Nat /\ Len(s) \in Nat /\ Len(t) \in Nat
  BY DEF Padded
<1>2. Ends(s, 1, t)
  <2>1. ASSUME NEW i \in 1 .. Len(t) PROVE t[i] = s[1 + i]
    <3>1. CASE i <= m
      <4>1. i \in 1 .. m /\ 1 + i \in 1 .. m + 1
        BY <1>1, <3>1
      <4> QED BY <4>1 DEF Padded
    <3>2. CASE ~(i <= m)
      <4>1. PICK j \in 1 .. Len(x) : i = m + j
        <5>1. i - m \in 1 .. Len(x) /\ i = m + (i - m)
          BY <1>1, <3>2
        <5> QED BY <5>1
      <4>2. 1 + i = m + 1 + j
        BY <4>1
      <4>3. t[m + j] = x[j] /\ s[m + 1 + j] = x[j]
        BY DEF Padded
      <4> QED BY <4>1, <4>2, <4>3
    <3> QED BY <3>1, <3>2
  <2>2. Len(s) = 1 + Len(t)
    BY <1>1
  <2> QED BY <2>1, <2>2 DEF Ends
<1>3. CASE Len(s) >= 3
  <2>1. 1 \in 1 .. m + 1
    OBVIOUS
  <2>2. s[1] = 0
    BY <2>1 DEF Padded
  <2>3. 0 # Delimiter
    BY BaseFacts DEF Delimiter
  <2>4. Payloads(s) = Payloads(t)
    BY <1>1, <1>2, <1>3, <2>2, <2>3, PayloadsSkip
  <2> QED BY <2>4
<1>4. CASE Len(s) < 3
  <2>1. Len(x) < 3
    BY <1>1, <1>4
  <2> QED BY <1>1, <1>4, <2>1, PayloadsShort
<1> QED BY <1>1, <1>3, <1>4

\* What follows the end of a message that the reader takes for text that begins no frame.
LEMMA ZerosSkipped ==
  ASSUME NEW n \in Nat, NEW x \in Seq(Byte)
  PROVE  Payloads(Zeros(n) \o x) = Payloads(x)
<1> DEFINE Bad == {d \in Nat : Payloads(Zeros(d) \o x) # Payloads(x)}
<1>1. Bad = {}
  <2> SUFFICES ASSUME Bad # {} PROVE FALSE
    OBVIOUS
  <2>1. PICK m \in Bad : \A d \in Bad : m <= d
    BY Smallest
  <2>2. m # 0
    <3>1. Padded(Zeros(0) \o x, 0, x)
      BY ZerosBytes
    <3> DEFINE s == Zeros(0) \o x
    <3> HIDE DEF s
    <3>2. s \in Seq(Byte) /\ Len(s) = Len(x) /\ \A i \in 1 .. Len(s) : s[i] = x[i]
      BY <3>1 DEF s, Padded
    <3>3. s = x
      BY <3>2, SeqEqual
    <3> QED BY <2>1, <3>3 DEF s
  <2>3. PICK e \in Nat : m = e + 1
    <3>1. m - 1 \in Nat /\ m = (m - 1) + 1
      BY <2>1, <2>2
    <3> QED BY <3>1
  <2>4. e \notin Bad
    BY <2>1, <2>3
  <2>5. Payloads(Zeros(e) \o x) = Payloads(x)
    BY <2>4
  <2>6. Padded(Zeros(m) \o x, e + 1, x) /\ Padded(Zeros(e) \o x, e, x)
    BY <2>3, ZerosBytes
  <2>7. Payloads(Zeros(m) \o x) = Payloads(x)
    BY <2>5, <2>6, ZeroSkipped
  <2> QED BY <2>1, <2>7
<1> QED BY <1>1

\* The payload p is what a client may read of a message: no byte of another one, and
\* not the whole of one that is longer than a byte can say.
Reads(p, message) ==
  /\ Len(p) <= Len(message) - HeaderSize
  /\ Len(message) - HeaderSize >= Base => Len(p) < Len(message) - HeaderSize

\* s is a header of a message of n bytes, with m in its low byte, n zeros and then x.
Headed(s, n, m, x) ==
  /\ s \in Seq(Byte) /\ Len(s) = 3 + n + Len(x)
  /\ s[1] = Delimiter /\ s[2] = 0 /\ s[3] = m
  /\ \A i \in 1 .. n : s[3 + i] = 0
  /\ \A i \in 1 .. Len(x) : s[3 + n + i] = x[i]

\* The bytes of a message and of what follows it.
LEMMA HeadedBytes ==
  ASSUME NEW n \in Nat, NEW m \in Byte, NEW x \in Seq(Byte)
  PROVE  /\ <<Delimiter, 0, m>> \o Zeros(n) \in Seq(Byte)
         /\ Len(<<Delimiter, 0, m>> \o Zeros(n)) = 3 + n
         /\ Headed((<<Delimiter, 0, m>> \o Zeros(n)) \o x, n, m, x)
<1> DEFINE h == <<Delimiter, 0, m>>
           z == Zeros(n)
           u == h \o z
           s == u \o x
<1>1. h \in Seq(Byte) /\ Len(h) = 3 /\ h[1] = Delimiter /\ h[2] = 0 /\ h[3] = m
  BY BaseFacts
<1>2. z \in Seq(Byte) /\ Len(z) = n /\ \A i \in 1 .. n : z[i] = 0
  BY BaseFacts DEF Zeros
<1> HIDE DEF h, z
<1>3. /\ u \in Seq(Byte) /\ Len(u) = 3 + n
      /\ \A i \in 1 .. 3 + n : u[i] = IF i <= 3 THEN h[i] ELSE z[i - 3]
  <2>1. /\ u \in Seq(Byte) /\ Len(u) = Len(h) + Len(z)
        /\ \A i \in 1 .. Len(h) + Len(z) : u[i] = IF i <= Len(h) THEN h[i] ELSE z[i - Len(h)]
    BY <1>1, <1>2, ConcatProperties
  <2> HIDE DEF u
  <2> QED BY <1>1, <1>2, <2>1
<1> HIDE DEF u
<1>4. /\ s \in Seq(Byte) /\ Len(s) = 3 + n + Len(x) /\ Len(x) \in Nat
      /\ \A i \in 1 .. 3 + n + Len(x) : s[i] = IF i <= 3 + n THEN u[i] ELSE x[i - (3 + n)]
  <2>1. /\ s \in Seq(Byte) /\ Len(s) = Len(u) + Len(x)
        /\ \A i \in 1 .. Len(u) + Len(x) : s[i] = IF i <= Len(u) THEN u[i] ELSE x[i - Len(u)]
    BY <1>3, ConcatProperties
  <2> HIDE DEF s
  <2>2. Len(x) \in Nat
    OBVIOUS
  <2> QED BY <1>3, <2>1, <2>2
<1> HIDE DEF s
<1>5. s[1] = Delimiter /\ s[2] = 0 /\ s[3] = m
  <2>1. \A i \in {1, 2, 3} : i \in 1 .. 3 + n /\ i \in 1 .. 3 + n + Len(x) /\ i <= 3 /\ i <= 3 + n
    BY <1>4
  <2>2. \A i \in {1, 2, 3} : s[i] = h[i]
    BY <1>3, <1>4, <2>1
  <2> QED BY <1>1, <2>2
<1>6. ASSUME NEW i \in 1 .. n PROVE s[3 + i] = 0
  <2>1. 3 + i \in 1 .. 3 + n /\ 3 + i \in 1 .. 3 + n + Len(x) /\ ~(3 + i <= 3)
        /\ 3 + i <= 3 + n /\ (3 + i) - 3 = i
    BY <1>4
  <2>2. s[3 + i] = u[3 + i]
    BY <1>4, <2>1
  <2>3. u[3 + i] = z[i]
    BY <1>3, <2>1
  <2> QED BY <1>2, <2>2, <2>3
<1>7. ASSUME NEW i \in 1 .. Len(x) PROVE s[3 + n + i] = x[i]
  <2>1. 3 + n + i \in 1 .. 3 + n + Len(x) /\ ~(3 + n + i <= 3 + n) /\ (3 + n + i) - (3 + n) = i
    BY <1>4
  <2> QED BY <1>4, <2>1
<1>8. Headed(s, n, m, x)
  BY <1>4, <1>5, <1>6, <1>7 DEF Headed
<1> QED BY <1>3, <1>8 DEF s, u, h, z

\* A reader of s finds a payload of m bytes and then what it finds in x.
Gives(s, m, x) ==
  \E p \in Seq(Byte) : Len(p) = m /\ Payloads(s) = <<p>> \o Payloads(x)

\* The reader takes m bytes of the text for the payload, and skips the others.
LEMMA HeadedRead ==
  ASSUME NEW n \in Nat, NEW m \in Byte, m <= n, NEW x \in Seq(Byte), NEW s, Headed(s, n, m, x)
  PROVE  Gives(s, m, x)
<1>1. /\ s \in Seq(Byte) /\ Len(s) = 3 + n + Len(x) /\ Len(s) \in Nat /\ Len(x) \in Nat
      /\ s[1] = Delimiter /\ s[2] = 0 /\ s[3] = m /\ m \in Nat
  BY BaseFacts DEF Headed
<1>2. Behind(s, 1) = 4 + m
  <2>1. 1 + 1 = 2 /\ 1 + 2 = 3 /\ Base * 0 = 0
    BY BaseFacts
  <2>2. Behind(s, 1) = 1 + HeaderSize + Base * s[2] + s[3]
    BY <2>1, Zenon DEF Behind
  <2>3. Behind(s, 1) = 1 + 3 + 0 + m
    BY <1>1, <2>1, <2>2, BaseFacts
  <2> QED BY <1>1, <2>3
<1>3. PICK j \in Nat : n = m + j
  <2>1. n - m \in Nat /\ n = m + (n - m)
    BY <1>1
  <2> QED BY <2>1
<1> DEFINE t == Zeros(j) \o x
           p == SubSeq(s, 4, 3 + m)
<1>4. Padded(t, j, x)
  BY ZerosBytes
<1>5. Payloads(t) = Payloads(x)
  BY ZerosSkipped
<1> HIDE DEF t
<1>6. t \in Seq(Byte) /\ Len(t) = j + Len(x) /\ Len(t) \in Nat
  BY <1>4 DEF Padded
<1>7. Ends(s, 3 + m, t)
  <2>1. ASSUME NEW i \in 1 .. Len(t) PROVE t[i] = s[(3 + m) + i]
    <3>1. CASE i <= j
      <4>1. i \in 1 .. j /\ m + i \in 1 .. n /\ (3 + m) + i = 3 + (m + i)
        BY <1>1, <1>3, <1>6, <3>1
      <4>2. t[i] = 0 /\ s[3 + (m + i)] = 0
        BY <1>4, <4>1 DEF Padded, Headed
      <4> QED BY <4>1, <4>2
    <3>2. CASE ~(i <= j)
      <4>1. PICK l \in 1 .. Len(x) : i = j + l
        <5>1. i - j \in 1 .. Len(x) /\ i = j + (i - j)
          BY <1>1, <1>6, <3>2
        <5> QED BY <5>1
      <4>2. (3 + m) + i = 3 + n + l
        BY <1>1, <1>3, <4>1
      <4>3. t[j + l] = x[l] /\ s[3 + n + l] = x[l]
        BY <1>4 DEF Padded, Headed
      <4> QED BY <4>1, <4>2, <4>3
    <3> QED BY <3>1, <3>2
  <2>2. Len(s) = (3 + m) + Len(t)
    BY <1>1, <1>3, <1>6
  <2> QED BY <2>1, <2>2 DEF Ends
<1>8. Behind(s, 1) - 1 = 3 + m /\ 3 + m <= Len(s) /\ Len(s) >= 3
  BY <1>1, <1>2, <1>3
<1>9. Payloads(s) = <<SubSeq(s, 4, Behind(s, 1) - 1)>> \o Payloads(t)
  <2>1. Behind(s, 1) - 1 <= Len(s) /\ Ends(s, Behind(s, 1) - 1, t)
    BY <1>7, <1>8
  <2> QED BY <1>1, <1>6, <1>8, <2>1, PayloadsFrame
<1>10. p \in Seq(Byte) /\ Len(p) = m
  <2>1. \A i \in 4 .. 3 + m : s[i] \in Byte
    BY <1>1, <1>3
  <2>2. p \in Seq(Byte) /\ Len(p) = IF 4 <= 3 + m THEN (3 + m) - 4 + 1 ELSE 0
    BY <1>1, <2>1, SubSeqProperties
  <2> HIDE DEF p
  <2> QED BY <1>1, <2>2
<1>11. Payloads(s) = <<p>> \o Payloads(x)
  BY <1>5, <1>8, <1>9, Zenon
<1> QED BY <1>10, <1>11 DEF Gives

IsMessage(m) == \E n \in Nat, shifted \in BOOLEAN : m = Message(n, shifted)

\* A message gives one payload, whatever its length says, and what follows it the others.
LEMMA MessageRead ==
  ASSUME NEW msg, IsMessage(msg), NEW x \in Seq(Byte)
  PROVE  \E p \in Seq(Byte) : Reads(p, msg) /\ Payloads(msg \o x) = <<p>> \o Payloads(x)
<1>0. PICK n \in Nat, shifted \in BOOLEAN : msg = Message(n, shifted)
  BY DEF IsMessage
<1> DEFINE m == IF shifted THEN 0 ELSE n % Base
<1>1. m \in Byte /\ m \in Nat /\ m <= n /\ (n >= Base => m < n)
  <2>1. n % Base \in 0 .. Base - 1 /\ n % Base <= n
    BY BaseFacts
  <2>2. CASE shifted
    BY <2>2, BaseFacts
  <2>3. CASE ~shifted
    BY <2>1, <2>3, BaseFacts DEF Byte
  <2> QED BY <2>2, <2>3
<1>2. msg = <<Delimiter, 0, m>> \o Zeros(n)
  BY <1>0 DEF Message, Zeros
<1> HIDE DEF m
<1> DEFINE s == msg \o x
<1>3. Len(msg) = 3 + n /\ Headed(s, n, m, x)
  BY <1>1, <1>2, HeadedBytes
<1> HIDE DEF s
<1>4. PICK p \in Seq(Byte) : Len(p) = m /\ Payloads(s) = <<p>> \o Payloads(x)
  <2>1. Gives(s, m, x)
    BY <1>1, <1>3, HeadedRead
  <2> QED BY <2>1 DEF Gives
<1>5. Reads(p, msg)
  <2>1. Len(msg) - HeaderSize = n
    BY <1>3, BaseFacts
  <2> QED BY <1>1, <1>4, <2>1 DEF Reads
<1> QED BY <1>4, <1>5 DEF s

\* The function that FlattenSeq recurses with.
Join(f, q, i) == IF i = 1 THEN q[i] ELSE f[i - 1] \o q[i]
Joins(f, q) == f = [i \in 1 .. Len(q) |-> Join(f, q, i)]
Joined(q) == CHOOSE f : Joins(f, q)

\* FlattenSeq in these terms.
LEMMA FlattenJoined ==
  ASSUME NEW q, Len(q) # 0
  PROVE  FlattenSeq(q) = Joined(q)[Len(q)]
BY Zenon DEF FlattenSeq, Join, Joins, Joined

\* f joins the first d sequences of q.
JoinsUpTo(f, q, d) ==
  /\ f \in [1 .. d -> Seq(Byte)]
  /\ \A i \in 1 .. d : f[i] = Join(f, q, i)

\* One sequence more.
LEMMA JoinNext ==
  ASSUME NEW q \in Seq(Seq(Byte)), NEW d \in Nat, d + 1 <= Len(q), NEW g, JoinsUpTo(g, q, d)
  PROVE  \E h : JoinsUpTo(h, q, d + 1)
<1> DEFINE u == Join(g, q, d + 1)
<1>1. q[d + 1] \in Seq(Byte)
  OBVIOUS
<1>2. u \in Seq(Byte)
  <2>1. CASE d = 0
    BY <1>1, <2>1 DEF Join
  <2>2. CASE d # 0
    <3>1. d \in 1 .. d /\ d + 1 - 1 = d /\ d + 1 # 1
      BY <2>2
    <3>2. g[d] \in Seq(Byte)
      BY <3>1 DEF JoinsUpTo
    <3>3. g[d] \o q[d + 1] \in Seq(Byte)
      BY <1>1, <3>2, ConcatProperties
    <3> QED BY <3>1, <3>3 DEF Join
  <2> QED BY <2>1, <2>2
<1> DEFINE h == [i \in 1 .. d + 1 |-> IF i = d + 1 THEN u ELSE g[i]]
<1> HIDE DEF u
<1>3. /\ h \in [1 .. d + 1 -> Seq(Byte)] /\ h[d + 1] = u
      /\ \A i \in 1 .. d : h[i] = g[i]
  BY <1>2 DEF JoinsUpTo
<1> HIDE DEF h
<1>4. ASSUME NEW i \in 1 .. d + 1 PROVE h[i] = Join(h, q, i)
  <2>1. i # 1 => i - 1 \in 1 .. d
    OBVIOUS
  <2>2. i # 1 => h[i - 1] = g[i - 1]
    BY <1>3, <2>1
  <2>3. Join(h, q, i) = Join(g, q, i)
    BY <2>2, Zenon DEF Join
  <2>4. CASE i = d + 1
    BY <1>3, <2>3, <2>4, Zenon DEF u
  <2>5. CASE i # d + 1
    <3>1. i \in 1 .. d
      BY <2>5
    <3>2. h[i] = g[i] /\ g[i] = Join(g, q, i)
      BY <1>3, <3>1 DEF JoinsUpTo
    <3> QED BY <2>3, <3>2, Zenon
  <2> QED BY <2>4, <2>5
<1> QED BY <1>3, <1>4 DEF JoinsUpTo

\* The recursive function exists.
LEMMA JoinedSolves ==
  ASSUME NEW q \in Seq(Seq(Byte))
  PROVE  Joins(Joined(q), q)
<1> DEFINE Bad == {d \in Nat : d <= Len(q) /\ ~ \E f : JoinsUpTo(f, q, d)}
<1>1. Bad = {}
  <2> SUFFICES ASSUME Bad # {} PROVE FALSE
    OBVIOUS
  <2>1. PICK m \in Bad : \A d \in Bad : m <= d
    BY Smallest
  <2>2. m # 0
    <3> DEFINE f == [i \in 1 .. 0 |-> <<>>]
    <3>1. JoinsUpTo(f, q, 0)
      <4>1. f \in [1 .. 0 -> Seq(Byte)] /\ \A i \in 1 .. 0 : FALSE
        OBVIOUS
      <4> HIDE DEF f
      <4> QED BY <4>1 DEF JoinsUpTo
    <3> HIDE DEF f
    <3> QED BY <2>1, <3>1
  <2>3. PICK e \in Nat : m = e + 1
    <3>1. m - 1 \in Nat /\ m = (m - 1) + 1
      BY <2>1, <2>2
    <3> QED BY <3>1
  <2>4. e + 1 <= Len(q) /\ e <= Len(q) /\ e \notin Bad
    <3>1. m <= Len(q) /\ Len(q) \in Nat
      BY <2>1
    <3>2. e + 1 <= Len(q) /\ e <= Len(q) /\ ~(m <= e)
      BY <2>3, <3>1
    <3> QED BY <2>1, <3>2
  <2>5. PICK g : JoinsUpTo(g, q, e)
    BY <2>4
  <2>6. \E h : JoinsUpTo(h, q, e + 1)
    BY <2>4, <2>5, JoinNext
  <2> QED BY <2>1, <2>3, <2>6
<1>2. PICK f : JoinsUpTo(f, q, Len(q))
  <2>1. Len(q) \in Nat /\ Len(q) <= Len(q)
    OBVIOUS
  <2> QED BY <1>1, <2>1
<1>3. Joins(f, q)
  <2>1. f = [i \in 1 .. Len(q) |-> f[i]]
    BY <1>2 DEF JoinsUpTo
  <2>2. \A i \in 1 .. Len(q) : f[i] = Join(f, q, i)
    BY <1>2 DEF JoinsUpTo
  <2> QED BY <2>1, <2>2 DEF Joins
<1> QED BY <1>3 DEF Joined

\* A reader finds in s the first d messages of q, one by one, and nothing else.
ReadBack(s, q, d) ==
  /\ s \in Seq(Byte)
  /\ \A x \in Seq(Byte) : \E r \in Seq(Seq(Byte)) :
       /\ Len(r) = d
       /\ \A i \in 1 .. d : Reads(r[i], q[i])
       /\ Payloads(s \o x) = r \o Payloads(x)

\* The first message.
LEMMA ReadFirst ==
  ASSUME NEW q \in Seq(Seq(Byte)), Len(q) >= 1, IsMessage(q[1])
  PROVE  ReadBack(q[1], q, 1)
<1>1. q[1] \in Seq(Byte)
  OBVIOUS
<1>2. ASSUME NEW x \in Seq(Byte)
      PROVE  \E r \in Seq(Seq(Byte)) :
               /\ Len(r) = 1
               /\ \A i \in 1 .. 1 : Reads(r[i], q[i])
               /\ Payloads(q[1] \o x) = r \o Payloads(x)
  <2>1. PICK p \in Seq(Byte) : Reads(p, q[1]) /\ Payloads(q[1] \o x) = <<p>> \o Payloads(x)
    BY MessageRead
  <2>2. <<p>> \in Seq(Seq(Byte)) /\ Len(<<p>>) = 1 /\ <<p>>[1] = p /\ \A i \in 1 .. 1 : i = 1
    OBVIOUS
  <2> QED BY <2>1, <2>2
<1> QED BY <1>1, <1>2 DEF ReadBack

\* One message more.
LEMMA ReadNext ==
  ASSUME NEW q \in Seq(Seq(Byte)), NEW d \in Nat \ {0}, d + 1 <= Len(q), IsMessage(q[d + 1]),
         NEW s, ReadBack(s, q, d)
  PROVE  ReadBack(s \o q[d + 1], q, d + 1)
<1> DEFINE m == q[d + 1]
<1>1. m \in Seq(Byte) /\ s \in Seq(Byte) /\ s \o m \in Seq(Byte)
  <2>1. m \in Seq(Byte)
    OBVIOUS
  <2>2. s \in Seq(Byte)
    BY DEF ReadBack
  <2> HIDE DEF m
  <2> QED BY <2>1, <2>2, ConcatProperties
<1>2. ASSUME NEW x \in Seq(Byte)
      PROVE  \E r \in Seq(Seq(Byte)) :
               /\ Len(r) = d + 1
               /\ \A i \in 1 .. d + 1 : Reads(r[i], q[i])
               /\ Payloads((s \o m) \o x) = r \o Payloads(x)
  <2>1. PICK p \in Seq(Byte) : Reads(p, m) /\ Payloads(m \o x) = <<p>> \o Payloads(x)
    BY MessageRead
  <2>2. m \o x \in Seq(Byte)
    <3> HIDE DEF m
    <3> QED BY <1>1, ConcatProperties
  <2>3. PICK r \in Seq(Seq(Byte)) :
          /\ Len(r) = d
          /\ \A i \in 1 .. d : Reads(r[i], q[i])
          /\ Payloads(s \o (m \o x)) = r \o Payloads(m \o x)
    BY <2>2 DEF ReadBack
  <2> DEFINE t == r \o <<p>>
  <2>4. t \in Seq(Seq(Byte)) /\ Len(t) = d + 1 /\ t[d + 1] = p /\ \A i \in 1 .. d : t[i] = r[i]
    <3>1. <<p>> \in Seq(Seq(Byte)) /\ Len(<<p>>) = 1 /\ <<p>>[1] = p
      OBVIOUS
    <3>2. /\ t \in Seq(Seq(Byte)) /\ Len(t) = Len(r) + Len(<<p>>)
          /\ \A i \in 1 .. Len(r) + Len(<<p>>) :
               t[i] = IF i <= Len(r) THEN r[i] ELSE <<p>>[i - Len(r)]
      BY <3>1, ConcatProperties
    <3> HIDE DEF t
    <3>3. /\ d + 1 \in 1 .. d + 1 /\ ~(d + 1 <= d) /\ (d + 1) - d = 1
          /\ \A i \in 1 .. d : i \in 1 .. d + 1 /\ i <= d
      OBVIOUS
    <3>4. Len(r) = d
      BY <2>3
    <3> QED BY <3>1, <3>2, <3>3, <3>4
  <2>5. \A i \in 1 .. d + 1 : Reads(t[i], q[i])
    <3> HIDE DEF t
    <3>1. SUFFICES ASSUME NEW i \in 1 .. d + 1 PROVE Reads(t[i], q[i])
      OBVIOUS
    <3>2. i = d + 1 \/ i \in 1 .. d
      OBVIOUS
    <3> QED BY <2>1, <2>3, <2>4, <3>2
  <2>6. Payloads((s \o m) \o x) = t \o Payloads(x)
    <3>1. Payloads(x) \in Seq(Seq(Byte)) /\ <<p>> \in Seq(Seq(Byte))
      BY PayloadsTyped
    <3>3. t \o Payloads(x) = r \o (<<p>> \o Payloads(x))
      BY <2>3, <3>1, ConcatPayloads, Zenon
    <3>5. (s \o m) \o x = s \o (m \o x)
      <4>1. s \in Seq(Byte) /\ m \in Seq(Byte) /\ x \in Seq(Byte)
        BY <1>1
      <4> HIDE DEF m, t
      <4> QED BY <4>1, ConcatBytes
    <3> QED BY <2>1, <2>3, <3>3, <3>5, Zenon
  <2> HIDE DEF t
  <2> QED BY <2>4, <2>5, <2>6
<1> QED BY <1>1, <1>2 DEF ReadBack

\* All messages of a sequence of messages.
LEMMA ReadAll ==
  ASSUME NEW q \in Seq(Seq(Byte)), \A i \in 1 .. Len(q) : IsMessage(q[i]), Len(q) # 0
  PROVE  ReadBack(FlattenSeq(q), q, Len(q))
<1> DEFINE f == Joined(q)
           Bad == {d \in Nat : d \in 1 .. Len(q) /\ ~ReadBack(f[d], q, d)}
<1>1. Len(q) \in Nat /\ 1 \in 1 .. Len(q) /\ Len(q) \in 1 .. Len(q)
  OBVIOUS
<1>2. \A i \in 1 .. Len(q) : f[i] = Join(f, q, i)
  <2>1. Joins(f, q)
    BY JoinedSolves
  <2> HIDE DEF f
  <2>2. f = [i \in 1 .. Len(q) |-> Join(f, q, i)]
    BY <2>1 DEF Joins
  <2> QED BY <2>2
<1>3. FlattenSeq(q) = f[Len(q)]
  BY FlattenJoined
<1> HIDE DEF f
<1>4. Bad = {}
  <2> SUFFICES ASSUME Bad # {} PROVE FALSE
    OBVIOUS
  <2>1. PICK m \in Bad : \A d \in Bad : m <= d
    BY Smallest
  <2>2. m \in 1 .. Len(q) /\ m \in Nat /\ ~ReadBack(f[m], q, m)
    BY <2>1
  <2>3. m # 1
    <3>1. f[1] = q[1]
      BY <1>1, <1>2 DEF Join
    <3>2. ReadBack(q[1], q, 1)
      BY <1>1, ReadFirst
    <3> QED BY <2>2, <3>1, <3>2
  <2>4. PICK d \in Nat \ {0} : m = d + 1
    <3>1. m - 1 \in Nat \ {0} /\ m = (m - 1) + 1
      BY <2>2, <2>3
    <3> QED BY <3>1
  <2>5. d + 1 <= Len(q) /\ d \in 1 .. Len(q) /\ d + 1 \in 1 .. Len(q) /\ (d + 1) - 1 = d
        /\ d + 1 # 1 /\ ~(m <= d)
    BY <1>1, <2>2, <2>4
  <2>6. ReadBack(f[d], q, d)
    BY <2>1, <2>5
  <2>7. f[d + 1] = f[d] \o q[d + 1]
    BY <1>2, <2>5 DEF Join
  <2>8. ReadBack(f[d] \o q[d + 1], q, d + 1)
    BY <2>5, <2>6, ReadNext
  <2> QED BY <2>2, <2>4, <2>7, <2>8
<1> QED BY <1>1, <1>3, <1>4

\* All that the session writes are messages.
Messages == \A i \in 1 .. Len(answers) : IsMessage(answers[i])

\* A part of an answer is one message more.
LEMMA WriteMessages == ASSUME TypeOK, Messages, WriteAnswer PROVE Messages'
<1>1. PICK shifted \in BOOLEAN : answers' = Append(answers, Message(Sdps[part], shifted))
  BY DEF WriteAnswer
<1> DEFINE m == Message(Sdps[part], shifted)
<1>2. IsMessage(m) /\ m \in Seq(Byte)
  <2>1. Sdps[part] \in Nat
    BY SdpsFacts DEF TypeOK
  <2> QED BY <2>1, MessageTyped DEF IsMessage
<1>3. answers' = Append(answers, m)
  BY <1>1
<1> HIDE DEF m
<1>4. answers \in Seq(Seq(Byte)) /\ Len(answers) \in Nat
  BY DEF TypeOK
<1>5. /\ Len(answers') = Len(answers) + 1 /\ answers'[Len(answers) + 1] = m
      /\ \A i \in 1 .. Len(answers) : answers'[i] = answers[i]
  BY <1>2, <1>3, <1>4
<1>6. ASSUME NEW i \in 1 .. Len(answers') PROVE IsMessage(answers'[i])
  <2>1. i \in 1 .. Len(answers) \/ i = Len(answers) + 1
    BY <1>4, <1>5
  <2> QED BY <1>2, <1>5, <2>1 DEF Messages
<1> QED BY <1>6 DEF Messages

\* Only the answer to a query writes.
LEMMA NextMessages == ASSUME TypeOK, Messages, [Next]_vars PROVE Messages'
<1>1. CASE UNCHANGED answers
  BY <1>1 DEF Messages
<1>2. CASE HandleCommands \/ Describe \/ WriteShort \/ WriteKills
  BY <1>1, <1>2
     DEF HandleCommands, Describe, WriteShort, WriteKills, parseVars, writeVars
<1>3. CASE Client
  BY <1>1, <1>3 DEF Client, SendByte, Close, ReadAnswer, SendDatagram, parseVars, writeVars
<1>4. CASE Select \/ Recv \/ RecvNothing \/ RecvFails \/ Resync \/ Compact \/ HandleInputs
  BY <1>1, <1>4
     DEF Select, Recv, RecvNothing, RecvFails, Resync, Compact, HandleInputs, parseVars,
         writeVars
<1>5. CASE UNCHANGED vars
  BY <1>1, <1>5 DEF vars
<1> QED BY <1>2, <1>3, <1>4, <1>5, WriteMessages, Zenon DEF Next, Session

\* The answers can be told apart, whatever their sizes and whatever the shift gives.
THEOREM AnswersCorrect == Spec => []AnswersKeptApart
<1>1. Init => Messages
  BY DEF Init, Messages
<1>2. TypeOK /\ Messages /\ [Next]_vars => Messages'
  BY NextMessages
<1>3. TypeOK /\ Messages => AnswersKeptApart
  <2> SUFFICES ASSUME TypeOK, Messages PROVE AnswersKeptApart
    OBVIOUS
  <2> DEFINE s == FlattenSeq(answers)
  <2>1. answers \in Seq(Seq(Byte)) /\ DOMAIN answers = 1 .. Len(answers) /\ Len(answers) \in Nat
    BY DEF TypeOK
  <2>2. CASE Len(answers) = 0
    <3>1. s = answers /\ answers = <<>> /\ answers \in Seq(Byte)
      BY <2>1, <2>2, EmptySeq DEF FlattenSeq
    <3>4. Len(s) < 3
      BY <2>2, <3>1
    <3>2. Payloads(s) = <<>> /\ Len(<<>>) = 0
      BY <3>1, <3>4, PayloadsShort
    <3> HIDE DEF s
    <3>3. Len(Payloads(s)) = Len(answers) /\ DOMAIN answers = {}
      BY <2>1, <2>2, <3>2
    <3> QED BY <3>3 DEF AnswersKeptApart, s
  <2>3. CASE Len(answers) # 0
    <3>1. ReadBack(s, answers, Len(answers))
      BY <2>1, <2>3, ReadAll DEF Messages
    <3> HIDE DEF s
    <3>2. <<>> \in Seq(Byte) /\ s \in Seq(Byte)
      BY <3>1 DEF ReadBack
    <3>3. PICK r \in Seq(Seq(Byte)) :
            /\ Len(r) = Len(answers)
            /\ \A i \in 1 .. Len(answers) : Reads(r[i], answers[i])
            /\ Payloads(s \o <<>>) = r \o Payloads(<<>>)
      BY <3>1, <3>2 DEF ReadBack
    <3>4. s \o <<>> = s /\ r \o <<>> = r
      BY <3>2, ConcatEmptySeq
    <3>5. Payloads(<<>>) = <<>>
      <4>1. Len(<<>>) < 3
        OBVIOUS
      <4> QED BY <3>2, <4>1, PayloadsShort, Zenon
    <3>6. Payloads(s) = r
      BY <3>3, <3>4, <3>5
    <3>7. \A i \in DOMAIN answers : Reads(r[i], answers[i])
      BY <2>1, <3>3
    <3> QED BY <3>3, <3>6, <3>7 DEF AnswersKeptApart, s, Reads
  <2> QED BY <2>2, <2>3
<1> QED BY <1>1, <1>2, <1>3, TypeCorrect, PTL DEF Spec

=============================================================================
