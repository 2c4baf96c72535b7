--------------------------- MODULE CommandStream ---------------------------
(***************************************************************************)
(* The thread of a RemoteSession: select over the TCP socket of commands   *)
(* and the UDP socket of inputs, and the framing of the TCP stream in      *)
(* stream_buffer. A frame is the delimiter, two bytes of length with the   *)
(* high one first, and that many bytes of payload. The answers to a query  *)
(* go back on the same connection.                                         *)
(*                                                                         *)
(* A byte is a number below Base, 256 in the code, and the delimiter is    *)
(* the largest one, 0xff in the code. Offsets are those of the code plus   *)
(* one: the first byte of the buffer is buffer[1].                         *)
(***************************************************************************)
EXTENDS Naturals, Sequences, SequencesExt

CONSTANTS
  Base,          \* number of byte values
  Capacity,      \* sizeof(stream_buffer)
  Padding,       \* SIMDJSON_PADDING
  MaxBytes,      \* bytes the client sends on TCP
  MaxDatagrams,  \* datagrams the client sends on UDP
  MaxPending,    \* datagrams the UDP socket holds
  Sdps,          \* the sizes of the two answers to a query
  SendRoom,      \* answers the two ends of the connection hold unread
  Faults         \* what may fail: "reset", "close", "describe"

HeaderSize == 3

ASSUME CommandStreamAssumption ==
  /\ Base \in Nat /\ Base > 1
  /\ Capacity \in Nat /\ Padding \in Nat /\ Capacity > HeaderSize + Padding
  /\ MaxBytes \in Nat /\ MaxDatagrams \in Nat /\ MaxPending \in Nat
  /\ Sdps \in Seq(Nat) /\ Sdps # <<>> /\ SendRoom \in Nat \ {0}
  /\ Faults \subseteq {"reset", "close", "describe"}

Byte == 0 .. Base - 1
Delimiter == Base - 1

VARIABLES
  sent,          \* every byte the client sent on TCP (history)
  wire,          \* bytes sent and not received yet
  closed,        \* the client closed the TCP connection
  buffer,        \* stream_buffer, up to stream_size
  start_offset,
  handled,       \* payloads the JSON parser accepted or refused, in order
  answers,       \* messages sent to the client, in order
  part,          \* the answer to a query that is next: its description or its message
  unread,        \* messages sent and not read by the client
  broken,        \* a send has failed
  lost,          \* some payload was refused for want of padding
  crowded,       \* some time more than Capacity - Padding bytes were outstanding
  offered,       \* datagrams sent (history)
  pending,       \* datagrams in the UDP socket
  ready,         \* the sockets select found readable
  pc

vars == <<sent, wire, closed, buffer, start_offset, handled, answers, part, unread,
          broken, lost, crowded, offered, pending, ready, pc>>

clientVars == <<sent, wire, closed, crowded, offered>>
writeVars == <<answers, part, unread, broken>>
parseVars == <<buffer, start_offset, handled, lost, writeVars>>

Init ==
  /\ sent = <<>> /\ wire = <<>> /\ closed = FALSE
  /\ buffer = <<>> /\ start_offset = 1
  /\ handled = <<>> /\ lost = FALSE /\ crowded = FALSE
  /\ answers = <<>> /\ part = 1 /\ unread = 0 /\ broken = FALSE
  /\ offered = 0 /\ pending = 0
  /\ ready = {}
  /\ pc = "select"

-----------------------------------------------------------------------------
(* The client and the network.                                             *)

\* Bytes that the client sent and that the session has not parsed yet.
Outstanding == Len(wire) + Len(buffer) - start_offset + 1

SendByte(b) ==
  /\ ~closed /\ Len(sent) < MaxBytes
  /\ sent' = Append(sent, b)
  /\ wire' = Append(wire, b)
  /\ crowded' = (crowded \/ Outstanding + 1 > Capacity - Padding)
  /\ UNCHANGED <<closed, offered, pending, parseVars, ready, pc>>

\* The connection ends on the side of the client: it closes, or the network gives up.
Close ==
  /\ "close" \in Faults /\ ~closed
  /\ closed' = TRUE
  /\ UNCHANGED <<sent, wire, crowded, offered, pending, parseVars, ready, pc>>

\* The client takes a message out of its socket; nothing makes it.
ReadAnswer ==
  /\ ~closed /\ unread > 0
  /\ unread' = unread - 1
  /\ UNCHANGED <<clientVars, buffer, start_offset, handled, lost, answers, part, broken,
                 pending, ready, pc>>

\* A datagram arrives; one that the network or a full socket drops does not.
SendDatagram ==
  /\ offered < MaxDatagrams /\ pending < MaxPending
  /\ offered' = offered + 1
  /\ pending' = pending + 1
  /\ UNCHANGED <<sent, wire, closed, crowded, parseVars, ready, pc>>

-----------------------------------------------------------------------------
(* The session thread.                                                     *)

TcpReadable == wire # <<>> \/ closed
UdpReadable == pending > 0

\* Mutant: the UDP socket is left out of the set of descriptors.
SelectTcpOnly ==
  /\ pc = "select"
  /\ TcpReadable
  /\ ready' = {"tcp"}
  /\ pc' = "recv"
  /\ UNCHANGED <<clientVars, parseVars, pending>>

\* A select that times out goes round the loop: a step that changes nothing.
Select ==
  /\ pc = "select"
  /\ TcpReadable \/ UdpReadable
  /\ ready' = {s \in {"tcp", "udp"} : IF s = "tcp" THEN TcpReadable ELSE UdpReadable}
  /\ pc' = IF TcpReadable THEN "recv" ELSE "udp"
  /\ UNCHANGED <<clientVars, parseVars, pending>>

Room == Capacity - Len(buffer)

\* Mutant: recv is given the whole size of the buffer.
TakenAll == IF Len(wire) <= Capacity THEN Len(wire) ELSE Capacity

Taken == IF Len(wire) <= Room THEN Len(wire) ELSE Room

Recv ==
  /\ pc = "recv" /\ Taken > 0
  /\ buffer' = buffer \o SubSeq(wire, 1, Taken)
  /\ wire' = SubSeq(wire, Taken + 1, Len(wire))
  /\ start_offset' = 1
  /\ pc' = "parse"
  /\ UNCHANGED <<sent, closed, crowded, offered, pending, handled, lost, writeVars,
                 ready>>

\* recv gives 0: the connection is closed, or the buffer has no room. The loop
\* goes on without looking at the UDP socket.
RecvNothing ==
  /\ pc = "recv" /\ Taken = 0
  /\ pc' = "select"
  /\ UNCHANGED <<clientVars, parseVars, pending, ready>>

\* recv fails: the exception ends the thread.
RecvFails ==
  /\ "reset" \in Faults
  /\ pc = "recv"
  /\ pc' = "ended"
  /\ UNCHANGED <<clientVars, parseVars, pending, ready>>

HeaderComplete == start_offset + HeaderSize - 1 <= Len(buffer)
AtDelimiter == buffer[start_offset] = Delimiter
MsgSize == Base * buffer[start_offset + 1] + buffer[start_offset + 2]
NextOffset == start_offset + HeaderSize + MsgSize
FrameComplete == NextOffset - 1 <= Len(buffer)

Resync ==
  /\ pc = "parse" /\ HeaderComplete /\ ~AtDelimiter
  /\ start_offset' = start_offset + 1
  /\ UNCHANGED <<clientVars, buffer, handled, lost, writeVars, pending, ready, pc>>

\* Mutant: the capacity handed on is that of the bytes received.
RefusedByStreamSize == NextOffset - 1 + Padding > Len(buffer)

\* The parser wants Padding readable bytes behind the payload and refuses it
\* when the buffer ends before: handleCommands prints the error.
Refused == NextOffset - 1 + Padding > Capacity

Payload == SubSeq(buffer, start_offset + HeaderSize, NextOffset - 1)

\* JSON has no byte 0xff: a payload that begins with another one stands for a query.
Query == Payload # <<>> /\ Head(Payload) # Delimiter

\* Mutant: the two bytes of the length are swapped.
MessageSwapped(size, shifted) ==
  <<Delimiter, IF shifted THEN 0 ELSE size % Base, 0>> \o [i \in 1 .. size |-> 0]

\* What writeImpl sends. It shifts the size by 56 bits for the high byte of the
\* length, which leaves 0, and by 64 for the low one, which is undefined: the
\* processor shifts by 0, a compiler may give 0.
Message(size, shifted) ==
  <<Delimiter, 0, IF shifted THEN 0 ELSE size % Base>> \o [i \in 1 .. size |-> 0]

\* Mutant: the header is not skipped with the payload.
HandleCommandsShort ==
  /\ pc = "parse" /\ HeaderComplete /\ AtDelimiter /\ FrameComplete
  /\ handled' = Append(handled, Payload)
  /\ lost' = (lost \/ Refused)
  /\ start_offset' = start_offset + MsgSize + 1
  /\ UNCHANGED <<clientVars, buffer, writeVars, pending, ready, pc>>

\* A query is answered message by message before the next frame is looked at.
HandleCommands ==
  /\ pc = "parse" /\ HeaderComplete /\ AtDelimiter /\ FrameComplete
  /\ handled' = Append(handled, Payload)
  /\ lost' = (lost \/ Refused)
  /\ start_offset' = NextOffset
  /\ pc' = IF ~Refused /\ Query THEN "describe" ELSE pc
  /\ UNCHANGED <<clientVars, buffer, writeVars, pending, ready>>

\* generateSdp, the next one of the two. Its InitFail is no simdjson_error: it leaves
\* handleCommands and ends the thread.
Describe ==
  /\ pc = "describe"
  /\ pc' \in {"write"} \cup (IF "describe" \in Faults THEN {"ended"} ELSE {})
  /\ UNCHANGED <<clientVars, parseVars, pending, ready>>

\* The second description comes after the first, the next frame after both.
NextPart ==
  /\ part' = IF part = Len(Sdps) THEN 1 ELSE part + 1
  /\ pc' = IF part = Len(Sdps) THEN "parse" ELSE "describe"

\* writeImpl: the socket blocks, so the step waits for room in it.
WriteAnswer ==
  /\ pc = "write" /\ ~broken /\ unread < SendRoom
  /\ \E shifted \in BOOLEAN : answers' = Append(answers, Message(Sdps[part], shifted))
  /\ unread' = unread + 1
  /\ NextPart
  /\ UNCHANGED <<clientVars, buffer, start_offset, handled, lost, broken, pending, ready>>

\* The connection is gone before or during a send, which gives fewer bytes or -1:
\* writeImpl prints that and goes on. Nobody reads what was cut.
WriteShort ==
  /\ pc = "write" /\ closed /\ ~broken
  /\ broken' = TRUE
  /\ NextPart
  /\ UNCHANGED <<clientVars, buffer, start_offset, handled, lost, answers, unread, pending,
                 ready>>

\* A send on a connection that a send has found broken raises SIGPIPE, which nothing
\* handles: the process ends. The second send of writeImpl is one already.
WriteKills ==
  /\ pc = "write" /\ closed
  /\ pc' = "killed"
  /\ UNCHANGED <<clientVars, parseVars, pending, ready>>

Parsed == pc = "parse" /\ (HeaderComplete => AtDelimiter /\ ~FrameComplete)

AfterTcp == pc' = IF "udp" \in ready THEN "udp" ELSE "select"

\* Mutant: the bytes read are consumed only when no frame is left incomplete.
CompactLate ==
  /\ Parsed
  /\ buffer' = IF start_offset > Len(buffer) THEN <<>> ELSE buffer
  /\ start_offset' = 1
  /\ AfterTcp
  /\ UNCHANGED <<clientVars, handled, lost, writeVars, pending, ready>>

\* Mutant: the incomplete frame is dropped with the bytes read.
CompactAll ==
  /\ Parsed
  /\ buffer' = <<>>
  /\ start_offset' = 1
  /\ AfterTcp
  /\ UNCHANGED <<clientVars, handled, lost, writeVars, pending, ready>>

\* memmove: an incomplete frame goes to the start of the buffer.
Compact ==
  /\ Parsed
  /\ buffer' = SubSeq(buffer, start_offset, Len(buffer))
  /\ start_offset' = 1
  /\ AfterTcp
  /\ UNCHANGED <<clientVars, handled, lost, writeVars, pending, ready>>

HandleInputs ==
  /\ pc = "udp"
  /\ pending' = pending - 1
  /\ pc' = "select"
  /\ UNCHANGED <<clientVars, parseVars, ready>>

Client == (\E b \in Byte : SendByte(b)) \/ Close \/ ReadAnswer \/ SendDatagram

Session == Select \/ Recv \/ RecvNothing \/ RecvFails \/ Resync \/ HandleCommands
           \/ Describe \/ WriteAnswer \/ WriteShort \/ WriteKills \/ Compact \/ HandleInputs

Next == Client \/ Session

Spec == Init /\ [][Next]_vars

\* The session thread runs; the client need not send anything, nor read its answers.
FairSpec == Spec /\ WF_vars(Session)

-----------------------------------------------------------------------------
(* Properties.                                                             *)

\* The type invariant of the session thread (RemoteSession::run).
TypeOK ==
  /\ sent \in Seq(Byte) /\ wire \in Seq(Byte)
  /\ closed \in BOOLEAN /\ lost \in BOOLEAN /\ crowded \in BOOLEAN
  /\ buffer \in Seq(Byte) /\ Len(buffer) <= Capacity
  /\ start_offset \in 1 .. Len(buffer) + 1
  /\ handled \in Seq(Seq(Byte)) /\ answers \in Seq(Seq(Byte))
  /\ part \in 1 .. Len(Sdps) /\ unread \in 0 .. SendRoom /\ broken \in BOOLEAN
  /\ offered \in 0 .. MaxDatagrams /\ pending \in 0 .. MaxPending
  /\ ready \subseteq {"tcp", "udp"}
  /\ pc \in {"select", "recv", "parse", "describe", "write", "udp", "ended", "killed"}
  /\ pc = "udp" => pending > 0

\* The position behind the frame that begins at position i of a stream.
Behind(s, i) == i + HeaderSize + Base * s[i + 1] + s[i + 2]

\* The payloads of the frames of a whole stream, from its definition: at each
\* position a frame is taken if one is complete there, waited for if one has
\* begun, and the byte is skipped if none begins.
Payloads(s) ==
  LET from[i \in 1 .. Len(s) + 1] ==
        IF i + HeaderSize - 1 > Len(s) THEN <<>>
        ELSE IF s[i] # Delimiter THEN from[i + 1]
        ELSE IF Behind(s, i) - 1 > Len(s) THEN <<>>
        ELSE <<SubSeq(s, i + HeaderSize, Behind(s, i) - 1)>> \o from[Behind(s, i)]
  IN from[1]

\* However TCP cuts the stream into segments and however the loop of run reads
\* and moves them in stream_buffer, the commands found so far and those that the
\* bytes left still hold are the commands of the whole stream, in its order.
FramingExact ==
  handled \o Payloads(SubSeq(buffer, start_offset, Len(buffer)) \o wire)
    = Payloads(sent)

\* A client that reads the answers as the session reads the commands finds each one
\* that was sent whole and never takes the one for a part of the other, although writeImpl gets
\* the length wrong: it sees the beginning of each, and none that takes more than
\* one byte of length is whole.
AnswersKeptApart ==
  LET read == Payloads(FlattenSeq(answers))
      size(i) == Len(answers[i]) - HeaderSize
  IN /\ Len(read) = Len(answers)
     /\ \A i \in DOMAIN answers :
          /\ Len(read[i]) <= size(i)
          /\ size(i) >= Base => Len(read[i]) < size(i)

\* A client that never has more bytes on their way or in stream_buffer than fit
\* in it with the padding of the parser behind them loses no command to
\* handleCommands' capacity argument.
PacedClientLosesNothing == lost => crowded

\* The session can only be stuck with a full stream_buffer (recv of 0 bytes for
\* ever) behind a frame that is longer than the whole buffer.
Wedged == pc \in {"select", "recv", "udp"} /\ Len(buffer) = Capacity

WedgedOnlyByOversized ==
  Wedged => /\ buffer[1] = Delimiter
            /\ HeaderSize + Base * buffer[2] + buffer[3] > Capacity

\* The thread waits in send for a client that is there and does not read.
Blocked == pc = "write" /\ unread = SendRoom /\ ~closed

Gone == pc \in {"ended", "killed"}

\* Every complete command is handled in the end: none waits in stream_buffer for a
\* byte that would wake select. The exceptions are that the client never reads its
\* answers, that the connection breaks or a description fails, that an oversized frame
\* fills the buffer, and that the answer to a client that is gone ends the process.
CommandsHandled == <>[]Blocked \/ <>[](Gone \/ Wedged \/ handled = Payloads(sent))

\* A datagram of inputs is read in the end, whatever arrives on TCP, unless the thread
\* waits for ever for a client that does not read its answers, or has ended, or that
\* socket is readable for ever: closed by the client, or behind a full buffer.
InputsServed ==
  <>[]Blocked \/ ((pending > 0) ~> (pending = 0 \/ Gone \/ closed \/ Wedged))

=============================================================================
