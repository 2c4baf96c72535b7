--------------------------- MODULE BitrateControl ---------------------------
(***************************************************************************)
(* The requests that the sessions' clients make of the video encoder while *)
(* frames go through it: a bit rate, or -1 for an I frame. Nothing checks  *)
(* what a client sends: any 64 bit integer is a request, and those that    *)
(* are neither have no effect but on the requests beside them. A session   *)
(* forwards a request to H264Encoder::handle(bitrate_request), in its own  *)
(* thread; feedImpl collects what came since the last frame, in the thread *)
(* that feeds the encoder. Frames enter one at a time: Source<AVFrame>     *)
(* keeps its lock around feedImpl (see Encoder).                           *)
(*                                                                         *)
(* The codec (external) takes up to Capacity frames and refuses more until *)
(* a packet was received.                                                  *)
(***************************************************************************)
EXTENDS Integers, Sequences, SequencesExt

CONSTANTS
  Sessions,
  Requests,      \* what clients send, among all int64_t
  Lowest,        \* the smallest int64_t
  InitialRate,   \* of the encoder's parameters
  Capacity,      \* of the codec
  MaxRequests,   \* requests of a session
  CodecFails     \* the codec may give an error other than EAGAIN

IFrame == -1

ASSUME BitrateControlAssumption ==
  /\ Requests \subseteq Int /\ Lowest \in Int /\ \A r \in Requests : Lowest <= r
  /\ InitialRate \in Nat /\ Capacity \in Nat \ {0} /\ MaxRequests \in Nat
  /\ CodecFails \in BOOLEAN

\* The requests that mean a bit rate.
Rates == {r \in Requests : r > 0}

VARIABLES
  made,                \* number of requests each session made
  bitrate_requests,    \* of H264Encoder, the oldest first
  pc,                  \* of feedImpl: "idle", "send" or "dead"
  target_bitrate,      \* its local variable; 0 if nothing was asked for
  batch,               \* the requests it was computed from (history)
  bit_rate,            \* of codec_ctx
  rated,               \* the batch that bit_rate comes from, {} at first (history)
  codec,               \* frames in the codec
  wanting              \* an I frame was asked for and none accepted since (history)

vars == <<made, bitrate_requests, pc, target_bitrate, batch, bit_rate, rated,
          codec, wanting>>

Init ==
  /\ made = [s \in Sessions |-> 0]
  /\ bitrate_requests = <<>>
  /\ pc = "idle"
  /\ target_bitrate = 0 /\ batch = {}
  /\ bit_rate = InitialRate /\ rated = {}
  /\ codec = 0
  /\ wanting = FALSE

\* handle(bitrate_request), in the thread of the session, under request_lock.
Handle(s, r) ==
  /\ made[s] < MaxRequests
  /\ made' = [made EXCEPT ![s] = @ + 1]
  /\ bitrate_requests' = Append(bitrate_requests, r)
  /\ wanting' = (wanting \/ r = IFrame)
  /\ UNCHANGED <<pc, target_bitrate, batch, bit_rate, rated, codec>>

\* Mutant: the newest request wins.
TargetLast(requests) == IF requests = <<>> THEN 0 ELSE Last(requests)

\* Mutant: only bit rates are compared.
TargetOfRates(requests) ==
  LET rates == ToSet(requests) \cap Rates
  IN IF requests = <<>> THEN 0
     ELSE IF rates = {} THEN IFrame
     ELSE CHOOSE r \in rates : \A q \in rates : r <= q

\* The smallest of the requests.
Target(requests) ==
  IF requests = <<>> THEN 0
  ELSE CHOOSE r \in ToSet(requests) : \A q \in ToSet(requests) : r <= q

\* The first half of feedImpl: a frame came, and the requests are collected
\* under request_lock.
Collect ==
  /\ pc = "idle"
  /\ target_bitrate' = Target(bitrate_requests)
  /\ batch' = ToSet(bitrate_requests)
  /\ bitrate_requests' = <<>>
  /\ pc' = "send"
  /\ UNCHANGED <<made, bit_rate, rated, codec, wanting>>

\* 0.95 * target_bitrate, made an integer.
Rate(target) == (95 * target) \div 100

\* The bit rate is set, whether the frame is taken or not.
SetRate ==
  IF target_bitrate > 0
  THEN bit_rate' = Rate(target_bitrate) /\ rated' = batch
  ELSE UNCHANGED <<bit_rate, rated>>

\* The second half, under encoder_lock: the codec takes the frame, as an I frame
\* if the target says so...
SendFrame ==
  /\ pc = "send"
  /\ SetRate
  /\ codec < Capacity
  /\ codec' = codec + 1
  /\ wanting' = (wanting /\ ~(target_bitrate = IFrame /\ IFrame \notin ToSet(bitrate_requests)))
  /\ pc' = "idle"
  /\ target_bitrate' = 0 /\ batch' = {}
  /\ UNCHANGED <<made, bitrate_requests>>

\* ... or says EAGAIN: the frame is dropped, and with it the request.
RefuseFrame ==
  /\ pc = "send"
  /\ SetRate
  /\ codec = Capacity
  /\ pc' = "idle"
  /\ target_bitrate' = 0 /\ batch' = {}
  /\ UNCHANGED <<made, bitrate_requests, codec, wanting>>

\* ... or gives another error: feedImpl throws. The exception leaves forward with the
\* lock of Source<AVFrame> held, and no frame gets to the encoder any more.
SendFails ==
  /\ CodecFails
  /\ pc = "send"
  /\ SetRate
  /\ pc' = "dead"
  /\ target_bitrate' = 0 /\ batch' = {}
  /\ UNCHANGED <<made, bitrate_requests, codec, wanting>>

\* The drain thread receives a packet.
ReceivePacket ==
  /\ codec > 0
  /\ codec' = codec - 1
  /\ UNCHANGED <<made, bitrate_requests, pc, target_bitrate, batch, bit_rate,
                 rated, wanting>>

Feed == Collect \/ SendFrame \/ RefuseFrame \/ SendFails

Next ==
  \/ \E s \in Sessions, r \in Requests : Handle(s, r)
  \/ Feed
  \/ ReceivePacket

Spec == Init /\ [][Next]_vars

\* The screen is grabbed all the time and the drain thread runs. The grabber is
\* clocked and the drain thread is not: again and again it empties the codec
\* before a frame is sent, and again and again it may be late.
FairSpec == Spec /\ WF_vars(Feed) /\ WF_vars(ReceivePacket) /\ SF_vars(SendFrame)

-----------------------------------------------------------------------------
(* Properties.                                                             *)

\* The type invariant of the requests of the video encoder (H264Encoder).
TypeOK ==
  /\ made \in [Sessions -> 0 .. MaxRequests]
  /\ bitrate_requests \in Seq(Requests)
  /\ pc \in {"idle", "send", "dead"}
  /\ target_bitrate \in Requests \cup {0}
  /\ batch \subseteq Requests /\ rated \subseteq Requests
  /\ bit_rate \in Nat
  /\ codec \in 0 .. Capacity
  /\ wanting \in BOOLEAN

\* The encoder never exceeds what any of the sessions whose requests it acts on
\* can take: the slowest of the requests collected together decides, whichever
\* order the sessions' threads made them in.
SlowestDecides == \A r \in rated : r \in Rates /\ bit_rate <= r

\* What a client asks for happens, unless the encoder fails. An I frame (the comment on
\* bitrate == -1 in feedImpl) comes whatever rates are asked for at the same time, but
\* the request is forgotten if the codec is full when the frame comes that is to be that
\* I frame, or if a request below -1 comes before it. The rate comes down to what was
\* asked for, unless something that is no rate, -1 or another number not above 0, is
\* asked for before the next frame: it is the smallest request, and the others of its
\* batch are forgotten.
RequestsHeeded ==
  /\ IFrame \in ToSet(bitrate_requests)
       ~> \/ ~wanting \/ pc = "dead"
          \/ pc = "send" /\ target_bitrate = IFrame /\ codec = Capacity
          \/ pc = "send" /\ IFrame \in batch /\ target_bitrate < IFrame
  /\ \A r \in Rates :
       r \in ToSet(bitrate_requests)
         ~> bit_rate <= r \/ pc = "dead" \/ (pc = "send" /\ r \in batch /\ target_bitrate <= 0)

=============================================================================
