---------------------------- MODULE CodecProofs ----------------------------
(***************************************************************************)
(* Theorems about what the two encoders add to Encoder: the FIFO of        *)
(* OpusEncoder and the bit rates of H264Encoder, which have no state in    *)
(* common.                                                                 *)
(*                                                                         *)
(* AudioFifo, for every frame size, every set of block sizes and every     *)
(* choice of failures: the conjunction of the three properties is          *)
(* inductive as it stands; that the pts drifts by refusals alone needs the *)
(* balance of samples in its last conjunct.                                *)
(*                                                                         *)
(* BitrateControl, for any sessions, rates, numbers of requests and codec: *)
(* its types, and that the slowest of the requests collected together      *)
(* decides. What the target is for, and that every batch has a smallest    *)
(* request, strengthen the latter to an inductive invariant.               *)
(***************************************************************************)
EXTENDS AudioFifo, BitrateControl, TLAPS, WellFoundedInduction

-----------------------------------------------------------------------------
(* The FIFO of OpusEncoder.                                                *)

FifoInv == FifoTypeOK /\ LessThanAFrameWaits /\ PtsDriftsByRefusals

\* What the FIFO may hold after a write: the block or nothing was added.
LEMMA WrittenSizes ==
  ASSUME NEW n, NEW size \in Written(n)
  PROVE  size \in {fifo, fifo + n}
BY DEF Written

\* The invariant holds at the beginning.
LEMMA InitFifo == FifoInit => FifoInv
BY AudioFifoAssumption
   DEF FifoInit, FifoInv, FifoTypeOK, LessThanAFrameWaits, PtsDriftsByRefusals, Entered

\* A block that is handled keeps the invariant, whether a frame comes out of the
\* FIFO or not, and whatever the codec says of it.
LEMMA HandleFifo ==
  ASSUME FifoInv, NEW n \in BlockSizes, HandleBlock(n)
  PROVE  FifoInv'
<1> USE AudioFifoAssumption
<1>1. /\ alive /\ initialized /\ initialized' = initialized
      /\ captured' = captured + n /\ captured + n <= MaxSamples
      /\ n \in Nat \ {0}
  BY DEF HandleBlock, FifoInv, FifoTypeOK
<1>2. /\ captured \in Nat /\ fifo \in Nat /\ frame_id \in Nat /\ refused \in Nat
      /\ missed \in Nat /\ missed <= captured
      /\ stamped \in [pts : Nat, first : Nat]
      /\ stamped.pts <= stamped.first /\ stamped.first - stamped.pts <= refused
      /\ captured - missed = fifo + frame_id + refused
  BY <1>1 DEF FifoInv, FifoTypeOK, PtsDriftsByRefusals, Entered
<1>3. PICK size \in Written(n) :
        /\ missed' = missed + (fifo + n - size)
        /\ \/ /\ ~Enough(size)
              /\ fifo' = size
              /\ UNCHANGED <<frame_id, refused, stamped, alive>>
           \/ /\ Enough(size)
              /\ fifo' = size - FrameSize
              /\ stamped' = [pts |-> frame_id, first |-> Entered - fifo]
              /\ FeedImpl
           \/ /\ Enough(size)
              /\ "frame" \in Faults
              /\ fifo' = size
              /\ alive' = FALSE
              /\ UNCHANGED <<frame_id, refused, stamped>>
  BY DEF HandleBlock
<1>4. /\ size \in Nat /\ fifo <= size /\ size <= fifo + n
      /\ captured' \in Nat /\ missed' \in Nat /\ missed' <= captured'
      /\ captured' - missed' = size + frame_id + refused
      /\ captured' \in 0 .. MaxSamples /\ missed' \in 0 .. captured'
  BY <1>1, <1>2, <1>3, WrittenSizes
<1>5. BlockSizes \subseteq 1 .. FrameSize => size < 2 * FrameSize
  <2> HAVE BlockSizes \subseteq 1 .. FrameSize
  <2>1. fifo < FrameSize /\ n <= FrameSize
    BY <1>1 DEF FifoInv, LessThanAFrameWaits
  <2> QED
    BY <2>1, <1>1, <1>2, <1>4
<1>6. CASE /\ ~Enough(size)
           /\ fifo' = size
           /\ UNCHANGED <<frame_id, refused, stamped, alive>>
  <2>1. FifoTypeOK'
    BY <1>1, <1>2, <1>4, <1>6 DEF FifoTypeOK
  <2>2. LessThanAFrameWaits'
    BY <1>4, <1>6 DEF LessThanAFrameWaits, Enough
  <2>3. PtsDriftsByRefusals'
    BY <1>1, <1>2, <1>4, <1>6 DEF PtsDriftsByRefusals, Entered
  <2> QED
    BY <2>1, <2>2, <2>3 DEF FifoInv
<1>7. CASE /\ Enough(size)
           /\ fifo' = size - FrameSize
           /\ stamped' = [pts |-> frame_id, first |-> Entered - fifo]
           /\ FeedImpl
  <2>1. fifo' \in Nat /\ fifo' = size - FrameSize
    BY <1>4, <1>7 DEF Enough
  <2>2. /\ stamped' \in [pts : Nat, first : Nat]
        /\ stamped'.pts = frame_id /\ stamped'.first = frame_id + refused
    <3>1. Entered - fifo = frame_id + refused
      BY <1>2 DEF Entered
    <3>2. stamped' = [pts |-> frame_id, first |-> frame_id + refused]
      BY <3>1, <1>7
    <3> QED
      BY <3>2, <1>2
  <2>3. \/ frame_id' = frame_id + FrameSize /\ refused' = refused /\ alive' = alive
        \/ refused' = refused + FrameSize /\ frame_id' = frame_id /\ alive' = alive
        \/ frame_id' = frame_id /\ refused' = refused /\ alive' = FALSE
    BY <1>7 DEF FeedImpl, Refuse
  <2>4. FifoTypeOK'
    <3>1. frame_id' \in Nat /\ refused' \in Nat
      BY <1>2, <2>3
    <3>2. alive' \in BOOLEAN /\ initialized' \in BOOLEAN
      BY <1>1, <2>3
    <3> QED
      BY <1>4, <2>1, <2>2, <3>1, <3>2 DEF FifoTypeOK
  <2>5. LessThanAFrameWaits'
    BY <1>4, <1>5, <2>1 DEF LessThanAFrameWaits
  <2>6. PtsDriftsByRefusals'
    <3>1. /\ stamped'.pts <= stamped'.first
          /\ stamped'.first - stamped'.pts <= refused'
      BY <1>2, <2>2, <2>3
    <3>2. alive' => captured' - missed' = fifo' + frame_id' + refused'
      <4>1. /\ captured' - missed' = size + frame_id + refused
            /\ size = fifo' + FrameSize
        BY <1>4, <2>1
      <4>2. \/ size + frame_id + refused = fifo' + frame_id' + refused'
            \/ alive' = FALSE
        BY <1>2, <2>1, <2>3, <4>1
      <4> QED
        BY <4>1, <4>2
    <3> QED
      BY <3>1, <3>2 DEF PtsDriftsByRefusals, Entered
  <2> QED
    BY <2>4, <2>5, <2>6 DEF FifoInv
<1>8. CASE /\ Enough(size)
           /\ "frame" \in Faults
           /\ fifo' = size
           /\ alive' = FALSE
           /\ UNCHANGED <<frame_id, refused, stamped>>
  <2>1. FifoTypeOK'
    BY <1>1, <1>2, <1>4, <1>8 DEF FifoTypeOK
  <2>2. LessThanAFrameWaits' /\ PtsDriftsByRefusals'
    BY <1>2, <1>8 DEF LessThanAFrameWaits, PtsDriftsByRefusals
  <2> QED
    BY <2>1, <2>2 DEF FifoInv
<1> QED
  BY <1>3, <1>6, <1>7, <1>8

\* Every call of handle keeps the invariant.
LEMMA NextFifo == FifoInv /\ [FifoNext]_fifoVars => FifoInv'
<1> SUFFICES ASSUME FifoInv, [FifoNext]_fifoVars PROVE FifoInv'
  OBVIOUS
<1>1. ASSUME NEW n \in BlockSizes, HandleBlock(n) PROVE FifoInv'
  BY <1>1, HandleFifo
<1>2. CASE Flush
  BY <1>2 DEF Flush, FifoInv, FifoTypeOK, LessThanAFrameWaits, PtsDriftsByRefusals, Entered
<1>3. CASE UNCHANGED fifoVars
  BY <1>3 DEF fifoVars, FifoInv, FifoTypeOK, LessThanAFrameWaits, PtsDriftsByRefusals, Entered
<1> QED
  BY <1>1, <1>2, <1>3 DEF FifoNext

\* The FIFO accounts for its samples in every state that can be reached.
LEMMA AlwaysFifo == FifoSpec => []FifoInv
BY InitFifo, NextFifo, PTL DEF FifoSpec

\* The type invariant of the FIFO, for every value of the constants: in
\* particular OpusEncoder::handle never reads more than the FIFO holds.
THEOREM FifoTypeCorrect == FifoSpec => []FifoTypeOK
<1>1. FifoInv => FifoTypeOK
  BY DEF FifoInv
<1> QED
  BY <1>1, AlwaysFifo, PTL

\* With blocks no longer than a frame, less than a frame waits in the FIFO
\* between two calls of OpusEncoder::handle, for every frame size.
THEOREM DelayBounded == FifoSpec => []LessThanAFrameWaits
<1>1. FifoInv => LessThanAFrameWaits
  BY DEF FifoInv
<1> QED
  BY <1>1, AlwaysFifo, PTL

\* frame_id stamps a frame with the place of its samples, less what a full codec
\* refused before: OpusEncoder::feedImpl leaves frame_id alone for such a frame.
THEOREM DriftExplained == FifoSpec => []PtsDriftsByRefusals
<1>1. FifoInv => PtsDriftsByRefusals
  BY DEF FifoInv
<1> QED
  BY <1>1, AlwaysFifo, PTL

-----------------------------------------------------------------------------
(* The bit rates of H264Encoder.                                           *)

\* The target of the frame in hand is the smallest request of its batch.
TargetOfBatch ==
  \/ batch = {} /\ target_bitrate = 0
  \/ target_bitrate \in batch /\ \A r \in batch : target_bitrate <= r

RatesInv == TypeOK /\ TargetOfBatch /\ SlowestDecides

-----------------------------------------------------------------------------
\* Every set of natural numbers has a smallest element.
LEMMA Smallest ==
  ASSUME NEW T \in SUBSET Nat, T # {}
  PROVE  \E m \in T : \A n \in T : m <= n
<1> DEFINE R == {ss \in Nat \X Nat : ss[1] < ss[2]}
<1>1. IsWellFoundedOn(R, Nat)
  BY NatLessThanWellFounded DEF OpToRel
<1>2. \A x, y \in Nat : y < x => <<y, x>> \in R
  OBVIOUS
<1> HIDE DEF R
<1>3. \E x \in T : \A y \in T : <<y, x>> \notin R
  BY <1>1, WFMin
<1>4. \A x, y \in T : <<y, x>> \notin R => x <= y
  BY <1>2
<1> QED BY <1>3, <1>4

\* And so has every set of integers that has a lower bound.
LEMMA SmallestAbove ==
  ASSUME NEW b \in Int, NEW T \in SUBSET Int, T # {}, \A x \in T : b <= x
  PROVE  \E m \in T : \A n \in T : m <= n
<1> DEFINE D == {d \in Nat : b + d \in T}
<1>1. \A x \in T : x - b \in Nat /\ b + (x - b) = x
  OBVIOUS
<1>2. \A x \in T : x - b \in D
  BY <1>1
<1>3. PICK m \in D : \A n \in D : m <= n
  <2>1. D \in SUBSET Nat /\ D # {}
    BY <1>2
  <2> HIDE DEF D
  <2> QED BY <2>1, Smallest
<1>4. b + m \in T /\ m \in Nat
  BY <1>3
<1>5. ASSUME NEW n \in T PROVE b + m <= n
  <2>1. n - b \in D /\ m <= n - b
    BY <1>2, <1>3
  <2> QED BY <1>4, <2>1
<1> QED BY <1>4, <1>5

\* Target is the smallest of the requests, be it -1 (std::min_element in feedImpl).
LEMMA TargetSmallest ==
  ASSUME NEW q \in Seq(Requests)
  PROVE  \/ ToSet(q) = {} /\ Target(q) = 0
         \/ Target(q) \in ToSet(q) /\ \A r \in ToSet(q) : Target(q) <= r
<1>1. /\ ToSet(q) \in SUBSET Int /\ Lowest \in Int
      /\ \A r \in ToSet(q) : Lowest <= r
  <2>1. ToSet(q) \subseteq Requests
    BY DEF ToSet
  <2>2. /\ Requests \subseteq Int /\ Lowest \in Int
        /\ \A r \in Requests : Lowest <= r
    BY BitrateControlAssumption
  <2> QED BY <2>1, <2>2
<1>2. CASE q = <<>>
  BY <1>2 DEF Target, ToSet
<1>3. CASE q # <<>>
  <2>1. 1 \in DOMAIN q
    BY <1>3
  <2>2. ToSet(q) # {}
    BY <2>1 DEF ToSet
  <2>3. \E m \in ToSet(q) : \A n \in ToSet(q) : m <= n
    BY <1>1, <2>2, SmallestAbove
  <2> QED BY <1>3, <2>3 DEF Target
<1> QED BY <1>2, <1>3

\* The rate set for a target stays below it.
LEMMA RateBelow ==
  ASSUME NEW t \in Nat
  PROVE  Rate(t) \in Nat /\ Rate(t) <= t
BY DEF Rate

-----------------------------------------------------------------------------
\* The invariant holds at the beginning.
LEMMA InitRates == Init => RatesInv
<1> SUFFICES ASSUME Init PROVE RatesInv
  OBVIOUS
<1> USE BitrateControlAssumption DEF Init
<1>1. made \in [Sessions -> 0 .. MaxRequests] /\ codec \in 0 .. Capacity
  OBVIOUS
<1>2. bitrate_requests \in Seq(Requests)
  OBVIOUS
<1>3. wanting \in BOOLEAN
  OBVIOUS
<1>4. TypeOK /\ TargetOfBatch /\ SlowestDecides
  BY <1>1, <1>2, <1>3 DEF TypeOK, TargetOfBatch, SlowestDecides
<1> QED BY <1>4 DEF RatesInv

\* The feeder takes the rate it has collected: the batch it came from stays its own.
LEMMA SetRatePreserves ==
  ASSUME RatesInv, SetRate
  PROVE  bit_rate' \in Nat /\ rated' \subseteq Requests /\ SlowestDecides'
<1>1. CASE target_bitrate > 0
  <2>1. /\ bit_rate' = Rate(target_bitrate) /\ rated' = batch
        /\ target_bitrate \in Nat /\ batch \subseteq Requests /\ batch \subseteq Int
        /\ \A r \in batch : target_bitrate <= r
    BY <1>1, BitrateControlAssumption
    DEF SetRate, RatesInv, TypeOK, TargetOfBatch
  <2>2. \A r \in batch : r \in Rates /\ Rate(target_bitrate) <= r
    BY <1>1, <2>1, RateBelow DEF Rates
  <2> QED BY <2>1, <2>2, RateBelow DEF SlowestDecides
<1>2. CASE ~(target_bitrate > 0)
  BY <1>2 DEF SetRate, RatesInv, TypeOK, SlowestDecides
<1> QED BY <1>1, <1>2

\* Every step of the sessions, the feeder and the drain thread keeps the invariant.
LEMMA NextRates == RatesInv /\ [Next]_vars => RatesInv'
<1> SUFFICES ASSUME RatesInv, [Next]_vars PROVE RatesInv'
  OBVIOUS
<1> USE BitrateControlAssumption
<1>1. ASSUME NEW s \in Sessions, NEW r \in Requests, Handle(s, r) PROVE RatesInv'
  BY <1>1 DEF RatesInv, TypeOK, TargetOfBatch, SlowestDecides, Handle
<1>2. CASE Collect
  <2>1. TargetOfBatch'
    BY <1>2, TargetSmallest DEF RatesInv, TypeOK, TargetOfBatch, Collect
  <2>2. ToSet(bitrate_requests) \subseteq Requests
    BY DEF RatesInv, TypeOK, ToSet
  <2> QED BY <1>2, <2>1, <2>2 DEF RatesInv, TypeOK, TargetOfBatch, SlowestDecides, Collect
<1>3. CASE SendFrame \/ RefuseFrame \/ SendFails
  <2>1. bit_rate' \in Nat /\ rated' \subseteq Requests /\ SlowestDecides'
    BY <1>3, SetRatePreserves DEF SendFrame, RefuseFrame, SendFails
  <2>2. /\ target_bitrate' = 0 /\ batch' = {} /\ pc' \in {"idle", "dead"}
        /\ UNCHANGED <<made, bitrate_requests>> /\ codec' \in 0 .. Capacity
    BY <1>3 DEF RatesInv, TypeOK, SendFrame, RefuseFrame, SendFails
  <2>3. wanting' \in BOOLEAN
    BY <1>3 DEF RatesInv, TypeOK, SendFrame, RefuseFrame, SendFails
  <2> QED BY <2>1, <2>2, <2>3 DEF RatesInv, TypeOK, TargetOfBatch
<1>4. CASE ReceivePacket
  BY <1>4 DEF RatesInv, TypeOK, TargetOfBatch, SlowestDecides, ReceivePacket
<1>5. CASE UNCHANGED vars
  BY <1>5 DEF RatesInv, TypeOK, TargetOfBatch, SlowestDecides, vars
<1> QED BY <1>1, <1>2, <1>3, <1>4, <1>5 DEF Next, Feed

-----------------------------------------------------------------------------
\* The inductive invariant of the requests: a frame's target is the smallest of its batch.
THEOREM RequestsCorrect == Spec => []RatesInv
BY InitRates, NextRates, PTL DEF Spec

\* The requests keep their types, and the bit rate stays a natural number.
THEOREM RatesTypeCorrect == Spec => []TypeOK
<1>1. RatesInv => TypeOK
  BY DEF RatesInv
<1> QED BY <1>1, RequestsCorrect, PTL

\* The slowest of the requests collected together decides (feedImpl).
THEOREM SlowestCorrect == Spec => []SlowestDecides
<1>1. RatesInv => SlowestDecides
  BY DEF RatesInv
<1> QED BY <1>1, RequestsCorrect, PTL
=============================================================================
