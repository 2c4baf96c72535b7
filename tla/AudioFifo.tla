----------------------------- MODULE AudioFifo -----------------------------
(***************************************************************************)
(* OpusEncoder::handle: captured blocks of samples go into a FIFO, and     *)
(* frames of frame_size samples come out of it for the codec, at most one  *)
(* for each block. Samples are counted per channel; they leave the FIFO in *)
(* the order in which they entered it, so that numbers stand for them.     *)
(*                                                                         *)
(* handle runs in the thread of the ALSA grabber, under the lock of its    *)
(* Source<AVFrame>, and main's flush turns it off: the threads themselves  *)
(* are in Encoder, where a frame is one that comes out of this FIFO. The   *)
(* names of the specification differ from those of BitrateControl, the     *)
(* other encoder's, for theorems about both stand in one module.           *)
(***************************************************************************)
EXTENDS Integers

CONSTANTS
  FrameSize,     \* samples of a frame, codec_ctx->frame_size
  BlockSizes,    \* samples that the capture device gives at once
  MaxSamples,    \* bound on the samples captured
  Faults         \* "fifo": no memory for a block, "frame": none for a frame,
                 \* "send": avcodec_send_frame fails

ASSUME AudioFifoAssumption ==
  /\ FrameSize \in Nat \ {0}
  /\ BlockSizes \subseteq Nat \ {0}
  /\ MaxSamples \in Nat
  /\ Faults \subseteq {"fifo", "frame", "send"}

VARIABLES
  captured,      \* samples captured (history)
  fifo,          \* samples in the FIFO
  frame_id,
  missed,        \* samples that did not fit into the FIFO (history)
  refused,       \* samples of frames that a full codec refused (history)
  stamped,       \* the last frame stamped: its pts, and the number of its first
                 \* sample among those that entered the FIFO (history)
  alive,         \* the thread of the grabber runs
  initialized

fifoVars == <<captured, fifo, frame_id, missed, refused, stamped, alive, initialized>>

FifoInit ==
  /\ captured = 0 /\ fifo = 0 /\ frame_id = 0
  /\ missed = 0 /\ refused = 0
  /\ stamped = [pts |-> 0, first |-> 0]
  /\ alive = TRUE /\ initialized = TRUE

\* Samples that entered the FIFO.
Entered == captured - missed

\* av_audio_fifo_write: what the FIFO holds afterwards. A failure is printed.
Written(n) == {fifo + n} \cup (IF "fifo" \in Faults THEN {fifo} ELSE {})

\* Mutant: more than a frame is waited for.
EnoughLate(size) == size > FrameSize

Enough(size) == size >= FrameSize

\* Mutant: a frame that was refused counts in frame_id.
RefuseCounted ==
  /\ refused' = refused + FrameSize
  /\ frame_id' = frame_id + FrameSize
  /\ UNCHANGED alive

\* A full codec refuses the frame: its samples are gone.
Refuse ==
  /\ refused' = refused + FrameSize
  /\ UNCHANGED <<frame_id, alive>>

\* feedImpl: the codec takes the frame, or is full, or fails.
FeedImpl ==
  \/ /\ frame_id' = frame_id + FrameSize
     /\ UNCHANGED <<refused, alive>>
  \/ Refuse
  \/ /\ "send" \in Faults
     /\ alive' = FALSE
     /\ UNCHANGED <<frame_id, refused>>

\* A block of n samples is handled.
HandleBlock(n) ==
  /\ alive /\ initialized
  /\ captured + n <= MaxSamples
  /\ captured' = captured + n
  /\ \E size \in Written(n) :
       /\ missed' = missed + (fifo + n - size)
       /\ \/ /\ ~Enough(size)
             /\ fifo' = size
             /\ UNCHANGED <<frame_id, refused, stamped, alive>>
          \/ /\ Enough(size)
             /\ fifo' = size - FrameSize
             /\ stamped' = [pts |-> frame_id, first |-> Entered - fifo]
             /\ FeedImpl
          \/ /\ Enough(size)          \* no buffer: thrown before the FIFO is read
             /\ "frame" \in Faults
             /\ fifo' = size
             /\ alive' = FALSE
             /\ UNCHANGED <<frame_id, refused, stamped>>
  /\ UNCHANGED initialized

\* The end of flush, in the main thread: later blocks are freed unread.
Flush ==
  /\ initialized
  /\ initialized' = FALSE
  /\ UNCHANGED <<captured, fifo, frame_id, missed, refused, stamped, alive>>

FifoNext == (\E n \in BlockSizes : HandleBlock(n)) \/ Flush

FifoSpec == FifoInit /\ [][FifoNext]_fifoVars

-----------------------------------------------------------------------------
(* Properties.                                                             *)

\* The type invariant of the FIFO (the members of OpusEncoder and Encoder).
FifoTypeOK ==
  /\ captured \in 0 .. MaxSamples /\ fifo \in Nat /\ frame_id \in Nat
  /\ missed \in 0 .. captured /\ refused \in Nat
  /\ stamped \in [pts : Nat, first : Nat]
  /\ alive \in BOOLEAN /\ initialized \in BOOLEAN

\* Although handle reads at most one frame for each block, the FIFO keeps up and
\* less than a frame waits in it between two blocks, as long as blocks are no
\* longer than frames. With longer blocks it grows for ever, and so does the delay.
LessThanAFrameWaits ==
  alive /\ BlockSizes \subseteq 1 .. FrameSize => fifo < FrameSize

\* The pts of a frame falls behind the place of its samples in the stream by all
\* that was refused before it: audio drifts by each frame a full codec refuses,
\* and by nothing else that happens after the FIFO.
PtsDriftsByRefusals ==
  /\ stamped.pts <= stamped.first
  /\ stamped.first - stamped.pts <= refused
  /\ alive => Entered = fifo + frame_id + refused
=============================================================================
