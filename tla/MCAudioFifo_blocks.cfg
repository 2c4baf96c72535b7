\* Blocks of any size up to a frame, every failure.
SPECIFICATION FifoSpec
CONSTANTS
  FrameSize = 4
  BlockSizes = {1, 3, 4}
  MaxSamples = 24
  Faults = {"fifo", "frame", "send"}
INVARIANTS LessThanAFrameWaits PtsDriftsByRefusals
\* Capturing is bounded.
CHECK_DEADLOCK FALSE
