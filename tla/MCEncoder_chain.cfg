\* Two converter threads, a codec that holds one frame back, any external call may
\* fail. With one of the feeders ended or never scheduled it is the audio chain.
SPECIFICATION FairSpec
CONSTANTS
  f1 = f1
  f2 = f2
  Feeders = {f1, f2}
  Drain = Drain
  Main = Main
  None = None
  Blank = Blank
  Capacity = 2
  Delay = 1
  PtsMod = 5
  Faults = {"grab", "send", "receive"}
INVARIANTS OnlyFlushIntrudes
PROPERTIES InOrder PacketsDelivered ShutdownHangsOnly
\* The shutdown may hang, as ShutdownHangsOnly says.
CHECK_DEADLOCK FALSE
