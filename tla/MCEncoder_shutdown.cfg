\* The video chain: two converter threads, nothing fails. A frame sent after
\* flush told the codec that the stream ended throws through Source::forward,
\* which stays locked: the other converter thread spins and is never joined.
SPECIFICATION FairSpec
CONSTANTS
  f1 = f1
  f2 = f2
  Feeders = {f1, f2}
  Drain = Drain
  Main = Main
  None = None
  Blank = Blank
  Capacity = 2
  Delay = 1
  PtsMod = 6
  Faults = {}
PROPERTIES ShutdownCompletes
CHECK_DEADLOCK FALSE
