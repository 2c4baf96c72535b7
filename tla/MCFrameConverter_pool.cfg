\* The two threads that main asks for; anything may fail.
SPECIFICATION FairSpec
CONSTANTS
  w1 = w1
  w2 = w2
  Workers = {w1, w2}
  None = None
  Capacity = 2
  MaxFrames = 5
  Faults = {"convert", "sink"}
INVARIANTS TypeOK OneFate BoundedOvertaking
PROPERTIES QuietAfterStop QueuedDelivered StopCompletes
\* Capturing is bounded, and a thread may wait for ever for a leaked lock.
CHECK_DEADLOCK FALSE
