\* Two clients, queues of two packets, writes may fail.
SPECIFICATION FairSpec
CONSTANTS
  s1 = s1
  s2 = s2
  Senders = {s1, s2}
  Encoder = Encoder
  None = None
  Observed = s1
  Capacity = 2
  MaxPackets = 3
  Faults = {"write"}
INVARIANTS TypeOK OneFate DestroyedNeverCalled
PROPERTIES OrderedStream QueuedWritten
\* The encoder stops after MaxPackets, and the server may be done.
CHECK_DEADLOCK FALSE
