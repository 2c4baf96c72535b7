\* Two clients that hang up or whose session threads fail, one connection at a time in
\* the backlog; a purge within one tick (MCSocketServer_safety.cfg has slower ones).
SPECIFICATION FairSpec
CONSTANTS
  c1 = c1
  c2 = c2
  Clients = {c1, c2}
  Listener = Listener
  Purge = Purge
  Main = Main
  None = None
  Deadline = 1
  InitBound = 1
  MaxLag = 0
  MaxBacklog = 1
  Faults = {"session"}
PROPERTIES DeadSessionsRemoved ConnectServed ShutdownCompletes
