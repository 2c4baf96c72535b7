\* Two clients; sessions, accept and init may fail, and a tick may pass during a purge.
SPECIFICATION Spec
CONSTANTS
  c1 = c1
  c2 = c2
  Clients = {c1, c2}
  Listener = Listener
  Purge = Purge
  Main = Main
  None = None
  Deadline = 1
  InitBound = 1
  MaxLag = 1
  MaxBacklog = 2
  Faults = {"accept", "init", "session", "signal"}
SYMMETRY Symmetry
INVARIANTS TypeOK SinksAlive NoMisuse NothingLeft
PROPERTIES OnlySilentPurged
