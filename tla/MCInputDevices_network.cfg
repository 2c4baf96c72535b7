\* Two keys of one code, a third one and a button; every fault of the network.
SPECIFICATION Spec
CONSTANTS
  k1 = k1 k2 = k2 k3 = k3 c1 = c1 c2 = c2
  Keys = {k1, k2, k3}
  Codes = {c1, c2}
  Code <- Aliased
  Buttons = {0}
  MaxInFlight = 2
  MaxReports = 2
  Faults = {"loss", "duplicate", "reorder", "json"}
INVARIANTS TypeOK LastWordCounts InSync
\* A client that is gone for good leaves nothing to do.
CHECK_DEADLOCK FALSE
