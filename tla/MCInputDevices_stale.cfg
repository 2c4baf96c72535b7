\* A key that is mapped and one that is not; datagrams may be lost.
SPECIFICATION FairSpec
CONSTANTS
  k1 = k1 k2 = k2 k3 = k3 c1 = c1 c2 = c2
  Keys = {k1, k2}
  Codes = {c1}
  Code <- Single
  Buttons = {}
  MaxInFlight = 1
  MaxReports = 3
  Faults = {"loss"}
PROPERTIES StaleKeyReleased
CHECK_DEADLOCK FALSE
