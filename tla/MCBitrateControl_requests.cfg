\* Two sessions whose clients ask for a rate, an I frame or nonsense twice each, and a
\* codec that is full with one frame and may fail.
SPECIFICATION FairSpec
CONSTANTS
  s1 = s1
  s2 = s2
  Sessions = {s1, s2}
  Requests <- Numbers
  Lowest <- MinusTwo
  InitialRate = 500
  Capacity = 1
  MaxRequests = 2
  CodecFails = TRUE
INVARIANTS SlowestDecides
PROPERTIES RequestsHeeded
\* An error of the codec ends the feeding.
CHECK_DEADLOCK FALSE
