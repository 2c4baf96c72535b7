\* The descriptors of two sessions at a time, or of three one after the other; an init, the
\* screen grabber and the init of a session may fail, and the codecs after their end.
SPECIFICATION FairSpec
CONSTANTS
  Limit = 19
  Faults = {"init", "session", "video_source"}
INVARIANTS MisuseOnlyUnwinding ServerOutlivesReconnects
PROPERTIES ProcessEnds
CHECK_DEADLOCK FALSE
