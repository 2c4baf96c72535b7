\* Bytes 0 and 1, 1 also the delimiter: messages of 0 to 3 bytes, the longest of
\* which does not fit into the buffer, cut and mixed with datagrams in every way.
SPECIFICATION FairSpec
CONSTANTS
  Base = 2
  Capacity = 5
  Padding = 1
  MaxBytes = 7
  MaxDatagrams = 2
  MaxPending = 2
  Sdps <- TwoSdps
  SendRoom = 1
  Faults = {"reset", "close", "describe"}
INVARIANTS TypeOK FramingExact AnswersKeptApart PacedClientLosesNothing WedgedOnlyByOversized
PROPERTIES CommandsHandled InputsServed
\* The client sends no more than MaxBytes.
CHECK_DEADLOCK FALSE
