\* Attempts with a request of two chunks through a pipe that takes one of them, and a
\* response of two chunks, which is also the limit.
SPECIFICATION HostSpec
CONSTANTS
  FrameChunks = 2
  PipeSize = 1
  MaxOutput = 2
  Disturbances = {"failure", "stall"}
INVARIANTS
  DefiniteIsProven
  NothingSurvives
  CleanRunCompletes
PROPERTY AttemptEnds
CHECK_DEADLOCK FALSE
