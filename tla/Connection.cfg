SPECIFICATION Spec
CONSTANTS
  Streams <- MCStreams
  MaxFrameLen = 3
  ReadChunk = 3
  MaxOut = 3
  MaxAsked = 1
INVARIANT NothingStranded
PROPERTIES SessionBetween SettlesUp
CHECK_DEADLOCK FALSE
