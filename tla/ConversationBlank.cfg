\* One turn of up to three chunks, some of which may be white space.
SPECIFICATION Spec
CONSTANTS
  NumTurns = 1
  MaxChunks <- MCOneReply
  Cap = 1
INVARIANTS
  PersistsWhatItStreams
