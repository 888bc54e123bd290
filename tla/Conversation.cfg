\* Two turns, the first with more chunks than its channels of capacity one
\* hold: the second starts while the abandoned first one still runs.
SPECIFICATION FairSpec
CONSTANTS
  NumTurns = 2
  MaxChunks <- MCMaxChunks
  Cap = 1
INVARIANTS
  TypeOK
  CompletedTurnsAreRemembered
  RepliesAreSound
  HeardIsReply
  NobodyIsStranded
  Inv
PROPERTIES
  RequestsWindDown
  KeepsTheDialogue
